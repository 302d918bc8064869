-------------------------- MODULE MCWorkflowHttp --------------------------
(* Two competitions: the first always in its window, with two fixtures of  *)
(* the same two teams of which the second is over; the second competition  *)
(* in a window on Saturday afternoons.                                     *)
EXTENDS WorkflowHttp

CONSTANTS always, pending, s1, s2

MCCatalogue == <<"cup", "league">>
MCCalendar == [c \in {"cup", "league"} |->
                 IF c = "cup" THEN always ELSE {[day |-> 6, from |-> 12, to |-> 15]}]
MCWindow == [c \in {"cup", "league"} |->
               IF c = "cup"
               THEN << [id |-> "f1", teams |-> <<"a", "b">>, status |-> "NS", overdue |-> FALSE],
                       [id |-> "f2", teams |-> <<"b", "a">>, status |-> "FT", overdue |-> TRUE] >>
               ELSE << [id |-> "f3", teams |-> <<"c">>, status |-> "NS", overdue |-> TRUE] >>]
MCMoments == {[day |-> 6, hour |-> 14], [day |-> 6, hour |-> 15]}
Others == {"squad-sweep", "sweep-missing-payloads"}
=============================================================================
