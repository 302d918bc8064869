---------------------------- MODULE AssetMirror ----------------------------
(***************************************************************************)
(* The imagery mirror of worker/asset-mirror.ts: for each image a payload  *)
(* names, resolve the entity, HEAD the object, GET the image, PUT it, and  *)
(* patch the coverage manifest by an unguarded read-modify-write.          *)
(*                                                                         *)
(* A lane is one fetch of the ingestion loop running the bridge; it takes  *)
(* its images one after the other, and as mirrorOne never throws the next  *)
(* image is mirrored whatever became of the last.  All lanes share the     *)
(* bucket, and those of one worker die together.                           *)
(***************************************************************************)
EXTENDS Integers, FiniteSets

CONSTANTS Lanes,      \* concurrent fetches of the worker
          Images,     \* images, each of an entity at an extension
          EntityOf,   \* EntityOf[i]: the canonical entity image i shows
          None,       \* no image
          MaxFaults,  \* bound: store commands that fail
          MaxCrashes, \* bound: worker crashes
          MaxTouches  \* bound: changes of the manifest by others

Entities == {EntityOf[i] : i \in Images}

ASSUME LanesAssumption == IsFiniteSet(Lanes)
ASSUME NoneIsNoImage == None \notin Images
ASSUME BoundsAssumption ==
    MaxFaults \in Nat /\ MaxCrashes \in Nat /\ MaxTouches \in Nat

VARIABLES
    objects,   \* images in the media bucket
    manifest,  \* manifest[e]: the layers the coverage manifest lists for e
    at,        \* at[l]: the next step of lane l
    job,       \* job[l]: the image lane l mirrors
    copy,      \* copy[l]: the manifest lane l read
    puts,      \* puts[i]: times image i was stored (history)
    designed,  \* entities the designer tool gave a layer (history)
    uncovered, \* entities whose coverage was lost for a known reason (history)
    undone,    \* entities whose bespoke layer was lost for one (history)
    faults,    \* faults so far
    crashes,   \* crashes so far
    touches    \* changes by others so far

bucket == <<objects, manifest>>
history == <<puts, designed, uncovered, undone>>
bounds == <<faults, crashes, touches>>
vars == <<bucket, at, job, copy, history, bounds>>

Layers == [provider : Images \union {None}, btl : BOOLEAN]
Bare == [provider |-> None, btl |-> FALSE]
Manifests == [Entities -> Layers]
Fresh == [e \in Entities |-> Bare]

Covered(m, e) == m[e].provider # None

TypeOK ==
    /\ objects \subseteq Images /\ manifest \in Manifests
    /\ at \in [Lanes -> {"idle", "head", "get", "put", "read", "write"}]
    /\ job \in [Lanes -> Images \union {None}]
    /\ copy \in [Lanes -> Manifests]
    /\ puts \in [Images -> Nat]
    /\ designed \subseteq Entities
    /\ uncovered \subseteq Entities /\ undone \subseteq Entities
    /\ faults \in 0..MaxFaults /\ crashes \in 0..MaxCrashes /\ touches \in 0..MaxTouches

Init ==
    /\ objects = {} /\ manifest = Fresh
    /\ at = [l \in Lanes |-> "idle"]
    /\ job = [l \in Lanes |-> None]
    /\ copy = [l \in Lanes |-> Fresh]
    /\ puts = [i \in Images |-> 0]
    /\ designed = {} /\ uncovered = {} /\ undone = {}
    /\ faults = 0 /\ crashes = 0 /\ touches = 0

Goto(l, step) == at' = [at EXCEPT ![l] = step]
Done(l) ==
    /\ Goto(l, "idle")
    /\ job' = [job EXCEPT ![l] = None]
    /\ copy' = [copy EXCEPT ![l] = Fresh]
Entity(l) == EntityOf[job[l]]

Fault == faults < MaxFaults /\ faults' = faults + 1 /\ UNCHANGED <<crashes, touches>>

(* The next image of the payload whose entity resolves and whose URL has a *)
(* known extension; any other image is skipped and changes nothing.        *)
Start(l, i) ==
    /\ at[l] = "idle"
    /\ Goto(l, "head")
    /\ job' = [job EXCEPT ![l] = i]
    /\ UNCHANGED <<bucket, copy, history, bounds>>

(* HEAD finds the object: the image is done, the manifest untouched. *)
HeadPresent(l) ==
    /\ at[l] = "head" /\ job[l] \in objects
    /\ Done(l)
    /\ UNCHANGED <<bucket, history, bounds>>

(* Mutant: the object is fetched and stored whether or not it is there. *)
HeadIgnored(l) ==
    /\ at[l] = "head"
    /\ Goto(l, "get")
    /\ UNCHANGED <<bucket, job, copy, history, bounds>>

(* HEAD finds none. *)
HeadAbsent(l) ==
    /\ at[l] = "head" /\ job[l] \notin objects
    /\ Goto(l, "get")
    /\ UNCHANGED <<bucket, job, copy, history, bounds>>

(* The image is fetched. *)
Fetched(l) ==
    /\ at[l] = "get"
    /\ Goto(l, "put")
    /\ UNCHANGED <<bucket, job, copy, history, bounds>>

(* HEAD fails, or the image cannot be fetched in time: the lane gives up. *)
GiveUp(l) ==
    /\ at[l] \in {"head", "get"}
    /\ Done(l)
    /\ UNCHANGED <<bucket, history, bounds>>

Stored(i) ==
    /\ objects' = objects \union {i}
    /\ puts' = [puts EXCEPT ![i] = @ + 1]
    /\ UNCHANGED <<manifest, designed, undone>>

(* PUT stores the image. *)
Put(l) ==
    /\ at[l] = "put"
    /\ Stored(job[l])
    /\ Goto(l, "read")
    /\ UNCHANGED <<job, copy, uncovered, bounds>>

(* Mutant: the manifest is patched whatever the PUT did. *)
PutFailsUnnoticed(l) ==
    /\ at[l] = "put" /\ Fault
    /\ Goto(l, "read")
    /\ UNCHANGED <<bucket, job, copy, history>>

(* PUT fails: the image is given up. *)
PutFails(l) ==
    /\ at[l] = "put" /\ Fault
    /\ Done(l)
    /\ UNCHANGED <<bucket, history>>

(* PUT stores the image and is reported as failed. *)
PutFailsLate(l) ==
    /\ at[l] = "put" /\ Fault
    /\ Stored(job[l])
    /\ uncovered' = uncovered \union {Entity(l)}
    /\ Done(l)

(* patchManifest reads the manifest; nothing is written when it already    *)
(* names this image.                                                       *)
ReadManifest(l) ==
    /\ at[l] = "read"
    /\ \/ /\ manifest[Entity(l)].provider = job[l]
          /\ Done(l)
       \/ /\ manifest[Entity(l)].provider # job[l]
          /\ Goto(l, "write")
          /\ copy' = [copy EXCEPT ![l] = manifest]
          /\ UNCHANGED job
    /\ UNCHANGED <<bucket, history, bounds>>

(* Mutant: the entry is written without the layers it had. *)
PatchedBare(l) == [copy[l] EXCEPT ![Entity(l)] = [Bare EXCEPT !.provider = job[l]]]

(* Mutant: only the one entry is written. *)
PatchedAlone(l) == [Fresh EXCEPT ![Entity(l)] = [copy[l][Entity(l)] EXCEPT !.provider = job[l]]]

(* The manifest lane l writes: what it read, with this image's entry. *)
Patched(l) == [copy[l] EXCEPT ![Entity(l)].provider = job[l]]

(* A writer that last saw the manifest seen, and means to cover the        *)
(* entities in covers, cannot but lose the layers others have added since. *)
(* That is what a write may lose, whatever it writes.                      *)
Overtakes(seen, covers) ==
    /\ uncovered' = {e \in Entities \ covers :
           ~Covered(seen, e) /\ (e \in uncovered \/ Covered(manifest, e))}
    /\ undone' = {e \in Entities :
           ~seen[e].btl /\ (e \in undone \/ manifest[e].btl)}

(* The patched manifest is written over whatever is there by now. *)
WriteManifest(l) ==
    /\ at[l] = "write"
    /\ manifest' = Patched(l)
    /\ Overtakes(copy[l], {Entity(l)})
    /\ Done(l)
    /\ UNCHANGED <<objects, puts, designed, bounds>>

(* Reading or writing the manifest fails: logged, and the image is done.   *)
(* A write that happened and is reported as failed is a WriteManifest.     *)
PatchFails(l) ==
    /\ at[l] \in {"read", "write"} /\ Fault
    /\ uncovered' = IF Covered(manifest, Entity(l)) THEN uncovered
                    ELSE uncovered \union {Entity(l)}
    /\ Done(l)
    /\ UNCHANGED <<bucket, puts, designed, undone>>

(* The designer tool records a bespoke layer for e. *)
Design(e) ==
    /\ touches < MaxTouches /\ touches' = touches + 1
    /\ manifest' = [manifest EXCEPT ![e].btl = TRUE]
    /\ designed' = designed \union {e}
    /\ undone' = undone \ {e}
    /\ UNCHANGED <<objects, at, job, copy, puts, uncovered, faults, crashes>>

(* The manifest is lost or unreadable: parseManifest starts a fresh one. *)
Corrupt ==
    /\ touches < MaxTouches /\ touches' = touches + 1
    /\ manifest' = Fresh
    /\ Overtakes(Fresh, {})
    /\ UNCHANGED <<objects, at, job, copy, puts, designed, faults, crashes>>

(* The worker dies, some lanes between the PUT and the manifest. *)
Crash ==
    /\ crashes < MaxCrashes /\ crashes' = crashes + 1
    /\ at' = [l \in Lanes |-> "idle"]
    /\ job' = [l \in Lanes |-> None]
    /\ copy' = [l \in Lanes |-> Fresh]
    /\ uncovered' = uncovered \union
           {e \in Entities : /\ ~Covered(manifest, e)
                             /\ \E l \in Lanes : at[l] \in {"read", "write"} /\ Entity(l) = e}
    /\ UNCHANGED <<bucket, puts, designed, undone, faults, touches>>

Mirror(l) ==
    \/ HeadPresent(l) \/ HeadAbsent(l) \/ Fetched(l) \/ GiveUp(l)
    \/ Put(l) \/ PutFails(l) \/ PutFailsLate(l)
    \/ ReadManifest(l) \/ WriteManifest(l) \/ PatchFails(l)

Next ==
    \/ \E l \in Lanes, i \in Images : Start(l, i)
    \/ \E l \in Lanes : Mirror(l)
    \/ \E e \in Entities : Design(e)
    \/ Corrupt \/ Crash

Spec == Init /\ [][Next]_vars

(***************************************************************************)
(* Properties                                                              *)
(***************************************************************************)

(* "Patch the manifest LAST so a failed PUT never marks coverage": the     *)
(* manifest names no image the bucket does not hold, however lanes, stale  *)
(* manifests and failures interleave.                                      *)
CoverageBacked ==
    \A e \in Entities : Covered(manifest, e) => manifest[e].provider \in objects

(* An entity with an image in the bucket is in the manifest, or a lane is  *)
(* about to put it there, or its entry is missing for one of these         *)
(* reasons: a crash or a failure after the PUT, a write by a lane that     *)
(* read the manifest before the entry was added, or an unreadable one.  A  *)
(* lane never loses an entry it has read.                                  *)
CoverageExplained ==
    \A i \in objects :
        \/ Covered(manifest, EntityOf[i]) \/ EntityOf[i] \in uncovered
        \/ \E l \in Lanes : at[l] \in {"read", "write"} /\ Entity(l) = EntityOf[i]

(* "Preserve a bespoke btl layer if the designer tool already recorded     *)
(* one": only a lane that read the manifest before the layer was recorded, *)
(* or an unreadable manifest, takes it away.                               *)
BespokeKept ==
    \A e \in designed : manifest[e].btl \/ e \in undone

(* Store writes are HEAD-gated: an image is stored at most once per lane,  *)
(* however often payloads name it.                                         *)
PutsBounded ==
    \A i \in Images : puts[i] <= Cardinality(Lanes)

=============================================================================
