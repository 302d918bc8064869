-------------------------- MODULE AssetMirrorProofs --------------------------
(***************************************************************************)
(* The promises of the imagery mirror, for any lanes, images and bounds.   *)
(* A manifest a lane has read names only stored images, and stays so, for  *)
(* the bucket only grows: hence whatever stale manifest is written is      *)
(* backed.  And what was stored of an image, with the lanes that found it  *)
(* absent and may store it, never exceeds the lanes there are, for no lane *)
(* joins them once it is stored.                                           *)
(***************************************************************************)
EXTENDS AssetMirror, FiniteSetTheorems, TLAPS

(* A manifest that names stored images only. *)
Backed(m) == \A e \in Entities : Covered(m, e) => m[e].provider \in objects

(* The lanes that found image i absent and have not stored it. *)
Storing(i) == {l \in Lanes : at[l] \in {"get", "put"} /\ job[l] = i}

LanesHaveJobs == \A l \in Lanes : at[l] # "idle" => job[l] \in Images

CopiesBacked ==
    /\ \A l \in Lanes : Backed(copy[l])
    /\ \A l \in Lanes : at[l] \in {"read", "write"} => job[l] \in objects

PutsCounted ==
    \A i \in Images :
        /\ puts[i] + Cardinality(Storing(i)) <= Cardinality(Lanes)
        /\ i \notin objects => puts[i] = 0

MirrorTypes == TypeOK /\ LanesHaveJobs
IInv ==
    /\ MirrorTypes /\ CoverageBacked /\ CopiesBacked /\ PutsCounted
    /\ CoverageExplained /\ BespokeKept

(* What lane l writes is a manifest, if it read one. *)
LEMMA PatchedType ==
    ASSUME MirrorTypes, NEW l \in Lanes, at[l] = "write"
    PROVE  /\ Patched(l) \in Manifests
           /\ \A e \in Entities : e # Entity(l) => Patched(l)[e] = copy[l][e]
           /\ Patched(l)[Entity(l)].provider = job[l]
           /\ \A e \in Entities : Patched(l)[e].btl = copy[l][e].btl
           /\ job[l] \in Images /\ Entity(l) \in Entities
<1>1. copy[l] \in Manifests /\ job[l] \in Images
  BY DEF MirrorTypes, TypeOK, LanesHaveJobs
<1>2. Entity(l) \in Entities
  BY <1>1 DEF Entity, Entities
<1>3. Patched(l) = [copy[l] EXCEPT ![Entity(l)] = [copy[l][Entity(l)] EXCEPT !.provider = job[l]]]
  BY DEF Patched
<1> QED
  BY <1>1, <1>2, <1>3 DEF Manifests, Layers

(* The fresh manifest is one. *)
LEMMA FreshType == Fresh \in Manifests /\ \A e \in Entities : ~Covered(Fresh, e) /\ ~Fresh[e].btl
  BY DEF Fresh, Bare, Manifests, Layers, Covered

(* Every variable of the mirror keeps its type. *)
LEMMA TypeInvariant == MirrorTypes /\ [Next]_vars => MirrorTypes'
<1> SUFFICES ASSUME MirrorTypes, [Next]_vars PROVE MirrorTypes'
    OBVIOUS
<1> USE BoundsAssumption, FreshType DEF MirrorTypes, TypeOK, LanesHaveJobs
<1>1. ASSUME NEW l \in Lanes, NEW i \in Images, Start(l, i) PROVE MirrorTypes'
  BY <1>1 DEF Start, Goto, bucket, history, bounds
<1>2. ASSUME NEW l \in Lanes, Mirror(l) PROVE MirrorTypes'
  <2>1. job[l] \in Images
    BY <1>2 DEF Mirror, HeadPresent, HeadAbsent, Fetched, GiveUp, Put, PutFails,
         PutFailsLate, ReadManifest, WriteManifest, PatchFails
  <2>2. Entity(l) \in Entities
    BY <2>1 DEF Entity, Entities
  <2>3. CASE HeadPresent(l)
    BY <2>3 DEF HeadPresent, Done, Goto, bucket, history, bounds
  <2>4. CASE HeadAbsent(l)
    BY <2>1, <2>4 DEF HeadAbsent, Goto, bucket, history, bounds
  <2>5. CASE Fetched(l)
    BY <2>1, <2>5 DEF Fetched, Goto, bucket, history, bounds
  <2>6. CASE GiveUp(l)
    BY <2>6 DEF GiveUp, Done, Goto, bucket, history, bounds
  <2>7. CASE Put(l)
    BY <2>1, <2>7 DEF Put, Stored, Goto, bounds
  <2>8. CASE PutFails(l)
    BY <2>8 DEF PutFails, Fault, Done, Goto, bucket, history
  <2>9. CASE PutFailsLate(l)
    BY <2>1, <2>2, <2>9 DEF PutFailsLate, Fault, Stored, Done, Goto
  <2>10. CASE ReadManifest(l)
    <3>1. CASE Done(l)
      BY <2>10, <3>1 DEF ReadManifest, Done, Goto, bucket, history, bounds
    <3>2. CASE ~Done(l)
      BY <2>1, <2>10, <3>2 DEF ReadManifest, Goto, bucket, history, bounds
    <3> QED
      BY <3>1, <3>2
  <2>11. CASE WriteManifest(l)
    BY <2>11, PatchedType DEF WriteManifest, Overtakes, Done, Goto, bounds
  <2>12. CASE PatchFails(l)
    BY <2>2, <2>12 DEF PatchFails, Fault, Done, Goto, bucket
  <2> QED
    BY <1>2, <2>3, <2>4, <2>5, <2>6, <2>7, <2>8, <2>9, <2>10, <2>11, <2>12 DEF Mirror
<1>3. ASSUME NEW e \in Entities, Design(e) PROVE MirrorTypes'
  <2>1. manifest' \in Manifests
    BY <1>3 DEF Design, Manifests, Layers
  <2> QED
    BY <1>3, <2>1 DEF Design
<1>4. CASE Corrupt
  BY <1>4 DEF Corrupt, Overtakes
<1>5. CASE Crash
  BY <1>5 DEF Crash, bucket
<1>6. CASE UNCHANGED vars
  BY <1>6 DEF vars, bucket, history, bounds
<1> QED
  BY <1>1, <1>2, <1>3, <1>4, <1>5, <1>6 DEF Next

(* The bucket only grows: what is backed stays so. *)
LEMMA BucketGrows ==
    ASSUME MirrorTypes, [Next]_vars PROVE objects \subseteq objects'
BY DEF Next, vars, Start, Mirror, HeadPresent, HeadAbsent, Fetched, GiveUp, Put, PutFails,
     PutFailsLate, Stored, ReadManifest, WriteManifest, PatchFails, Design, Corrupt, Crash,
     bucket

(* What a lane writes or reads is backed, and so is what is written. *)
LEMMA BackedKept ==
    MirrorTypes /\ CoverageBacked /\ CopiesBacked /\ [Next]_vars
        => (CoverageBacked /\ CopiesBacked)'
<1> SUFFICES ASSUME MirrorTypes, CoverageBacked, CopiesBacked, [Next]_vars
             PROVE  (CoverageBacked /\ CopiesBacked)'
    OBVIOUS
<1>1. objects \subseteq objects' /\ MirrorTypes'
  BY BucketGrows, TypeInvariant
<1>2. Backed(manifest) /\ \A l \in Lanes : Backed(copy[l])
  BY DEF CoverageBacked, CopiesBacked, Backed
<1>3. /\ at \in [Lanes -> {"idle", "head", "get", "put", "read", "write"}]
      /\ job \in [Lanes -> Images \union {None}]
      /\ copy \in [Lanes -> Manifests]
  BY DEF MirrorTypes, TypeOK
<1>4. \A m : Backed(m) => \A e \in Entities : Covered(m, e) => m[e].provider \in objects'
  BY <1>1 DEF Backed
<1>5. Backed(Fresh)
  BY FreshType DEF Backed
<1>6. ASSUME \/ manifest' = manifest
             \/ \E e \in Entities : manifest' = [manifest EXCEPT ![e].btl = TRUE]
             \/ manifest' = Fresh
             \/ \E l \in Lanes : at[l] = "write" /\ manifest' = Patched(l)
      PROVE  CoverageBacked'
  <2>1. CASE manifest' = manifest
    BY <1>2, <1>4, <2>1 DEF CoverageBacked, Covered
  <2>2. ASSUME NEW e \in Entities, manifest' = [manifest EXCEPT ![e].btl = TRUE]
        PROVE  CoverageBacked'
    <3>1. \A d \in Entities : manifest'[d].provider = manifest[d].provider
      <4>1. manifest \in Manifests
        BY DEF MirrorTypes, TypeOK
      <4> QED
        BY <2>2, <4>1 DEF Manifests, Layers
    <3> QED
      BY <1>2, <1>4, <3>1 DEF CoverageBacked, Covered
  <2>3. CASE manifest' = Fresh
    BY <2>3, FreshType DEF CoverageBacked, Covered
  <2>4. ASSUME NEW l \in Lanes, at[l] = "write", manifest' = Patched(l)
        PROVE  CoverageBacked'
    <3>1. job[l] \in objects'
      BY <1>1, <2>4 DEF CopiesBacked
    <3>2. \A e \in Entities : e # Entity(l) => manifest'[e] = copy[l][e]
      BY <2>4, PatchedType
    <3>3. manifest'[Entity(l)].provider = job[l]
      BY <2>4, PatchedType
    <3>4. \A e \in Entities : Covered(copy[l], e) => copy[l][e].provider \in objects'
      BY <1>2, <1>4
    <3> QED
      BY <3>1, <3>2, <3>3, <3>4 DEF CoverageBacked, Covered
  <2> QED
    BY <1>6, <2>1, <2>2, <2>3, <2>4
<1>7. CoverageBacked'
  <2>1. \/ manifest' = manifest
        \/ \E e \in Entities : manifest' = [manifest EXCEPT ![e].btl = TRUE]
        \/ manifest' = Fresh
        \/ \E l \in Lanes : at[l] = "write" /\ manifest' = Patched(l)
    BY DEF Next, vars, Start, Mirror, HeadPresent, HeadAbsent, Fetched, GiveUp, Put,
       PutFails, PutFailsLate, Stored, ReadManifest, WriteManifest, PatchFails,
       Design, Corrupt, Crash, bucket
  <2> QED
    BY <1>6, <2>1
<1>8. ASSUME NEW k \in Lanes
      PROVE  /\ \A e \in Entities : Covered(copy'[k], e) => copy'[k][e].provider \in objects'
             /\ at'[k] \in {"read", "write"} => job'[k] \in objects'
  <2>1. \/ copy'[k] = copy[k] \/ copy'[k] = Fresh \/ copy'[k] = manifest
    BY <1>3 DEF Next, vars, Start, Mirror, HeadPresent, HeadAbsent, Fetched, GiveUp, Put,
       PutFails, PutFailsLate, ReadManifest, WriteManifest, PatchFails, Done,
       Design, Corrupt, Crash
  <2>2. \A e \in Entities : Covered(copy'[k], e) => copy'[k][e].provider \in objects'
    BY <1>2, <1>4, <1>5, <2>1
  <2>3. \/ at'[k] \notin {"read", "write"}
        \/ at[k] \in {"read", "write"} /\ job'[k] = job[k]
        \/ job'[k] \in objects'
    BY <1>3 DEF Next, vars, Start, Mirror, HeadPresent, HeadAbsent, Fetched, GiveUp, Put,
       PutFails, PutFailsLate, Stored, ReadManifest, WriteManifest, PatchFails, Done, Goto,
       Design, Corrupt, Crash
  <2>4. at[k] \in {"read", "write"} => job[k] \in objects'
    BY <1>1 DEF CopiesBacked
  <2> QED
    BY <2>2, <2>3, <2>4
<1>9. CopiesBacked'
  BY <1>8 DEF CopiesBacked, Backed, Covered
<1> QED
  BY <1>7, <1>9

(* The lanes about to store an image are among the lanes. *)
LEMMA StoringFinite ==
    \A i \in Images : /\ IsFiniteSet(Storing(i))
                      /\ Cardinality(Storing(i)) \in Nat
                      /\ Cardinality(Storing(i)) <= Cardinality(Lanes)
                      /\ Cardinality(Lanes) \in Nat
<1> TAKE i \in Images
<1>1. Storing(i) \in SUBSET Lanes
  BY DEF Storing
<1> QED
  BY <1>1, LanesAssumption, FS_Subset, FS_CardinalityType

(* A lane joins those about to store an image only while it is absent, and *)
(* leaves them when it stores it.                                          *)
LEMMA PutsCountKept == MirrorTypes /\ PutsCounted /\ [Next]_vars => PutsCounted'
<1> SUFFICES ASSUME MirrorTypes, PutsCounted, [Next]_vars, NEW i \in Images
             PROVE  /\ puts'[i] + Cardinality(Storing(i)') <= Cardinality(Lanes)
                    /\ i \notin objects' => puts'[i] = 0
    BY DEF PutsCounted
<1>1. /\ puts[i] + Cardinality(Storing(i)) <= Cardinality(Lanes)
      /\ i \notin objects => puts[i] = 0
  BY DEF PutsCounted
<1>2. /\ puts \in [Images -> Nat]
      /\ at \in [Lanes -> {"idle", "head", "get", "put", "read", "write"}]
      /\ job \in [Lanes -> Images \union {None}]
  BY DEF MirrorTypes, TypeOK
<1>3. objects \subseteq objects'
  BY BucketGrows
<1>4. IsFiniteSet(Storing(i)) /\ Cardinality(Storing(i)) \in Nat /\ Cardinality(Lanes) \in Nat
  BY StoringFinite
<1>5. ASSUME puts'[i] = puts[i], Storing(i)' \subseteq Storing(i)
      PROVE  /\ puts'[i] + Cardinality(Storing(i)') <= Cardinality(Lanes)
             /\ i \notin objects' => puts'[i] = 0
  <2>1. Cardinality(Storing(i)') <= Cardinality(Storing(i)) /\ Cardinality(Storing(i)') \in Nat
    BY <1>4, <1>5, FS_Subset, FS_CardinalityType
  <2> QED
    BY <1>1, <1>2, <1>3, <1>4, <1>5, <2>1
<1>6. ASSUME NEW l \in Lanes, HeadAbsent(l)
      PROVE  /\ puts'[i] + Cardinality(Storing(i)') <= Cardinality(Lanes)
             /\ i \notin objects' => puts'[i] = 0
  <2>1. UNCHANGED <<puts, objects, job>> /\ at' = [at EXCEPT ![l] = "get"]
    BY <1>6 DEF HeadAbsent, Goto, bucket, history
  <2>2. CASE job[l] = i
    <3>1. puts'[i] = 0
      BY <1>1, <1>6, <2>1, <2>2 DEF HeadAbsent
    <3>2. Storing(i)' \in SUBSET Lanes
      BY DEF Storing
    <3>3. Cardinality(Storing(i)') \in Nat /\ Cardinality(Storing(i)') <= Cardinality(Lanes)
      BY <3>2, LanesAssumption, FS_Subset, FS_CardinalityType
    <3> QED
      BY <3>1, <3>3
  <2>3. CASE job[l] # i
    <3>1. Storing(i)' \subseteq Storing(i)
      BY <1>2, <2>1, <2>3 DEF Storing
    <3> QED
      BY <1>5, <2>1, <3>1
  <2> QED
    BY <2>2, <2>3
<1>7. ASSUME NEW l \in Lanes, at[l] = "put", Stored(job[l]),
             \E step \in {"idle", "read"} : Goto(l, step),
             job' = job \/ job' = [job EXCEPT ![l] = None]
      PROVE  /\ puts'[i] + Cardinality(Storing(i)') <= Cardinality(Lanes)
             /\ i \notin objects' => puts'[i] = 0
  <2>1. Storing(i)' \subseteq Storing(i) /\ l \notin Storing(i)'
    BY <1>2, <1>7, NoneIsNoImage DEF Storing, Goto
  <2>2. CASE job[l] = i
    <3>1. puts'[i] = puts[i] + 1 /\ i \in objects' /\ l \in Storing(i)
      BY <1>2, <1>7, <2>2 DEF Stored, Storing
    <3>2. IsFiniteSet(Storing(i) \ {l}) /\ Cardinality(Storing(i) \ {l}) = Cardinality(Storing(i)) - 1
      BY <1>4, <3>1, FS_RemoveElement
    <3>3. Storing(i)' \in SUBSET (Storing(i) \ {l})
      BY <2>1
    <3>4. /\ Cardinality(Storing(i)') <= Cardinality(Storing(i)) - 1
          /\ Cardinality(Storing(i)') \in Nat
      BY <3>2, <3>3, FS_Subset, FS_CardinalityType
    <3> QED
      BY <1>1, <1>2, <1>4, <3>1, <3>4
  <2>3. CASE job[l] # i
    <3>1. puts'[i] = puts[i]
      BY <1>2, <1>7, <2>3 DEF Stored
    <3> QED
      BY <1>5, <2>1, <3>1
  <2> QED
    BY <2>2, <2>3
<1>8. CASE \E l \in Lanes : HeadAbsent(l)
  BY <1>6, <1>8
<1>9. CASE \E l \in Lanes : Put(l) \/ PutFailsLate(l)
  BY <1>7, <1>9 DEF Put, PutFailsLate, Done
<1>10. CASE ~(\E l \in Lanes : HeadAbsent(l) \/ Put(l) \/ PutFailsLate(l))
  <2>1. puts'[i] = puts[i]
    BY <1>10 DEF Next, vars, Start, Mirror, HeadPresent, Fetched, GiveUp, PutFails,
       ReadManifest, WriteManifest, PatchFails, Design, Corrupt, Crash, history
  <2>2. \A k \in Lanes : at'[k] \in {"get", "put"} => at[k] \in {"get", "put"} /\ job'[k] = job[k]
    BY <1>2, <1>10 DEF Next, vars, Start, Mirror, HeadPresent, Fetched, GiveUp, PutFails,
       ReadManifest, WriteManifest, PatchFails, Done, Goto, Design, Corrupt, Crash
  <2>3. Storing(i)' \subseteq Storing(i)
    BY <2>2 DEF Storing
  <2> QED
    BY <1>5, <2>1, <2>3
<1> QED
  BY <1>8, <1>9, <1>10

(* Lane k carries the entity of i to the manifest. *)
Carries(k, e) == at[k] \in {"read", "write"} /\ Entity(k) = e

(* Every way an entry goes missing is recorded. *)
LEMMA CoverageKept ==
    MirrorTypes /\ CoverageExplained /\ [Next]_vars => CoverageExplained'
<1> SUFFICES ASSUME MirrorTypes, CoverageExplained, [Next]_vars, NEW i \in Images, i \in objects'
             PROVE  \/ Covered(manifest', EntityOf[i]) \/ EntityOf[i] \in uncovered'
                    \/ \E l \in Lanes : at'[l] \in {"read", "write"}
                                        /\ EntityOf[job'[l]] = EntityOf[i]
  <2>1. MirrorTypes' => objects' \subseteq Images
    BY DEF MirrorTypes, TypeOK
  <2> QED
    BY <2>1, TypeInvariant DEF CoverageExplained, Covered, Entity
<1> DEFINE e == EntityOf[i]
<1> DEFINE Goal == \/ Covered(manifest', e) \/ e \in uncovered'
                   \/ \E l \in Lanes : at'[l] \in {"read", "write"} /\ EntityOf[job'[l]] = e
<1>1. e \in Entities
  BY DEF Entities
<1>2. i \in objects => \/ Covered(manifest, e) \/ e \in uncovered
                       \/ \E l \in Lanes : Carries(l, e)
  BY DEF CoverageExplained, Carries
<1>3. /\ at \in [Lanes -> {"idle", "head", "get", "put", "read", "write"}]
      /\ job \in [Lanes -> Images \union {None}] /\ manifest \in Manifests
      /\ uncovered \subseteq Entities
  BY DEF MirrorTypes, TypeOK
<1>4. ASSUME UNCHANGED <<objects, manifest, uncovered>>,
             \A k \in Lanes : at[k] \in {"read", "write"} =>
                                 at'[k] \in {"read", "write"} /\ job'[k] = job[k]
      PROVE  Goal
  BY <1>2, <1>4 DEF Carries, Entity, Covered
<1>5. ASSUME NEW l \in Lanes, NEW j \in Images, Start(l, j) PROVE Goal
  <2>1. \A k \in Lanes : at[k] \in {"read", "write"} =>
                            at'[k] \in {"read", "write"} /\ job'[k] = job[k]
    BY <1>3, <1>5 DEF Start, Goto
  <2> QED
    BY <1>4, <1>5, <2>1 DEF Start, bucket, history
<1>6. ASSUME NEW l \in Lanes, Mirror(l) PROVE Goal
  <2>1. job[l] \in Images
    BY <1>6 DEF MirrorTypes, LanesHaveJobs, Mirror, HeadPresent, HeadAbsent, Fetched, GiveUp,
         Put, PutFails, PutFailsLate, ReadManifest, WriteManifest, PatchFails
  <2>2. \A k \in Lanes : k # l => at'[k] = at[k] /\ job'[k] = job[k]
    BY <1>3, <1>6 DEF Mirror, HeadPresent, HeadAbsent, Fetched, GiveUp,
         Put, PutFails, PutFailsLate, ReadManifest, WriteManifest, PatchFails, Done, Goto
  <2>3. CASE HeadPresent(l) \/ HeadAbsent(l) \/ Fetched(l) \/ GiveUp(l) \/ PutFails(l)
    <3>1. at[l] \notin {"read", "write"}
      BY <2>3 DEF HeadPresent, HeadAbsent, Fetched, GiveUp, PutFails
    <3>2. UNCHANGED <<objects, manifest, uncovered>>
      BY <2>3 DEF HeadPresent, HeadAbsent, Fetched, GiveUp, PutFails, bucket, history
    <3> QED
      BY <1>4, <2>2, <3>1, <3>2
  <2>4. CASE Put(l)
    <3>1. at' = [at EXCEPT ![l] = "read"] /\ job' = job /\ UNCHANGED <<manifest, uncovered>>
          /\ objects' = objects \union {job[l]} /\ at[l] = "put"
      BY <2>4 DEF Put, Stored, Goto
    <3>2. CASE i = job[l]
      BY <1>3, <3>1, <3>2
    <3>3. CASE i # job[l]
      BY <1>2, <1>3, <3>1, <3>3 DEF Carries, Entity, Covered
    <3> QED
      BY <3>2, <3>3
  <2>5. CASE PutFailsLate(l)
    <3>1. /\ uncovered' = uncovered \union {EntityOf[job[l]]} /\ UNCHANGED manifest
          /\ objects' = objects \union {job[l]} /\ at[l] = "put"
      BY <2>5 DEF PutFailsLate, Stored, Entity
    <3> QED
      BY <1>2, <2>2, <3>1 DEF Carries, Entity, Covered
  <2>6. CASE ReadManifest(l)
    <3>1. UNCHANGED <<objects, manifest, uncovered>> /\ at[l] = "read"
      BY <2>6 DEF ReadManifest, bucket, history
    <3>2. CASE manifest[Entity(l)].provider = job[l]
      <4>1. Covered(manifest, Entity(l))
        BY <2>1, <3>2, NoneIsNoImage DEF Covered
      <4> QED
        BY <1>2, <2>2, <3>1, <4>1 DEF Carries, Entity, Covered
    <3>3. CASE manifest[Entity(l)].provider # job[l]
      <4>1. at' = [at EXCEPT ![l] = "write"] /\ job' = job
        BY <2>6, <3>3 DEF ReadManifest, Goto
      <4> QED
        BY <1>3, <1>4, <3>1, <4>1
    <3> QED
      BY <3>2, <3>3
  <2>7. CASE WriteManifest(l)
    <3>1. /\ manifest' = Patched(l) /\ UNCHANGED objects /\ at[l] = "write"
          /\ \A d \in Entities : d # Entity(l) /\ ~Covered(copy[l], d)
                                  /\ (d \in uncovered \/ Covered(manifest, d))
                                  => d \in uncovered'
      BY <2>7 DEF WriteManifest, Overtakes
    <3>2. CASE Entity(l) = e
      <4>1. Patched(l)[e].provider = job[l]
        BY <3>1, <3>2, PatchedType
      <4> QED
        BY <2>1, <3>1, <4>1, NoneIsNoImage DEF Covered
    <3>3. CASE Entity(l) # e
      <4>1. i \in objects
        BY <3>1
      <4>2. CASE Covered(copy[l], e)
        <5>1. manifest'[e] = copy[l][e]
          BY <1>1, <3>1, <3>3, PatchedType
        <5> QED
          BY <4>2, <5>1 DEF Covered
      <4>3. CASE ~Covered(copy[l], e) /\ (e \in uncovered \/ Covered(manifest, e))
        BY <1>1, <3>1, <3>3, <4>3
      <4>4. ASSUME NEW k \in Lanes, Carries(k, e) PROVE Goal
        <5>1. k # l /\ at'[k] = at[k] /\ job'[k] = job[k]
          BY <2>2, <3>3, <4>4 DEF Carries
        <5> QED
          BY <4>4, <5>1 DEF Carries, Entity
      <4> QED
        BY <1>2, <4>1, <4>2, <4>3, <4>4
    <3> QED
      BY <3>2, <3>3
  <2>8. CASE PatchFails(l)
    <3>1. /\ UNCHANGED <<objects, manifest>>
          /\ uncovered' = IF Covered(manifest, Entity(l)) THEN uncovered
                          ELSE uncovered \union {Entity(l)}
      BY <2>8 DEF PatchFails, bucket
    <3> QED
      BY <1>2, <2>2, <3>1 DEF Carries, Entity, Covered
  <2> QED
    BY <1>6, <2>3, <2>4, <2>5, <2>6, <2>7, <2>8 DEF Mirror
<1>7. ASSUME NEW d \in Entities, Design(d) PROVE Goal
  <2>1. manifest'[e].provider = manifest[e].provider
    BY <1>1, <1>3, <1>7 DEF Design, Manifests, Layers
  <2> QED
    BY <1>2, <1>7, <2>1 DEF Design, Carries, Entity, Covered
<1>8. CASE Corrupt
  <2>1. /\ manifest' = Fresh /\ UNCHANGED <<objects, at, job>>
        /\ uncovered' = {d \in Entities \ {} : ~Covered(Fresh, d)
                                          /\ (d \in uncovered \/ Covered(manifest, d))}
    BY <1>8 DEF Corrupt, Overtakes
  <2> QED
    BY <1>1, <1>2, <2>1, FreshType DEF Carries, Entity
<1>9. CASE Crash
  <2>1. /\ UNCHANGED <<objects, manifest>>
        /\ uncovered' = uncovered \union
              {d \in Entities : /\ ~Covered(manifest, d)
                                /\ \E l \in Lanes : at[l] \in {"read", "write"} /\ Entity(l) = d}
    BY <1>9 DEF Crash, bucket
  <2> QED
    BY <1>1, <1>2, <2>1 DEF Carries, Covered
<1>10. CASE UNCHANGED vars
  BY <1>4, <1>10 DEF vars, bucket, history
<1> QED
  BY <1>5, <1>6, <1>7, <1>8, <1>9, <1>10 DEF Next

(* A lane that read the designer's layer writes it back. *)
LEMMA BespokeStays == MirrorTypes /\ BespokeKept /\ [Next]_vars => BespokeKept'
<1> SUFFICES ASSUME MirrorTypes, BespokeKept, [Next]_vars, NEW e \in Entities, e \in designed'
             PROVE  manifest'[e].btl \/ e \in undone'
  <2>1. MirrorTypes' => designed' \subseteq Entities
    BY DEF MirrorTypes, TypeOK
  <2> QED
    BY <2>1, TypeInvariant DEF BespokeKept
<1>1. e \in designed => manifest[e].btl \/ e \in undone
  BY DEF BespokeKept
<1>2. ASSUME UNCHANGED <<manifest, designed, undone>> PROVE manifest'[e].btl \/ e \in undone'
  BY <1>1, <1>2
<1>0. e \in Entities
  BY TypeInvariant DEF MirrorTypes, TypeOK
<1>3. ASSUME NEW seen, Overtakes(seen, {}) \/ \E x : Overtakes(seen, {x}),
             manifest'[e].btl = seen[e].btl, UNCHANGED designed
      PROVE  manifest'[e].btl \/ e \in undone'
  BY <1>0, <1>1, <1>3 DEF Overtakes
<1>4. ASSUME NEW d \in Entities, Design(d) PROVE manifest'[e].btl \/ e \in undone'
  <2>1. manifest \in Manifests
    BY DEF MirrorTypes, TypeOK
  <2> QED
    BY <1>1, <1>4, <2>1 DEF Design, Manifests, Layers
<1>5. ASSUME NEW l \in Lanes, WriteManifest(l) PROVE manifest'[e].btl \/ e \in undone'
  <2>1. manifest'[e].btl = copy[l][e].btl
    BY <1>0, <1>5, PatchedType DEF WriteManifest
  <2> QED
    BY <1>3, <1>5, <2>1 DEF WriteManifest
<1>6. CASE Corrupt
  BY <1>3, <1>6 DEF Corrupt
<1>7. CASE ~(\E l \in Lanes : WriteManifest(l)) /\ ~Corrupt /\ ~(\E d \in Entities : Design(d))
  <2>1. UNCHANGED <<manifest, designed, undone>>
    BY <1>7 DEF Next, vars, Start, Mirror, HeadPresent, HeadAbsent, Fetched, GiveUp, Put,
       PutFails, PutFailsLate, Stored, ReadManifest, PatchFails, Crash, bucket, history
  <2> QED
    BY <1>2, <2>1
<1> QED
  BY <1>4, <1>5, <1>6, <1>7

(* The empty bucket and the fresh manifest satisfy the invariant. *)
LEMMA InitialInvariant == Init => IInv
<1> SUFFICES ASSUME Init PROVE IInv
    OBVIOUS
<1>1. MirrorTypes
  BY BoundsAssumption, FreshType DEF Init, MirrorTypes, TypeOK, LanesHaveJobs
<1>2. CoverageBacked /\ CopiesBacked /\ CoverageExplained /\ BespokeKept
  BY FreshType DEF Init, CoverageBacked, CopiesBacked, Backed, CoverageExplained, BespokeKept
<1>3. PutsCounted
  BY StoringFinite DEF Init, PutsCounted
<1> QED
  BY <1>1, <1>2, <1>3 DEF IInv

(* The invariant is inductive. *)
THEOREM Invariance == Spec => []IInv
<1>1. IInv /\ [Next]_vars => IInv'
  BY TypeInvariant, BackedKept, PutsCountKept, CoverageKept, BespokeStays DEF IInv
<1> QED
  BY InitialInvariant, <1>1, PTL DEF Spec

(* The manifest never names an image the bucket does not hold. *)
THEOREM ManifestBacked == Spec => []CoverageBacked
<1>1. IInv => CoverageBacked
  BY DEF IInv
<1> QED
  BY Invariance, <1>1, PTL

(* An entity with a stored image is in the manifest, on its way there, or  *)
(* was lost in a way that is recorded.                                     *)
THEOREM GapsExplained == Spec => []CoverageExplained
<1>1. IInv => CoverageExplained
  BY DEF IInv
<1> QED
  BY Invariance, <1>1, PTL

(* A bespoke layer is lost only to a stale write or an unreadable manifest. *)
THEOREM BespokeSurvives == Spec => []BespokeKept
<1>1. IInv => BespokeKept
  BY DEF IInv
<1> QED
  BY Invariance, <1>1, PTL

(* However often payloads name an image, it is stored at most once per     *)
(* lane.                                                                   *)
THEOREM PutsAreBounded == Spec => []PutsBounded
<1>1. IInv => PutsBounded
  <2> SUFFICES ASSUME IInv, NEW i \in Images PROVE puts[i] <= Cardinality(Lanes)
      BY DEF PutsBounded
  <2>1. puts[i] + Cardinality(Storing(i)) <= Cardinality(Lanes) /\ puts[i] \in Nat
    BY DEF IInv, PutsCounted, MirrorTypes, TypeOK
  <2> QED
    BY <2>1, StoringFinite
<1> QED
  BY Invariance, <1>1, PTL

(* Every variable of the mirror keeps its type. *)
THEOREM TypeCorrect == Spec => []TypeOK
<1>1. IInv => TypeOK
  BY DEF IInv, MirrorTypes
<1> QED
  BY Invariance, <1>1, PTL
=============================================================================
