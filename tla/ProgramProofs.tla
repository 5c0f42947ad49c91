---------------------------- MODULE ProgramProofs ----------------------------
(***************************************************************************)
(* Proofs about the programs of the assignments, for any numbers of        *)
(* threads, files and bytes.  In the two simulations of the concurrency    *)
(* assignment no vaccine of a batch is given twice, and none is lost       *)
(* unless a company has more batches out than zones_under has cells; and   *)
(* no two artists are given the same stage.  The file that is written      *)
(* backwards in blocks is the reverse of the other one, and of two files   *)
(* that are both open the comparison says so.  A file that is sent in      *)
(* chunks arrives as it is.                                                *)
(***************************************************************************)
EXTENDS Vaccination, Musical, Reversal, FileTransfer, NatFacts, FiniteSetTheorems

-----------------------------------------------------------------------------
(* Vaccination. *)

VaccTypeOK ==
  /\ szone \in [Students -> Zones]
  /\ slots \in [Zones -> Nat] /\ capacity \in [Zones -> Nat]
  /\ owed \in [Zones -> Int] /\ missed \in [Zones -> BOOLEAN]
  /\ zpc \in [Zones -> {"seek", "deliver", "refill", "serve"}]
  /\ zcomp \in [Zones -> Comps]
  /\ no_per_batch \in [Comps -> Nat] /\ no_of_batches \in [Comps -> Nat]
  /\ zones_under \in [Comps -> [Under -> Zones \cup {None}]]
  /\ cpc \in [Comps -> {"make", "sell", "check"}]

\* A zone opens slots only when all of the last round are taken, and asks for a
\* batch when the last one is used up.
ClosedIsEmpty ==
  \A z \in Zones :
    /\ zpc[z] # "serve" => slots[z] = 0
    /\ zpc[z] \in {"seek", "deliver"} => capacity[z] = 0 \/ missed[z]

\* A company has a mutex.
OneDelivers ==
  \A y, z \in Zones :
    zpc[y] = "deliver" /\ zpc[z] = "deliver" /\ zcomp[y] = zcomp[z] => y = z

Occupied(c) == {i \in Under : zones_under[c][i] # None}
Delivering(c) == IF CompMutexFree(c) THEN 0 ELSE 1

\* The cells of zones_under that are occupied, or will be by the batches that are
\* left and the delivery under way.  After the clearing there may be one such delivery.
Room(c) ==
  /\ cpc[c] # "sell" => no_of_batches[c] = 0
  /\ cpc[c] = "make" => Cardinality(Occupied(c)) + Delivering(c) <= 1
  /\ UNDER \in BatchCounts
     \/ Cardinality(Occupied(c)) + Delivering(c) + no_of_batches[c] <= UNDER

VaccInv ==
  VaccTypeOK /\ ClosedIsEmpty /\ DosesAddUp /\ OneDelivers /\ \A c \in Comps : Room(c)

LEMMA UnderFinite == IsFiniteSet(Under) /\ Cardinality(Under) = UNDER
<1>1. UNDER \in Nat \ {0} /\ Under = 0 .. UNDER - 1
  BY VaccinationAssumption, Zenon DEF Under
<1>2. 0 \in Int /\ UNDER - 1 \in Int /\ 0 <= UNDER - 1 /\ (UNDER - 1) - 0 + 1 = UNDER
  BY <1>1
<1>3. IsFiniteSet(0 .. UNDER - 1) /\ Cardinality(0 .. UNDER - 1) = UNDER
  BY <1>2, FS_Interval
<1>. QED
  BY <1>1, <1>3, Zenon

LEMMA CellSets ==
  ASSUME NEW S, S \subseteq Under
  PROVE  IsFiniteSet(S) /\ Cardinality(S) \in Nat /\ Cardinality(S) <= UNDER
<1>. QED
  BY UnderFinite, FS_Subset, FS_CardinalityType, Zenon

LEMMA Loads ==
  ASSUME NEW c
  PROVE  /\ Occupied(c) \subseteq Under /\ Cardinality(Occupied(c)) \in Nat
         /\ Cardinality(Occupied(c)) <= UNDER
         /\ Delivering(c) \in {0, 1}
<1>1. Occupied(c) \subseteq Under
  BY Zenon DEF Occupied
<1>. QED
  BY <1>1, CellSets, Zenon DEF Delivering

LEMMA VaccInitInv ==
  ASSUME Init
  PROVE  VaccInv
<1>1. 0 \in Zones /\ 0 \in Comps
  BY VaccinationAssumption DEF Zones, Comps
<1>2. VaccTypeOK
  <2>1. zones_under \in [Comps -> [Under -> Zones \cup {None}]]
    BY Zenon DEF Init
  <2>. QED
    BY <1>1, <2>1 DEF Init, VaccTypeOK
<1>3. ClosedIsEmpty /\ DosesAddUp
  BY DEF Init, ClosedIsEmpty, DosesAddUp
<1>4. OneDelivers
  BY Zenon DEF Init, OneDelivers
<1>5. ASSUME NEW c \in Comps PROVE Room(c)
  <2>1. Occupied(c) = {} /\ CompMutexFree(c)
    BY Zenon DEF Init, Occupied, CompMutexFree
  <2>2. Cardinality(Occupied(c)) = 0 /\ Delivering(c) = 0
    BY <2>1, FS_EmptySet, Zenon DEF Delivering
  <2>3. cpc[c] = "make" /\ no_of_batches[c] = 0
    BY Zenon DEF Init
  <2>. QED
    BY <2>2, <2>3, VaccinationAssumption DEF Room
<1>. QED
  BY <1>2, <1>3, <1>4, <1>5, Zenon DEF VaccInv

\* The loops of students and zones go around: (i + 1) % n is an index again.
LEMMA AroundZones == \A z \in Zones : (z + 1) % no_of_zones \in Zones
<1>. QED
  BY VaccinationAssumption DEF Zones

LEMMA AroundComps == \A c \in Comps : (c + 1) % no_of_comp \in Comps
<1>. QED
  BY VaccinationAssumption DEF Comps

LEMMA NextZoneType ==
  ASSUME VaccInv, NEW s \in Students
  PROVE  NextZone(s) \in [Students -> Zones]
<1>1. szone[s] \in Zones
  BY Zenon DEF VaccInv, VaccTypeOK
<1>2. (szone[s] + 1) % no_of_zones \in Zones
  BY <1>1, AroundZones, Zenon
<1>. QED
  BY <1>2, Zenon DEF NextZone, VaccInv, VaccTypeOK

LEMMA NextCompType ==
  ASSUME VaccInv, NEW z \in Zones
  PROVE  NextComp(z) \in [Zones -> Comps]
<1>1. zcomp[z] \in Comps
  BY Zenon DEF VaccInv, VaccTypeOK
<1>2. (zcomp[z] + 1) % no_of_comp \in Comps
  BY <1>1, AroundComps, Zenon
<1>. QED
  BY <1>2, Zenon DEF NextComp, VaccInv, VaccTypeOK

\* What concerns a company only changes with its cells, its batches, its thread and
\* its mutex.
LEMMA RoomKept ==
  ASSUME VaccInv, NEW c \in Comps,
         zones_under'[c] = zones_under[c], no_of_batches'[c] = no_of_batches[c],
         cpc'[c] = cpc[c], CompMutexFree(c)' <=> CompMutexFree(c)
  PROVE  Room(c)'
<1>1. Occupied(c)' = Occupied(c) /\ Delivering(c)' = Delivering(c)
  BY Zenon DEF Occupied, Delivering
<1>2. Room(c)
  BY Zenon DEF VaccInv
<1>. QED
  BY <1>1, <1>2, Zenon DEF Room

\* A zone that neither was nor is delivering leaves the mutexes of the companies alone.
LEMMA MutexKept ==
  ASSUME VaccInv, NEW z \in Zones, zpc[z] # "deliver", zpc'[z] # "deliver",
         \A y \in Zones \ {z} : zpc'[y] = zpc[y] /\ zcomp'[y] = zcomp[y]
  PROVE  OneDelivers' /\ \A c \in Comps : CompMutexFree(c)' <=> CompMutexFree(c)
<1>1. \A y \in Zones : zpc'[y] = "deliver" <=> zpc[y] = "deliver"
  BY Zenon
<1>2. \A y \in Zones : zpc[y] = "deliver" => zcomp'[y] = zcomp[y]
  BY Zenon
<1>3. OneDelivers'
  BY <1>1, <1>2, Zenon DEF VaccInv, OneDelivers
<1>4. \A c \in Comps : CompMutexFree(c)' <=> CompMutexFree(c)
  BY <1>1, <1>2, Zenon DEF CompMutexFree
<1>. QED
  BY <1>3, <1>4, Zenon

\* A student takes a slot only of a zone that is open.
LEMMA StudentStep ==
  ASSUME VaccInv, NEW s \in Students, Student(s)
  PROVE  VaccInv'
<1>1. 0 \in Zones
  BY VaccinationAssumption DEF Zones
<1>2. szone' \in [Students -> Zones]
  <2>1. szone' = szone \/ szone' = NextZone(s) \/ szone' = [szone EXCEPT ![s] = 0]
    BY Zenon DEF Student, LookOn, TakeSlot, NoCell, Vaccinate
  <2>2. szone \in [Students -> Zones]
    BY Zenon DEF VaccInv, VaccTypeOK
  <2>3. [szone EXCEPT ![s] = 0] \in [Students -> Zones]
    BY <1>1, <2>2, Zenon
  <2>4. NextZone(s) \in [Students -> Zones]
    BY NextZoneType, Zenon
  <2>. QED
    BY <2>1, <2>2, <2>3, <2>4, Zenon
<1>3. UNCHANGED <<capacity, missed, zpc, zcomp, no_per_batch, no_of_batches, zones_under, cpc>>
  BY Zenon DEF Student, LookOn, TakeSlot, NoCell, Vaccinate, zones, comps, history
<1>6. OneDelivers'
  BY <1>3, Zenon DEF VaccInv, OneDelivers
<1>7. ASSUME NEW c \in Comps PROVE Room(c)'
  <2>1. CompMutexFree(c)' <=> CompMutexFree(c)
    BY <1>3, Zenon DEF CompMutexFree
  <2>. QED
    BY <1>3, <2>1, RoomKept, Zenon
<1>4. CASE UNCHANGED <<slots, owed>>
  BY <1>2, <1>3, <1>4, <1>6, <1>7, Zenon DEF VaccInv, VaccTypeOK, ClosedIsEmpty, DosesAddUp
<1>5. CASE TakeSlot(s)
  <2>. DEFINE z == szone[s]
  <2>1. /\ z \in Zones /\ slots[z] \in Nat /\ owed[z] \in Int /\ slots[z] > 0
        /\ slots' = [slots EXCEPT ![z] = slots[z] - 1]
        /\ owed' = [owed EXCEPT ![z] = owed[z] - 1]
    BY <1>5, Zenon DEF TakeSlot, VaccInv, VaccTypeOK
  <2>. HIDE DEF z
  <2>2. VaccTypeOK'
    <3>1. slots' \in [Zones -> Nat] /\ owed' \in [Zones -> Int]
      BY <2>1 DEF VaccInv, VaccTypeOK
    <3>. QED
      BY <1>2, <1>3, <3>1, Zenon DEF VaccInv, VaccTypeOK
  <2>3. ClosedIsEmpty'
    BY <1>3, <2>1 DEF VaccInv, VaccTypeOK, ClosedIsEmpty
  <2>4. DosesAddUp'
    BY <1>3, <2>1 DEF VaccInv, VaccTypeOK, DosesAddUp
  <2>. QED
    BY <1>6, <1>7, <2>2, <2>3, <2>4, Zenon DEF VaccInv
<1>. QED
  BY <1>4, <1>5, Zenon DEF Student, LookOn, NoCell, Vaccinate, zones, history

\* The zone that delivers frees the mutex and takes at most one cell.
LEMMA DeliverRoom ==
  ASSUME VaccInv, NEW z \in Zones, Deliver(z)
  PROVE  OneDelivers' /\ \A c \in Comps : Room(c)'
<1>0. PICK d \in Comps : d = zcomp[z]
  BY Zenon DEF VaccInv, VaccTypeOK
<1>1. /\ d \in Comps /\ zpc[z] = "deliver" /\ UNCHANGED <<no_of_batches, cpc>>
      /\ zpc'[z] # "deliver" /\ \A y \in Zones \ {z} : zpc'[y] = zpc[y] /\ zcomp'[y] = zcomp[y]
  BY Zenon DEF Deliver, NextComp, VaccInv, VaccTypeOK
<1>2. \/ zones_under' = zones_under
      \/ \E i : zones_under' = [zones_under EXCEPT ![d] = [zones_under[d] EXCEPT ![i] = z]]
  BY <1>0, Zenon DEF Deliver
<1>3. OneDelivers'
  BY <1>1, Zenon DEF VaccInv, OneDelivers
<1>4. ASSUME NEW c \in Comps, c # d PROVE Room(c)'
  <2>1. zones_under'[c] = zones_under[c]
    BY <1>2, <1>4, Zenon DEF VaccInv, VaccTypeOK
  <2>2. CompMutexFree(c)' <=> CompMutexFree(c)
    BY <1>0, <1>1, <1>4, Zenon DEF CompMutexFree
  <2>. QED
    BY <1>1, <2>1, <2>2, RoomKept, Zenon
<1>5. Room(d)'
  <2>1. Delivering(d) = 1 /\ Delivering(d)' = 0
    <3>1. ~CompMutexFree(d)
      BY <1>0, <1>1, Zenon DEF CompMutexFree
    <3>2. \A y \in Zones \ {z} : ~(zpc[y] = "deliver" /\ zcomp[y] = d)
      BY <1>0, <1>1, Zenon DEF VaccInv, OneDelivers
    <3>3. CompMutexFree(d)'
      BY <1>1, <3>2, Zenon DEF CompMutexFree
    <3>. QED
      BY <3>1, <3>3, Zenon DEF Delivering
  <2>2. PICK i : Occupied(d)' \subseteq Occupied(d) \cup {i}
    <3>1. CASE zones_under' = zones_under
      BY <3>1, Zenon DEF Occupied
    <3>2. ASSUME NEW i, zones_under' = [zones_under EXCEPT ![d] = [zones_under[d] EXCEPT ![i] = z]]
          PROVE  Occupied(d)' \subseteq Occupied(d) \cup {i}
      <4>1. zones_under[d] \in [Under -> Zones \cup {None}]
        BY <1>1, Zenon DEF VaccInv, VaccTypeOK
      <4>2. zones_under'[d] = [zones_under[d] EXCEPT ![i] = z]
        BY <1>1, <3>2, Zenon DEF VaccInv, VaccTypeOK
      <4>3. \A j \in Under : j # i => zones_under'[d][j] = zones_under[d][j]
        BY <4>1, <4>2, Zenon
      <4>. QED
        BY <4>3, Zenon DEF Occupied
    <3>. QED
      BY <1>2, <3>1, <3>2, Zenon
  <2>3. Cardinality(Occupied(d))' <= Cardinality(Occupied(d)) + 1
    <3>. DEFINE S == Occupied(d)
                T == Occupied(d)'
    <3>1. IsFiniteSet(S) /\ Cardinality(S) \in Nat
      BY Loads, CellSets, Zenon
    <3>. HIDE DEF S, T
    <3>2. /\ IsFiniteSet(S \cup {i})
          /\ Cardinality(S \cup {i}) = IF i \in S THEN Cardinality(S) ELSE Cardinality(S) + 1
      BY <3>1, FS_AddElement, Zenon
    <3>3. T \subseteq S \cup {i}
      BY <2>2, Zenon DEF S, T
    <3>4. IsFiniteSet(T) /\ Cardinality(T) <= Cardinality(S \cup {i})
      BY <3>2, <3>3, FS_Subset, Zenon
    <3>5. Cardinality(T) \in Nat
      BY <3>4, FS_CardinalityType, Zenon
    <3>6. Cardinality(T) <= Cardinality(S) + 1
      BY <3>1, <3>2, <3>4, <3>5
    <3>. QED
      BY <3>6, Zenon DEF S, T
  <2>4. Room(d) /\ Cardinality(Occupied(d)) \in Nat
    BY <1>1, Loads, Zenon DEF VaccInv
  <2>5. Cardinality(Occupied(d))' \in Nat
    <3>1. Occupied(d)' \subseteq Under
      BY Zenon DEF Occupied
    <3>. QED
      BY <3>1, CellSets, Zenon
  <2>6. no_of_batches[d] \in Nat /\ UNDER \in Nat
    BY <1>1, VaccinationAssumption, Zenon DEF VaccInv, VaccTypeOK
  <2>. QED
    BY <1>1, <2>1, <2>3, <2>4, <2>5, <2>6 DEF Room
<1>. QED
  BY <1>3, <1>4, <1>5, Zenon

\* A delivery that finds no cell: all are occupied, and a company may make so many.
LEMMA FullUnder ==
  ASSUME VaccInv, NEW z \in Zones, Deliver(z), FreeUnder(zcomp[z]) = {}
  PROVE  UNDER \in BatchCounts
<1>. DEFINE c == zcomp[z]
<1>1. c \in Comps /\ Room(c) /\ no_of_batches[c] \in Nat /\ UNDER \in Nat
  BY VaccinationAssumption, Zenon DEF VaccInv, VaccTypeOK
<1>2. Occupied(c) = Under
  BY Zenon DEF FreeUnder, Occupied
<1>3. Delivering(c) = 1
  BY Zenon DEF Delivering, CompMutexFree, Deliver
<1>. HIDE DEF c
<1>4. Cardinality(Occupied(c)) = UNDER
  BY <1>2, UnderFinite, Zenon
<1>. QED
  BY <1>1, <1>3, <1>4 DEF Room

LEMMA DeliverStep ==
  ASSUME VaccInv, NEW z \in Zones, Deliver(z)
  PROVE  VaccInv'
<1>. DEFINE n == no_per_batch[zcomp[z]]
<1>1. 0 \in Comps
  BY VaccinationAssumption DEF Comps
<1>2. zcomp[z] \in Comps /\ n \in Nat /\ owed[z] \in Int
  BY Zenon DEF VaccInv, VaccTypeOK
<1>3. /\ capacity' = [capacity EXCEPT ![z] = n]
      /\ owed' = [owed EXCEPT ![z] = owed[z] + n]
      /\ UNCHANGED <<szone, slots, no_per_batch, no_of_batches, cpc>>
      /\ zcomp' = [zcomp EXCEPT ![z] = 0] \/ zcomp' = NextComp(z)
      /\ \/ zpc' = [zpc EXCEPT ![z] = "refill"] /\ missed' = missed
         \/ /\ zpc' = [zpc EXCEPT ![z] = "seek"] /\ missed' = [missed EXCEPT ![z] = TRUE]
            /\ UNDER \in BatchCounts
  BY FullUnder, Zenon DEF Deliver, students, VaccInv, VaccTypeOK
<1>4. VaccTypeOK'
  <2>0. NextComp(z) \in [Zones -> Comps] /\ [zcomp EXCEPT ![z] = 0] \in [Zones -> Comps]
    BY <1>1, NextCompType, Zenon DEF VaccInv, VaccTypeOK
  <2>1. zcomp' \in [Zones -> Comps]
    BY <1>3, <2>0, Zenon
  <2>2. zpc' \in [Zones -> {"seek", "deliver", "refill", "serve"}] /\ missed' \in [Zones -> BOOLEAN]
    BY <1>3, Zenon DEF VaccInv, VaccTypeOK
  <2>3. capacity' \in [Zones -> Nat]
    BY <1>2, <1>3, Zenon DEF VaccInv, VaccTypeOK
  <2>4. owed' \in [Zones -> Int]
    BY <1>2, <1>3 DEF VaccInv, VaccTypeOK
  <2>5. zones_under' \in [Comps -> [Under -> Zones \cup {None}]]
    <3>. DEFINE c == zcomp[z]
                F == [Under -> Zones \cup {None}]
    <3>1. \/ zones_under' = zones_under
          \/ \E i : zones_under' = [zones_under EXCEPT ![c] = [zones_under[c] EXCEPT ![i] = z]]
      BY Zenon DEF Deliver
    <3>2. zones_under \in [Comps -> F] /\ zones_under[c] \in F
      BY <1>2, Zenon DEF VaccInv, VaccTypeOK
    <3>3. \A i : [zones_under[c] EXCEPT ![i] = z] \in F
      BY <3>2, Zenon
    <3>. HIDE DEF F, c
    <3>4. zones_under' \in [Comps -> F]
      BY <3>1, <3>2, <3>3, Zenon
    <3>. QED
      BY <3>4, Zenon DEF F
  <2>. QED
    BY <1>3, <2>1, <2>2, <2>3, <2>4, <2>5, Zenon DEF VaccInv, VaccTypeOK
<1>5. slots[z] = 0 /\ (capacity[z] = 0 \/ missed[z]) /\ zpc[z] = "deliver"
  BY Zenon DEF Deliver, VaccInv, ClosedIsEmpty
<1>. HIDE DEF n
<1>6. ClosedIsEmpty'
  <2>1. \A y \in Zones \ {z} : /\ zpc'[y] = zpc[y] /\ capacity'[y] = capacity[y]
                               /\ missed'[y] = missed[y] /\ slots'[y] = slots[y]
    BY <1>3, Zenon DEF VaccInv, VaccTypeOK
  <2>2. slots'[z] = 0 /\ (zpc'[z] = "refill" \/ missed'[z])
    BY <1>3, <1>5, Zenon DEF VaccInv, VaccTypeOK
  <2>. QED
    BY <2>1, <2>2, Zenon DEF VaccInv, ClosedIsEmpty
<1>7. DosesAddUp'
  <2>1. \A y \in Zones \ {z} : /\ owed'[y] = owed[y] /\ capacity'[y] = capacity[y]
                               /\ missed'[y] = missed[y] /\ slots'[y] = slots[y]
    BY <1>3, Zenon DEF VaccInv, VaccTypeOK
  <2>2. owed'[z] = owed[z] + n /\ capacity'[z] = n /\ slots'[z] = 0
    BY <1>3, <1>5, Zenon DEF VaccInv, VaccTypeOK
  <2>3. missed[z] => missed'[z]
    BY <1>3, Zenon DEF VaccInv, VaccTypeOK
  <2>4. ~missed[z] => owed[z] = 0
    BY <1>5 DEF VaccInv, DosesAddUp
  <2>5. owed'[z] = slots'[z] + capacity'[z] \/ missed'[z]
    <3>1. ~missed[z] => owed[z] + n = 0 + n
      BY <1>2, <2>4
    <3>. QED
      BY <2>2, <2>3, <3>1, Zenon
  <2>6. missed'[z] => UNDER \in BatchCounts
    BY <1>3, Zenon DEF VaccInv, DosesAddUp
  <2>. QED
    BY <2>1, <2>5, <2>6, Zenon DEF VaccInv, DosesAddUp
<1>. QED
  BY <1>4, <1>6, <1>7, DeliverRoom, Zenon DEF VaccInv

LEMMA OpenSlotsStep ==
  ASSUME VaccInv, NEW z \in Zones, OpenSlots(z)
  PROVE  VaccInv'
<1>. DEFINE n == capacity[z]
<1>1. /\ n \in Nat /\ slots[z] = 0 /\ zpc[z] = "refill"
      /\ slots' = [slots EXCEPT ![z] = Round(n)]
      /\ capacity' = [capacity EXCEPT ![z] = n - Round(n)]
      /\ zpc' = [zpc EXCEPT ![z] = "serve"]
      /\ UNCHANGED <<szone, owed, missed, zcomp, no_per_batch, no_of_batches, zones_under, cpc>>
  BY Zenon DEF OpenSlots, Left, students, comps, history, VaccInv, VaccTypeOK, ClosedIsEmpty
<1>2. Round(n) \in Nat /\ n - Round(n) \in Nat
  BY <1>1, VaccinationAssumption DEF Round
<1>3. DosesAddUp'
  BY <1>1, <1>2 DEF VaccInv, VaccTypeOK, DosesAddUp
<1>. HIDE DEF n
<1>4. VaccTypeOK'
  BY <1>1, <1>2, Zenon DEF VaccInv, VaccTypeOK
<1>5. ClosedIsEmpty'
  BY <1>1, Zenon DEF VaccInv, VaccTypeOK, ClosedIsEmpty
<1>6. OneDelivers' /\ \A c \in Comps : CompMutexFree(c)' <=> CompMutexFree(c)
  <2>1. zpc[z] # "deliver" /\ zpc'[z] # "deliver"
    BY <1>1, Zenon DEF VaccInv, VaccTypeOK
  <2>2. \A y \in Zones \ {z} : zpc'[y] = zpc[y] /\ zcomp'[y] = zcomp[y]
    BY <1>1, Zenon DEF VaccInv, VaccTypeOK
  <2>. QED
    BY <2>1, <2>2, MutexKept, Zenon
<1>. QED
  BY <1>1, <1>3, <1>4, <1>5, <1>6, RoomKept, Zenon DEF VaccInv

\* TakeBatch takes the mutex, for one of the batches that are left.
LEMMA TakeBatchRoom ==
  ASSUME VaccInv, NEW z \in Zones, TakeBatch(z)
  PROVE  /\ no_of_batches' \in [Comps -> Nat]
         /\ OneDelivers' /\ \A c \in Comps : Room(c)'
<1>0. PICK d \in Comps, n \in Nat : d = zcomp[z] /\ n = no_of_batches[d]
  BY Zenon DEF VaccInv, VaccTypeOK
<1>1. /\ d \in Comps /\ n \in Nat /\ n > 0 /\ CompMutexFree(d) /\ zpc[z] = "seek"
      /\ no_of_batches' = [no_of_batches EXCEPT ![d] = n - 1]
      /\ zpc' = [zpc EXCEPT ![z] = "deliver"] /\ UNCHANGED <<zcomp, zones_under, cpc>>
  BY <1>0, Zenon DEF TakeBatch, VaccInv, VaccTypeOK
<1>2. zpc'[z] = "deliver" /\ \A y \in Zones \ {z} : zpc'[y] = zpc[y]
  BY <1>1, Zenon DEF VaccInv, VaccTypeOK
<1>3. OneDelivers'
  <2>1. \A y \in Zones : ~(zpc[y] = "deliver" /\ zcomp[y] = zcomp[z])
    BY <1>0, <1>1, Zenon DEF CompMutexFree
  <2>2. ASSUME NEW x \in Zones, NEW y \in Zones,
               zpc'[x] = "deliver", zpc'[y] = "deliver", zcomp[x] = zcomp[y]
        PROVE  x = y
    <3>1. CASE x = z \/ y = z
      BY <1>2, <2>1, <2>2, <3>1, Zenon
    <3>2. CASE x # z /\ y # z
      <4>1. zpc[x] = "deliver" /\ zpc[y] = "deliver"
        BY <1>2, <2>2, <3>2, Zenon
      <4>. QED
        BY <2>2, <4>1, Zenon DEF VaccInv, OneDelivers
    <3>. QED
      BY <3>1, <3>2, Zenon
  <2>. QED
    BY <1>1, <2>2, Zenon DEF OneDelivers
<1>4. no_of_batches' \in [Comps -> Nat] /\ no_of_batches'[d] = n - 1
  BY <1>1 DEF VaccInv, VaccTypeOK
<1>5. ASSUME NEW c \in Comps, c # d PROVE Room(c)'
  <2>1. no_of_batches'[c] = no_of_batches[c]
    BY <1>1, <1>5, Zenon DEF VaccInv, VaccTypeOK
  <2>2. CompMutexFree(c)' <=> CompMutexFree(c)
    BY <1>0, <1>1, <1>2, <1>5, Zenon DEF CompMutexFree
  <2>. QED
    BY <1>1, <2>1, <2>2, RoomKept, Zenon
<1>6. Room(d)'
  <2>1. Delivering(d) = 0 /\ Delivering(d)' = 1
    BY <1>0, <1>1, <1>2, Zenon DEF Delivering, CompMutexFree
  <2>2. Occupied(d)' = Occupied(d)
    BY <1>1, Zenon DEF Occupied
  <2>3. Room(d) /\ Cardinality(Occupied(d)) \in Nat /\ no_of_batches[d] = n
    BY <1>0, <1>1, Loads, Zenon DEF VaccInv
  <2>4. cpc'[d] = cpc[d] /\ cpc[d] = "sell"
    BY <1>1, <2>3 DEF Room
  <2>. QED
    BY <1>1, <1>4, <2>1, <2>2, <2>3, <2>4, VaccinationAssumption DEF Room
<1>. QED
  BY <1>3, <1>4, <1>5, <1>6, Zenon

\* The other steps of a zone only move its thread, and leave serve when no slot
\* is open.
LEMMA ZoneMoves ==
  ASSUME VaccInv, NEW z \in Zones, SeekOn(z) \/ TakeBatch(z) \/ RunOut(z) \/ CloseSlots(z)
  PROVE  VaccInv'
<1>1. zcomp' \in [Zones -> Comps]
  BY NextCompType DEF SeekOn, TakeBatch, RunOut, CloseSlots, VaccInv, VaccTypeOK
<1>2. UNCHANGED <<szone, slots, capacity, owed, missed, no_per_batch, zones_under, cpc>>
  BY Zenon DEF SeekOn, TakeBatch, RunOut, CloseSlots, students, comps, history
<1>3. slots[z] = 0 \/ zpc' = zpc
  BY DEF SeekOn, TakeBatch, RunOut, CloseSlots, VaccInv, VaccTypeOK, ClosedIsEmpty
<1>4. \E x \in {"seek", "deliver", "refill"} :
        zpc' = [zpc EXCEPT ![z] = x] /\ (x = "refill" \/ capacity[z] = 0 \/ missed[z])
  <2>1. CASE SeekOn(z) \/ TakeBatch(z)
    BY <2>1, Zenon DEF SeekOn, TakeBatch, VaccInv, VaccTypeOK, ClosedIsEmpty
  <2>2. CASE RunOut(z)
    <3>1. capacity[z] = 0
      BY <2>2 DEF RunOut, VaccInv, VaccTypeOK
    <3>. QED
      BY <2>2, <3>1, Zenon DEF RunOut
  <2>3. CASE CloseSlots(z)
    BY <2>3, Zenon DEF CloseSlots
  <2>. QED
    BY <2>1, <2>2, <2>3, Zenon
<1>5. /\ no_of_batches' \in [Comps -> Nat]
      /\ OneDelivers' /\ \A c \in Comps : Room(c)'
  <2>1. CASE TakeBatch(z)
    BY <2>1, TakeBatchRoom, Zenon
  <2>2. CASE SeekOn(z) \/ RunOut(z) \/ CloseSlots(z)
    <3>1. /\ no_of_batches' = no_of_batches /\ zpc[z] # "deliver" /\ zpc'[z] # "deliver"
          /\ \A y \in Zones \ {z} : zpc'[y] = zpc[y] /\ zcomp'[y] = zcomp[y]
      BY <2>2, Zenon DEF SeekOn, RunOut, CloseSlots, NextComp, comps, VaccInv, VaccTypeOK
    <3>2. OneDelivers' /\ \A c \in Comps : CompMutexFree(c)' <=> CompMutexFree(c)
      BY <3>1, MutexKept, Zenon
    <3>. QED
      BY <1>2, <3>1, <3>2, RoomKept, Zenon DEF VaccInv, VaccTypeOK
  <2>. QED
    BY <2>1, <2>2, Zenon
<1>6. VaccTypeOK'
  <2>1. zpc' \in [Zones -> {"seek", "deliver", "refill", "serve"}]
    BY <1>4, Zenon DEF VaccInv, VaccTypeOK
  <2>. QED
    BY <1>1, <1>2, <1>5, <2>1, Zenon DEF VaccInv, VaccTypeOK
<1>7. ClosedIsEmpty'
  BY <1>2, <1>3, <1>4, Zenon DEF VaccInv, VaccTypeOK, ClosedIsEmpty
<1>8. DosesAddUp'
  BY <1>2, Zenon DEF VaccInv, DosesAddUp
<1>. QED
  BY <1>5, <1>6, <1>7, <1>8, Zenon DEF VaccInv

\* A company makes batches when none are left, with at most one cell occupied.
LEMMA CompRoom ==
  ASSUME VaccInv, NEW c \in Comps, Comp(c)
  PROVE  /\ no_of_batches' \in [Comps -> Nat]
         /\ zones_under' \in [Comps -> [Under -> Zones \cup {None}]]
         /\ cpc' \in [Comps -> {"make", "sell", "check"}]
         /\ Room(c)' /\ \A d \in Comps \ {c} : Room(d)'
<1>1. zpc' = zpc /\ zcomp' = zcomp
  BY Zenon DEF Comp, Manufacture, SoldOut, CheckZone, Announce, zones
<1>2. \A d \in Comps : CompMutexFree(d)' <=> CompMutexFree(d)
  BY <1>1, Zenon DEF CompMutexFree
<1>3. /\ Room(c) /\ no_of_batches[c] \in Nat /\ UNDER \in Nat \ {0} /\ BatchCounts \subseteq 1 .. UNDER
      /\ Cardinality(Occupied(c)) \in Nat /\ Delivering(c) \in {0, 1}
  BY Loads, VaccinationAssumption, Zenon DEF VaccInv, VaccTypeOK
<1>4. Delivering(c)' = Delivering(c)
  BY <1>2, Zenon DEF Delivering
<1>5. CASE \E x \in BatchSizes, y \in BatchCounts : Manufacture(c, x, y)
  <2>1. PICK y \in BatchCounts :
          /\ cpc[c] = "make" /\ no_of_batches' = [no_of_batches EXCEPT ![c] = y]
          /\ cpc' = [cpc EXCEPT ![c] = "sell"] /\ zones_under' = zones_under
    BY <1>5, Zenon DEF Manufacture
  <2>2. y \in Nat /\ (UNDER \notin BatchCounts => y + 1 <= UNDER)
    BY <1>3
  <2>3. /\ no_of_batches'[c] = y /\ cpc'[c] = "sell"
        /\ \A d \in Comps \ {c} : no_of_batches'[d] = no_of_batches[d] /\ cpc'[d] = cpc[d]
    BY <2>1, Zenon DEF VaccInv, VaccTypeOK
  <2>4. Occupied(c)' = Occupied(c)
    BY <2>1, Zenon DEF Occupied
  <2>5. Room(c)'
    BY <1>3, <1>4, <2>1, <2>2, <2>3, <2>4 DEF Room
  <2>6. \A d \in Comps \ {c} : Room(d)'
    BY <1>2, <2>1, <2>3, RoomKept, Zenon
  <2>. QED
    BY <2>1, <2>2, <2>5, <2>6, Zenon DEF VaccInv, VaccTypeOK
<1>6. CASE SoldOut(c)
  <2>1. /\ no_of_batches[c] = 0 /\ cpc' = [cpc EXCEPT ![c] = "check"] /\ cpc[c] = "sell"
        /\ no_of_batches' = no_of_batches /\ zones_under' = zones_under
    BY <1>3, <1>6 DEF SoldOut
  <2>2. cpc'[c] = "check" /\ \A d \in Comps \ {c} : cpc'[d] = cpc[d]
    BY <2>1, Zenon DEF VaccInv, VaccTypeOK
  <2>3. Occupied(c)' = Occupied(c)
    BY <2>1, Zenon DEF Occupied
  <2>4. Room(c)'
    BY <1>3, <1>4, <2>1, <2>2, <2>3, Zenon DEF Room
  <2>5. \A d \in Comps \ {c} : Room(d)'
    BY <1>2, <2>1, <2>2, RoomKept, Zenon
  <2>. QED
    BY <2>1, <2>4, <2>5, Zenon DEF VaccInv, VaccTypeOK
<1>7. CASE CheckZone(c)
  <2>1. UNCHANGED <<cpc, no_of_batches, zones_under>>
    BY <1>7, Zenon DEF CheckZone
  <2>2. \A d \in Comps : Room(d)'
    BY <1>2, <2>1, RoomKept, Zenon
  <2>. QED
    BY <2>1, <2>2, Zenon DEF VaccInv, VaccTypeOK
<1>8. CASE Announce(c)
  <2>1. /\ zones_under' = [zones_under EXCEPT ![c] = [i \in Under |-> None]]
        /\ cpc[c] = "check" /\ cpc' = [cpc EXCEPT ![c] = "make"] /\ no_of_batches' = no_of_batches
    BY <1>8, Zenon DEF Announce, NoZones
  <2>2. /\ zones_under'[c] = [i \in Under |-> None] /\ cpc'[c] = "make"
        /\ \A d \in Comps \ {c} : zones_under'[d] = zones_under[d] /\ cpc'[d] = cpc[d]
    BY <2>1, Zenon DEF VaccInv, VaccTypeOK
  <2>3. Occupied(c)' = {}
    BY <2>2, Zenon DEF Occupied
  <2>4. Cardinality(Occupied(c)') = 0
    BY <2>3, FS_EmptySet, Zenon
  <2>5. Room(c)'
    BY <1>3, <1>4, <2>1, <2>2, <2>4 DEF Room
  <2>6. \A d \in Comps \ {c} : Room(d)'
    BY <1>2, <2>1, <2>2, RoomKept, Zenon
  <2>7. zones_under' \in [Comps -> [Under -> Zones \cup {None}]]
    <3>1. [i \in Under |-> None] \in [Under -> Zones \cup {None}]
      BY Zenon
    <3>. QED
      BY <2>1, <3>1, Zenon DEF VaccInv, VaccTypeOK
  <2>. QED
    BY <2>1, <2>5, <2>6, <2>7, Zenon DEF VaccInv, VaccTypeOK
<1>. QED
  BY <1>5, <1>6, <1>7, <1>8, Zenon DEF Comp

LEMMA CompStep ==
  ASSUME VaccInv, NEW c \in Comps, Comp(c)
  PROVE  VaccInv'
<1>1. UNCHANGED <<szone, slots, capacity, owed, missed, zpc, zcomp>>
  BY Zenon DEF Comp, Manufacture, SoldOut, CheckZone, Announce, students, zones, history
<1>2. no_per_batch' \in [Comps -> Nat]
  BY VaccinationAssumption, Zenon DEF Comp, Manufacture, SoldOut, CheckZone, Announce, VaccInv, VaccTypeOK
<1>3. VaccTypeOK'
  BY <1>1, <1>2, CompRoom, Zenon DEF VaccInv, VaccTypeOK
<1>4. OneDelivers' /\ \A d \in Comps : Room(d)'
  BY <1>1, CompRoom, Zenon DEF VaccInv, OneDelivers
<1>. QED
  BY <1>1, <1>3, <1>4, Zenon DEF VaccInv, ClosedIsEmpty, DosesAddUp

\* Vaccination!DosesAddUp: a zone without the mutex and students with it share slots
\* and capacity (student_wait, zone_2), yet no dose that was delivered is lost or
\* given twice: a zone opens slots only after the last one was taken, and asks for a
\* batch only after the last one is used up, unless zones_under was full.  That takes
\* as many batches as there are cells: only one entry can be made after comp_2
\* cleared them, for the delivery that holds the company's mutex.
THEOREM VaccDosesAddUp == Spec => []DosesAddUp
<1>1. Init => VaccInv
  BY VaccInitInv, Zenon
<1>2. VaccInv /\ [Next]_vars => VaccInv'
  <2>. SUFFICES ASSUME VaccInv, [Next]_vars PROVE VaccInv'
    BY Zenon
  <2>1. CASE UNCHANGED vars
    <3>1. UNCHANGED <<szone, slots, capacity, owed, missed, zpc, zcomp, no_per_batch,
                      no_of_batches, zones_under, cpc>>
      BY <2>1, Zenon DEF vars, students, zones, comps, history
    <3>2. VaccTypeOK' /\ ClosedIsEmpty' /\ DosesAddUp' /\ OneDelivers'
      BY <3>1, Zenon DEF VaccInv, VaccTypeOK, ClosedIsEmpty, DosesAddUp, OneDelivers
    <3>3. \A c \in Comps : CompMutexFree(c)' <=> CompMutexFree(c)
      BY <3>1, Zenon DEF CompMutexFree
    <3>. QED
      BY <3>1, <3>2, <3>3, RoomKept, Zenon DEF VaccInv
  <2>2. CASE \E s \in Students : Student(s)
    BY <2>2, StudentStep, Zenon
  <2>3. CASE \E z \in Zones : Zone(z)
    BY <2>3, DeliverStep, OpenSlotsStep, ZoneMoves, Zenon DEF Zone
  <2>4. CASE \E c \in Comps : Comp(c)
    BY <2>4, CompStep, Zenon
  <2>. QED
    BY <2>1, <2>2, <2>3, <2>4, Zenon DEF Next
<1>3. VaccInv => DosesAddUp
  BY Zenon DEF VaccInv
<1>. QED
  BY <1>1, <1>2, <1>3, PTL DEF Spec
-----------------------------------------------------------------------------
(* The festival. *)

FestPlaces == {"search", "timed", "perform", "extra", "ending", "joined", "duet",
               "shirt", "coord", "left", "done", "died"}

FestTypeOK ==
  /\ performers \in [Stages -> (Artists \cup {Nobody}) \X (Artists \cup {Nobody})]
  /\ stage_assigned \in [Artists -> Stages \cup {Nobody}]
  /\ pc \in [Artists -> FestPlaces]

FestInv ==
  /\ FestTypeOK
  /\ \A a \in Artists : pc[a] \in OnStage => stage_assigned[a] \in Stages
  /\ OwnStage

LEMMA FestNobody == Nobody \notin Artists /\ Nobody \notin Stages
<1>. QED
  BY MusicalAssumption DEF Nobody, Artists, Stages

LEMMA FestInitInv ==
  ASSUME FestInit
  PROVE  FestInv
<1>. QED
  BY Zenon DEF FestInit, FestInv, FestTypeOK, FestPlaces, OwnStage, OnStage

\* An artist gets a stage that nobody performs on, or a singer the second place.
LEMMA FindStageStep ==
  ASSUME FestInv, NEW a \in Artists, FindStage(a)
  PROVE  FestInv'
<1>1. PICK s \in Stages :
        /\ Usable(a, s)
        /\ stage_assigned' = [stage_assigned EXCEPT ![a] = s]
        /\ \/ /\ Empty(s)
              /\ performers' = [performers EXCEPT ![s][1] = a]
              /\ pc' = [pc EXCEPT ![a] = "perform"]
           \/ /\ ~Empty(s)
              /\ performers' = [performers EXCEPT ![s][2] = a]
              /\ pc' = [pc EXCEPT ![a] = "joined"]
  BY Zenon DEF FindStage, FirstUsable
<1>2. performers[s] = <<performers[s][1], performers[s][2]>>
  BY DEF FestInv, FestTypeOK
<1>3. \A k \in Stages : k # s => performers'[k] = performers[k]
  BY <1>1, Zenon DEF FestInv, FestTypeOK
<1>4. \A b \in Artists : b # a => pc'[b] = pc[b] /\ stage_assigned'[b] = stage_assigned[b]
  BY <1>1, Zenon DEF FestInv, FestTypeOK
<1>5. CASE Empty(s)
  <2>1. /\ performers'[s] = <<a, performers[s][2]>> /\ performers[s][1] = Nobody
        /\ pc'[a] = "perform" /\ stage_assigned'[a] = s
    BY <1>1, <1>2, <1>5 DEF Empty, FestInv, FestTypeOK
  <2>2. performers[s][2] = Nobody
    BY <1>5, Zenon DEF FestInv, OwnStage
  <2>3. StageType[s] \in stage_req(a)
    BY <1>1, <1>5, Zenon DEF Usable, Joinable
  <2>4. FestTypeOK'
    BY <1>1, <1>5, <2>1 DEF FestInv, FestTypeOK, FestPlaces
  <2>5. \A b \in Artists \ {a} : pc[b] \in OnStage => stage_assigned[b] # s
    BY <2>1, FestNobody DEF FestInv, OwnStage
  <2>6. \A b \in Artists : pc'[b] \in OnStage => stage_assigned'[b] \in Stages
    BY <1>4, <2>1, Zenon DEF FestInv
  <2>7. ASSUME NEW b \in Artists, pc'[b] \in OnStage
        PROVE  /\ performers'[stage_assigned'[b]][1] = b
               /\ StageType[stage_assigned'[b]] \in stage_req(b)
    <3>1. CASE b = a
      BY <3>1, <2>1, <2>3
    <3>2. CASE b # a
      BY <3>2, <2>5, <2>7, <1>3, <1>4 DEF FestInv, OwnStage
    <3>. QED
      BY <3>1, <3>2, Zenon
  <2>8. ASSUME NEW k \in Stages, performers'[k][2] # Nobody
        PROVE  /\ performers'[k][1] # Nobody
               /\ Instrument[performers'[k][1]] # "s" /\ Instrument[performers'[k][2]] = "s"
    <3>1. k # s
      BY <2>8, <2>1, <2>2
    <3>. QED
      BY <3>1, <2>8, <1>3, Zenon DEF FestInv, OwnStage, Empty
  <2>. QED
    BY <2>4, <2>6, <2>7, <2>8, Zenon DEF FestInv, OwnStage, Empty
<1>6. CASE ~Empty(s)
  <2>1. /\ performers'[s] = <<performers[s][1], a>> /\ performers[s][1] # Nobody
        /\ pc'[a] = "joined" /\ pc'[a] \notin OnStage
    BY <1>1, <1>2, <1>6 DEF Empty, FestInv, FestTypeOK, OnStage
  <2>2. Instrument[a] = "s" /\ Instrument[performers[s][1]] # "s"
    BY <1>1, <1>6, Zenon DEF Usable, Joinable
  <2>3. FestTypeOK'
    BY <1>1, <1>6, <2>1 DEF FestInv, FestTypeOK, FestPlaces
  <2>4. \A k \in Stages : performers'[k][1] = performers[k][1]
    BY <1>3, <2>1
  <2>5. ASSUME NEW b \in Artists, pc'[b] \in OnStage
        PROVE  /\ stage_assigned'[b] \in Stages
               /\ performers'[stage_assigned'[b]][1] = b
               /\ StageType[stage_assigned'[b]] \in stage_req(b)
    BY <1>4, <2>1, <2>4, <2>5, SMTT(40) DEF FestInv, OwnStage
  <2>6. ASSUME NEW k \in Stages, performers'[k][2] # Nobody
        PROVE  /\ performers'[k][1] # Nobody
               /\ Instrument[performers'[k][1]] # "s" /\ Instrument[performers'[k][2]] = "s"
    <3>1. CASE k = s
      BY <3>1, <2>1, <2>2
    <3>2. CASE k # s
      BY <3>2, <2>6, <1>3, Zenon DEF FestInv, OwnStage, Empty
    <3>. QED
      BY <3>1, <3>2, Zenon
  <2>. QED
    BY <2>3, <2>5, <2>6, Zenon DEF FestInv, OwnStage, Empty
<1>. QED
  BY <1>5, <1>6, Zenon

\* Who ends its performance clears its own stage, on which nobody else performs.
LEMMA PerfEndsStep ==
  ASSUME FestInv, NEW a \in Artists, PerfEnds(a)
  PROVE  FestInv'
<1>. DEFINE s == stage_assigned[a]
<1>1. s \in Stages /\ performers[s][1] = a /\ stage_assigned' = stage_assigned
  BY Zenon DEF PerfEnds, FestInv, OwnStage, OnStage
<1>2. PICK S : pc' = [AfterSignal(S) EXCEPT ![a] = "shirt"]
  BY Zenon DEF PerfEnds
<1>3. pc' \in [Artists -> FestPlaces]
  BY <1>2, Zenon DEF AfterSignal, FestInv, FestTypeOK, FestPlaces
<1>4. \A b \in Artists : pc'[b] \in OnStage => b # a /\ pc[b] \in OnStage
  BY <1>2, Zenon DEF AfterSignal, OnStage
<1>5. \A b \in Artists : pc'[b] \in OnStage => stage_assigned[b] \in Stages /\ stage_assigned[b] # s
  BY <1>1, <1>4 DEF FestInv, OwnStage
<1>6. performers' = performers \/ performers' = [performers EXCEPT ![s] = <<Nobody, Nobody>>]
  BY Zenon DEF PerfEnds, Cleared
<1>. HIDE DEF s
<1>7. \A k \in Stages : performers'[k] = performers[k] \/ (k = s /\ performers'[k] = <<Nobody, Nobody>>)
  BY <1>1, <1>6, Zenon DEF FestInv, FestTypeOK
<1>8. FestTypeOK'
  BY <1>1, <1>3, <1>6 DEF FestInv, FestTypeOK
<1>9. \A b \in Artists : pc'[b] \in OnStage =>
        /\ performers'[stage_assigned'[b]][1] = b
        /\ StageType[stage_assigned'[b]] \in stage_req(b)
  BY <1>1, <1>4, <1>5, <1>7, SMTT(40) DEF FestInv, OwnStage
<1>10. \A k \in Stages : performers'[k][2] # Nobody =>
         /\ performers'[k][1] # Nobody
         /\ Instrument[performers'[k][1]] # "s" /\ Instrument[performers'[k][2]] = "s"
  BY <1>7, SMTT(40) DEF FestInv, OwnStage, Empty
<1>. QED
  BY <1>1, <1>5, <1>8, <1>9, <1>10, Zenon DEF FestInv, OwnStage, Empty

\* The other steps move a thread, and none of them puts it on a stage.
LEMMA MoveStep ==
  ASSUME FestInv, NEW a \in Artists,
         \/ WaitForStage(a) \/ Timeout(a) \/ Duet(a) \/ PerformDone(a) \/ ExtraDone(a)
         \/ SemWait(a) \/ SemPost(a)
  PROVE  FestInv'
<1>1. UNCHANGED <<performers, stage_assigned>>
  BY Zenon DEF WaitForStage, Timeout, Duet, PerformDone, ExtraDone, SemWait, SemPost, Move
<1>2. PICK to \in FestPlaces : pc' = [pc EXCEPT ![a] = to] /\ (to \in OnStage => pc[a] \in OnStage)
  BY Zenon DEF WaitForStage, Timeout, Duet, PerformDone, ExtraDone, SemWait, SemPost, Move, FestPlaces, OnStage
<1>3. pc' \in [Artists -> FestPlaces] /\ \A b \in Artists : pc'[b] \in OnStage => pc[b] \in OnStage
  BY <1>2, Zenon DEF FestInv, FestTypeOK
<1>. QED
  BY <1>1, <1>3, Zenon DEF FestInv, FestTypeOK, OwnStage, Empty

\* The end of the program leaves nobody on a stage.
LEMMA JoinMessageStep ==
  ASSUME FestInv, NEW a \in Artists, JoinMessage(a)
  PROVE  FestInv'
<1>1. UNCHANGED <<performers, stage_assigned>> /\ pc' = [i \in Artists |-> "died"]
  BY Zenon DEF JoinMessage
<1>2. pc' \in [Artists -> FestPlaces] /\ \A b \in Artists : pc'[b] \notin OnStage
  BY <1>1, Zenon DEF FestPlaces, OnStage
<1>. QED
  BY <1>1, <1>2, Zenon DEF FestInv, FestTypeOK, OwnStage, Empty

\* "so that no two threads go into a particular stage at the same time": however
\* many artists and stages there are and whenever signals come or waits end, an
\* artist performs on a suitable stage of its own, and the second place of a stage
\* is a singer's beside a musician (artist_wait, perf_ends).
THEOREM FestOwnStage == FestSpec => []OwnStage
<1>1. FestInit => FestInv
  BY FestInitInv, Zenon
<1>2. FestInv /\ [FestNext]_FestVars => FestInv'
  <2>. SUFFICES ASSUME FestInv, [FestNext]_FestVars PROVE FestInv'
    BY Zenon
  <2>1. CASE UNCHANGED FestVars
    BY <2>1, Zenon DEF FestVars, FestInv, FestTypeOK, OwnStage, Empty
  <2>2. CASE \E a \in Artists : Thread(a)
    BY <2>2, FindStageStep, PerfEndsStep, MoveStep, JoinMessageStep, Zenon DEF Thread
  <2>. QED
    BY <2>1, <2>2, Zenon DEF FestNext, Finish
<1>3. FestInv => OwnStage
  BY Zenon DEF FestInv
<1>. QED
  BY <1>1, <1>2, <1>3, PTL DEF FestSpec

-----------------------------------------------------------------------------
(* The reversed copy. *)

\* The first n bytes of the file f are the last n of the file o, backwards.
Mirrors(o, f, n) == \A i \in 1 .. n : f[i] = o[(Len(o) - i) + 1]

\* The block at rpos, with rx bytes, is the next one; what is behind it is done.
BlockOK ==
  /\ rpos \in Nat /\ rx \in Nat /\ rpos + rx <= Len(old)
  /\ \E q \in Nat : rpos = q * buf

RevInv ==
  /\ old \in Seq(Nat) /\ new \in Seq(Nat) /\ opened \in SUBSET Files
  /\ rpc \in {"reverse", "reversed", "compare", "compared"}
  /\ rpc # "compared" => verdict = ""
  /\ rpc = "reverse" => "old" \in opened /\ BlockOK
  /\ rpc = "reverse" /\ "new" \in opened =>
       Len(new) = Len(old) - (rpos + rx) /\ Mirrors(old, new, Len(new))
  /\ rpc = "compare" /\ opened = Files =>
       /\ BlockOK /\ Len(new) = Len(old)
       /\ npos = Len(old) - (rpos + rx) /\ Mirrors(old, new, npos)
  /\ rpc = "compare" /\ opened # Files => opened = {} /\ rpos = 0 /\ rx = -1 /\ npos = 0
  /\ VerdictRight

LEMMA BothFiles ==
  ASSUME NEW o \in SUBSET Files
  PROVE  /\ o = Files <=> "old" \in o /\ "new" \in o
         /\ o = {} <=> "old" \notin o /\ "new" \notin o
         /\ Files # {}
<1>. QED
  BY Zenon DEF Files

\* The last block begins at a multiple of buf and ends where the file ends.
LEMMA LastBlockOK ==
  ASSUME NEW z \in Nat
  PROVE  /\ LastBlock(z) \in Nat /\ z - LastBlock(z) \in Nat
         /\ \E q \in Nat : LastBlock(z) = q * buf
<1>0. buf \in Nat \ {0}
  BY ReversalAssumption
<1>1. CASE z = 0
  <2>1. LastBlock(z) = 0
    BY <1>1 DEF LastBlock
  <2>2. 0 = 0 * buf
    BY <1>0
  <2>. QED
    BY <1>1, <2>1, <2>2
<1>2. CASE z # 0
  <2>1. z - 1 \in Nat
    BY <1>2
  <2>. DEFINE q == (z - 1) \div buf
  <2>2. q \in Nat /\ q * buf <= z - 1
    BY <1>0, <2>1, DivFacts, Zenon
  <2>3. LastBlock(z) = q * buf
    <3>1. ~(z <= 0)
      BY <1>2
    <3>. QED
      BY <3>1, Zenon DEF LastBlock
  <2>. HIDE DEF q
  <2>4. q * buf \in Nat
    BY <1>0, <2>2
  <2>. QED
    BY <2>2, <2>3, <2>4
<1>. QED
  BY <1>1, <1>2, Zenon

\* Without a block before it a block is the first one.
LEMMA FirstBlock ==
  ASSUME BlockOK, "old" \in opened, ~More
  PROVE  rpos = 0
<1>0. buf \in Nat \ {0}
  BY ReversalAssumption
<1>1. rpos < buf /\ rpos \in Nat
  BY <1>0 DEF BlockOK, More, SeekCur
<1>2. PICK q \in Nat : rpos = q * buf
  BY Zenon DEF BlockOK
<1>3. q = 0 \/ q >= 1
  OBVIOUS
<1>4. q >= 1 => q * buf >= buf
  BY <1>0
<1>. QED
  BY <1>0, <1>1, <1>2, <1>3, <1>4

LEMMA BlockBefore ==
  ASSUME BlockOK, old \in Seq(Nat), "old" \in opened, More, NextBlock, old' = old
  PROVE  BlockOK' /\ rpos' + rx' = rpos
<1>0. buf \in Nat \ {0}
  BY ReversalAssumption
<1>1. rpos >= buf /\ rpos \in Nat /\ rx \in Nat /\ rpos + rx <= Len(old) /\ Len(old) \in Nat
  BY <1>0 DEF BlockOK, More, SeekCur
<1>2. rpos' = rpos - buf /\ rx' = buf
  BY Zenon DEF NextBlock
<1>3. PICK q \in Nat : rpos = q * buf
  BY Zenon DEF BlockOK
<1>4. q # 0
  BY <1>0, <1>1, <1>3
<1>5. q - 1 \in Nat /\ rpos - buf = (q - 1) * buf
  BY <1>0, <1>1, <1>3, <1>4
<1>6. rpos' \in Nat /\ rx' \in Nat /\ rpos' + rx' = rpos /\ rpos' + rx' <= Len(old)
  BY <1>0, <1>1, <1>2
<1>. QED
  BY <1>2, <1>5, <1>6, Zenon DEF BlockOK

\* What is read of the block, backwards.
LEMMA SrevIs ==
  ASSUME old \in Seq(Nat), BlockOK
  PROVE  /\ srev \in Seq(Nat) /\ Len(srev) = rx
         /\ \A i \in 1 .. rx : srev[i] = old[(rpos + rx) - i + 1]
<1>1. rpos \in Nat /\ rx \in Nat /\ rpos + rx <= Len(old) /\ Len(old) \in Nat
  BY DEF BlockOK
<1>. DEFINE b == SubSeq(old, rpos + 1, rpos + rx)
<1>2. b \in Seq(Nat) /\ Len(b) = rx /\ \A i \in 1 .. rx : b[i] = old[rpos + i]
  BY <1>1, Slice, ZenonT(40)
<1>3. srev = [i \in 1 .. Len(b) |-> b[(Len(b) - i) + 1]]
  BY Zenon DEF srev, Backwards
<1>. HIDE DEF b
<1>4. srev = [i \in 1 .. rx |-> b[(rx - i) + 1]]
  BY <1>2, <1>3, Zenon
<1>5. \A i \in 1 .. rx : (rx - i) + 1 \in 1 .. rx /\ rpos + ((rx - i) + 1) = (rpos + rx) - i + 1
  BY <1>1
<1>6. \A i \in 1 .. rx : b[(rx - i) + 1] = old[(rpos + rx) - i + 1] /\ b[(rx - i) + 1] \in Nat
  <2>. SUFFICES ASSUME NEW i \in 1 .. rx
                PROVE  b[(rx - i) + 1] = old[(rpos + rx) - i + 1] /\ b[(rx - i) + 1] \in Nat
    BY Zenon
  <2>. DEFINE m == (rx - i) + 1
  <2>1. m \in 1 .. rx /\ rpos + m = (rpos + rx) - i + 1
    BY <1>5, Zenon
  <2>2. b[m] = old[rpos + m]
    BY <1>2, <2>1, Zenon
  <2>3. b[m] \in Nat
    BY <1>2, <2>1
  <2>. QED
    BY <2>1, <2>2, <2>3, Zenon
<1>. QED
  BY <1>1, <1>4, <1>6

\* Two files of the same length mirror each other all the way or are different.
LEMMA MirrorsAll ==
  ASSUME NEW o \in Seq(Nat), NEW f \in Seq(Nat)
  PROVE  (f = Backwards(o)) <=> (Len(f) = Len(o) /\ Mirrors(o, f, Len(o)))
<1>1. Len(o) \in Nat /\ Len(f) \in Nat
  OBVIOUS
<1>2. \A i \in 1 .. Len(o) : (Len(o) - i) + 1 \in 1 .. Len(o)
  BY <1>1
<1>3. Backwards(o) = [i \in 1 .. Len(o) |-> o[(Len(o) - i) + 1]]
  BY Zenon DEF Backwards
<1>4. Backwards(o) \in Seq(Nat) /\ Len(Backwards(o)) = Len(o)
  BY <1>1, <1>2, <1>3
<1>5. \A i \in 1 .. Len(o) : Backwards(o)[i] = o[(Len(o) - i) + 1]
  BY <1>3, Zenon
<1>6. ASSUME Len(f) = Len(o), Mirrors(o, f, Len(o)) PROVE f = Backwards(o)
  BY <1>4, <1>5, <1>6, SameLists, Zenon DEF Mirrors
<1>7. ASSUME f = Backwards(o) PROVE Len(f) = Len(o) /\ Mirrors(o, f, Len(o))
  BY <1>4, <1>5, <1>7, Zenon DEF Mirrors
<1>. QED
  BY <1>6, <1>7, Zenon

LEMMA RevInitInv == RevInit => RevInv
<1>. SUFFICES ASSUME RevInit PROVE RevInv
  BY Zenon
<1>1. /\ old \in Seq(Nat) /\ new = <<>> /\ opened \in SUBSET Files /\ verdict = ""
      /\ rpc = IF "old" \in opened THEN "reverse" ELSE "reversed"
  BY ReversalAssumption, Zenon DEF RevInit, Files
<1>9. /\ rpc \in {"reverse", "reversed"} /\ (rpc = "reverse" => "old" \in opened)
      /\ (rpc = "reversed" => "old" \notin opened /\ opened # Files)
  BY <1>1, BothFiles, Zenon
<1>10. old \in Seq(Nat) /\ new = <<>>
  BY <1>1, Zenon
<1>0. Len(old) \in Nat
  BY <1>10
<1>2. rpos = LastBlock(Len(old)) /\ rx = Len(old) - rpos
  BY Zenon DEF RevInit
<1>3. /\ rpos \in Nat /\ rx \in Nat
      /\ \E q \in Nat : rpos = q * buf
  BY <1>0, <1>1, <1>2, LastBlockOK, Zenon
<1>4. rpos + rx = Len(old)
  BY <1>0, <1>2, <1>3
<1>5. BlockOK
  BY <1>0, <1>3, <1>4 DEF BlockOK
<1>6. new \in Seq(Nat) /\ Len(new) = 0
  BY <1>10
<1>7. Mirrors(old, new, Len(new))
  BY <1>6 DEF Mirrors
<1>8. Len(new) = Len(old) - (rpos + rx)
  BY <1>0, <1>4, <1>6
<1>. QED
  BY <1>1, <1>5, <1>6, <1>7, <1>8, <1>9, Zenon DEF RevInv, VerdictRight

\* Without an output file the blocks are read in the same way.
LEMMA ReverseNothingKeeps ==
  ASSUME RevInv, ReverseBlock, "new" \notin opened
  PROVE  RevInv'
<1>1. /\ old \in Seq(Nat) /\ new \in Seq(Nat) /\ rpc = "reverse" /\ BlockOK /\ "old" \in opened
      /\ opened \in SUBSET Files /\ opened # Files
  BY BothFiles, Zenon DEF RevInv, ReverseBlock
<1>2. new' = new /\ old' = old /\ opened' = opened /\ verdict' = verdict /\ verdict = ""
  BY Zenon DEF ReverseBlock, RevInv
<1>3. CASE More
  <2>1. NextBlock /\ rpc' = "reverse"
    BY <1>1, <1>3, Zenon DEF ReverseBlock
  <2>2. BlockOK'
    BY <1>1, <1>2, <1>3, <2>1, BlockBefore, Zenon
  <2>. QED
    BY <1>1, <1>2, <2>1, <2>2, Zenon DEF RevInv, VerdictRight
<1>4. CASE ~More
  <2>1. rpc' = "reversed"
    BY <1>4, Zenon DEF ReverseBlock
  <2>. QED
    BY <1>1, <1>2, <2>1, Zenon DEF RevInv, VerdictRight
<1>. QED
  BY <1>3, <1>4, Zenon

LEMMA ReverseBlockKeeps ==
  ASSUME RevInv, ReverseBlock, "new" \in opened
  PROVE  RevInv'
<1>1. /\ old \in Seq(Nat) /\ new \in Seq(Nat) /\ rpc = "reverse" /\ BlockOK
      /\ Len(new) = Len(old) - (rpos + rx) /\ Mirrors(old, new, Len(new))
      /\ "old" \in opened /\ opened \in SUBSET Files
  BY Zenon DEF RevInv, ReverseBlock
<1>2. new' = new \o srev /\ old' = old /\ opened' = opened /\ verdict' = verdict /\ verdict = ""
  BY Zenon DEF ReverseBlock, RevInv
<1>3. /\ srev \in Seq(Nat) /\ Len(srev) = rx
      /\ \A i \in 1 .. rx : srev[i] = old[(rpos + rx) - i + 1]
  BY <1>1, SrevIs, Zenon
<1>4. rpos \in Nat /\ rx \in Nat /\ Len(old) \in Nat /\ Len(new) \in Nat
  BY <1>1 DEF BlockOK
<1>5. /\ new' \in Seq(Nat) /\ Len(new') = Len(new) + rx
      /\ \A i \in 1 .. Len(new) : new'[i] = new[i]
      /\ \A i \in 1 .. rx : new'[Len(new) + i] = srev[i]
  <2>1. /\ new \o srev \in Seq(Nat) /\ Len(new \o srev) = Len(new) + Len(srev)
        /\ \A i \in 1 .. Len(new) : (new \o srev)[i] = new[i]
        /\ \A i \in 1 .. Len(srev) : (new \o srev)[Len(new) + i] = srev[i]
    <3>1. new \in Seq(Nat) /\ srev \in Seq(Nat)
      BY <1>1, <1>3, Zenon
    <3>. QED
      BY <3>1, Joined
  <2>. QED
    BY <1>2, <1>3, <2>1, Zenon
<1>6. Len(new') = Len(old) - rpos
  BY <1>1, <1>4, <1>5
<1>7. Mirrors(old', new', Len(new'))
  <2>1. ASSUME NEW i \in 1 .. Len(new') PROVE new'[i] = old[(Len(old) - i) + 1]
    <3>1. CASE i \in 1 .. Len(new)
      BY <1>1, <1>5, <3>1, Zenon DEF Mirrors
    <3>2. CASE i \notin 1 .. Len(new)
      <4>1. i - Len(new) \in 1 .. rx /\ Len(new) + (i - Len(new)) = i
        BY <1>4, <1>5, <2>1, <3>2
      <4>2. (rpos + rx) - (i - Len(new)) + 1 = (Len(old) - i) + 1
        BY <1>1, <1>4, <2>1
      <4>3. new'[Len(new) + (i - Len(new))] = old[(rpos + rx) - (i - Len(new)) + 1]
        BY <1>3, <1>5, <4>1, Zenon
      <4>. QED
        BY <4>1, <4>2, <4>3, Zenon
    <3>. QED
      BY <3>1, <3>2, Zenon
  <2>. QED
    BY <1>2, <1>5, <2>1, Zenon DEF Mirrors
<1>8. CASE More
  <2>1. NextBlock /\ rpc' = rpc
    BY <1>8 DEF ReverseBlock
  <2>2. BlockOK' /\ rpos' + rx' = rpos
    BY <1>1, <1>2, <1>8, <2>1, BlockBefore, Zenon
  <2>3. Len(new') = Len(old') - (rpos' + rx')
    BY <1>2, <1>6, <2>2, Zenon
  <2>. QED
    BY <1>1, <1>2, <1>5, <1>7, <2>1, <2>2, <2>3, Zenon DEF RevInv, VerdictRight
<1>9. CASE ~More
  <2>1. rpc' = "reversed"
    BY <1>9, Zenon DEF ReverseBlock
  <2>2. rpos = 0
    BY <1>1, <1>9, FirstBlock, Zenon
  <2>7. Len(new') = Len(old)
    BY <1>4, <1>6, <2>2
  <2>3. Len(new') = Len(old')
    BY <1>2, <2>7, Zenon
  <2>4. Mirrors(old', new', Len(old'))
    BY <1>7, <2>3, Zenon
  <2>5. old' \in Seq(Nat) /\ new' \in Seq(Nat)
    BY <1>1, <1>2, <1>5, Zenon
  <2>6. new' = Backwards(old')
    BY <2>3, <2>4, <2>5, MirrorsAll, Zenon
  <2>. QED
    BY <1>1, <1>2, <2>1, <2>5, <2>6, Zenon DEF RevInv, VerdictRight
<1>. QED
  BY <1>8, <1>9, Zenon

LEMMA CompareBeginKeeps ==
  ASSUME RevInv, NEW f \in NewFiles \cup {new}, NEW readable \in BOOLEAN,
         CompareBegin(f, readable)
  PROVE  RevInv'
<1>1. /\ old \in Seq(Nat) /\ old' = old /\ new' = f /\ npos' = 0 /\ opened' \in SUBSET Files
      /\ verdict = ""
  BY Zenon DEF RevInv, CompareBegin
<1>2. new' \in Seq(Nat) /\ Len(old) \in Nat /\ Len(f) \in Nat
  <2>1. old \in Seq(Nat) /\ new \in Seq(Nat) /\ NewFiles \subseteq Seq(Nat)
    BY ReversalAssumption, Zenon DEF RevInv
  <2>2. f \in Seq(Nat)
    BY <2>1, Zenon
  <2>3. Len(old) \in Nat /\ Len(f) \in Nat
    BY <2>1, <2>2
  <2>. QED
    BY <1>1, <2>2, <2>3, Zenon
<1>. DEFINE z == IF "old" \in opened' THEN Len(old) ELSE -1
            zo == IF "new" \in opened' THEN Len(f) ELSE -1
<1>3. CASE ~readable
  BY <1>1, <1>2, <1>3, Zenon DEF CompareBegin, RevInv, VerdictRight
<1>4. CASE readable /\ z # zo
  <2>1. rpc' = "compared" /\ verdict' = "NO"
    BY <1>4, Zenon DEF CompareBegin, SeekEnd
  <2>2. opened' # {}
    BY <1>1, <1>4, BothFiles, Zenon
  <2>3. ASSUME opened' = Files PROVE new' # Backwards(old')
    <3>1. Len(f) # Len(old)
      BY <1>1, <1>4, <2>3, BothFiles, Zenon
    <3>2. f \in Seq(Nat) /\ old \in Seq(Nat)
      BY <1>1, <1>2, Zenon
    <3>. QED
      BY <1>1, <3>1, <3>2, MirrorsAll, Zenon
  <2>. QED
    BY <1>1, <1>2, <2>1, <2>2, <2>3, Zenon DEF RevInv, VerdictRight
<1>5. CASE readable /\ z = zo
  <2>1. rpc' = "compare" /\ rpos' = LastBlock(z) /\ rx' = z - LastBlock(z) /\ verdict' = ""
    BY <1>1, <1>5, Zenon DEF CompareBegin, SeekEnd, Seek
  <2>2. CASE opened' = Files
    <3>1. z = Len(old) /\ Len(f) = Len(old)
      BY <1>1, <1>5, <2>2, BothFiles, Zenon
    <3>. HIDE DEF z, zo
    <3>2. rpos' \in Nat /\ rx' \in Nat /\ \E q \in Nat : rpos' = q * buf
      BY <1>2, <2>1, <3>1, LastBlockOK, Zenon
    <3>6. rx' = Len(old) - rpos'
      BY <2>1, <3>1, Zenon
    <3>7. old' = old /\ npos' = 0 /\ Len(old) \in Nat
      BY <1>1, <1>2, Zenon
    <3>3. rpos' + rx' = Len(old)
      BY <3>2, <3>6, <3>7
    <3>4. BlockOK'
      BY <3>2, <3>3, <3>7 DEF BlockOK
    <3>5. npos' = Len(old') - (rpos' + rx') /\ Mirrors(old', new', npos')
      BY <3>3, <3>7 DEF Mirrors
    <3>. QED
      BY <1>1, <1>2, <2>1, <2>2, <3>1, <3>4, <3>5, Zenon DEF RevInv, VerdictRight
  <2>3. CASE opened' # Files
    <3>1. opened' = {} /\ z = -1
      <4>1. -1 # Len(old) /\ -1 # Len(f)
        BY <1>2
      <4>2. ~("old" \in opened' /\ "new" \in opened')
        BY <1>1, <2>3, BothFiles, Zenon
      <4>3. "old" \notin opened' /\ "new" \notin opened'
        BY <1>5, <4>1, <4>2, Zenon
      <4>. QED
        BY <1>1, <4>3, BothFiles, Zenon
    <3>. HIDE DEF z, zo
    <3>2. rpos' = 0 /\ rx' = -1
      <4>1. LastBlock(-1) = 0 /\ -1 - 0 = -1
        BY DEF LastBlock
      <4>. QED
        BY <2>1, <3>1, <4>1, Zenon
    <3>. QED
      BY <1>1, <1>2, <2>1, <2>3, <3>1, <3>2, Zenon DEF RevInv, VerdictRight
  <2>. QED
    BY <2>2, <2>3, Zenon
<1>. QED
  BY <1>3, <1>4, <1>5, Zenon

\* With neither file open nothing is read, and the loop ends at once.
LEMMA CompareNothingKeeps ==
  ASSUME RevInv, CompareBlock, opened # Files
  PROVE  RevInv'
<1>1. /\ old \in Seq(Nat) /\ new \in Seq(Nat) /\ opened = {} /\ rpos = 0 /\ rx = -1 /\ npos = 0
      /\ UNCHANGED <<old, new, opened>>
  BY Zenon DEF RevInv, CompareBlock
<1>2. ~More
  <2>1. SeekCur = -1 /\ rx = -1
    BY <1>1, Zenon DEF SeekCur
  <2>. QED
    BY <2>1, ReversalAssumption DEF More
<1>3. srev = <<>> /\ str2 = <<>>
  <2>1. \A s \in Seq(Nat), m \in Int : SubSeq(s, m + 1, m + -1) = <<>>
    OBVIOUS
  <2>2. SubSeq(old, rpos + 1, rpos + rx) = <<>> /\ SubSeq(new, npos + 1, npos + rx) = <<>>
    <3>1. 0 \in Int
      OBVIOUS
    <3>. QED
      BY <1>1, <2>1, <3>1, Zenon
  <2>3. Backwards(<<>>) = <<>>
    BY DEF Backwards
  <2>4. srev = <<>>
    BY <2>2, <2>3, Zenon DEF srev
  <2>. QED
    BY <2>2, <2>4, Zenon DEF str2
<1>. QED
  BY <1>1, <1>2, <1>3, Zenon DEF CompareBlock, RevInv, VerdictRight

LEMMA CompareBlockKeeps ==
  ASSUME RevInv, CompareBlock, opened = Files
  PROVE  RevInv'
<1>1. /\ old \in Seq(Nat) /\ new \in Seq(Nat) /\ rpc = "compare" /\ BlockOK
      /\ Len(new) = Len(old) /\ npos = Len(old) - (rpos + rx) /\ Mirrors(old, new, npos)
      /\ "old" \in opened /\ "new" \in opened /\ opened \in SUBSET Files /\ opened # {}
  BY BothFiles, Zenon DEF RevInv, CompareBlock
<1>2. new' = new /\ old' = old /\ npos' = npos + rx /\ opened' = opened /\ verdict = ""
  BY <1>1, Zenon DEF CompareBlock, RevInv
<1>3. /\ srev \in Seq(Nat) /\ Len(srev) = rx
      /\ \A i \in 1 .. rx : srev[i] = old[(rpos + rx) - i + 1]
  BY <1>1, SrevIs, Zenon
<1>4. rpos \in Nat /\ rx \in Nat /\ Len(old) \in Nat /\ npos \in Nat /\ npos + rx <= Len(new)
  BY <1>1 DEF BlockOK
<1>5. /\ str2 \in Seq(Nat) /\ Len(str2) = rx
      /\ \A i \in 1 .. rx : str2[i] = new[npos + i]
  <2>1. new \in Seq(Nat) /\ npos \in Nat /\ rx \in Nat /\ npos + rx <= Len(new)
    BY <1>1, <1>4, Zenon
  <2>. QED
    BY <2>1, Slice, Zenon DEF str2
<1>6. \A i \in 1 .. rx : /\ (rpos + rx) - i + 1 = (Len(old) - (npos + i)) + 1
                         /\ npos + i \in 1 .. Len(old)
  BY <1>1, <1>4
<1>7. CASE srev # str2
  <2>1. rpc' = "compared" /\ verdict' = "NO"
    BY <1>7, Zenon DEF CompareBlock
  <2>2. PICK i \in 1 .. rx : srev[i] # str2[i]
    BY <1>3, <1>5, <1>7, SameLists, Zenon
  <2>3. new[npos + i] # old[(Len(old) - (npos + i)) + 1]
    BY <1>3, <1>5, <1>6, <2>2, Zenon
  <2>4. ~Mirrors(old, new, Len(old))
    BY <1>6, <2>3, Zenon DEF Mirrors
  <2>5. new # Backwards(old)
    BY <1>1, <2>4, MirrorsAll, Zenon
  <2>. QED
    BY <1>1, <1>2, <2>1, <2>5, Zenon DEF RevInv, VerdictRight
<1>8. CASE srev = str2
  <2>1. Mirrors(old, new, npos + rx)
    <3>1. ASSUME NEW j \in 1 .. npos + rx PROVE new[j] = old[(Len(old) - j) + 1]
      <4>1. CASE j \in 1 .. npos
        BY <1>1, <4>1, Zenon DEF Mirrors
      <4>2. CASE j \notin 1 .. npos
        <5>1. j - npos \in 1 .. rx /\ npos + (j - npos) = j
          BY <1>4, <3>1, <4>2
        <5>2. new[npos + (j - npos)] = old[(Len(old) - (npos + (j - npos))) + 1]
          BY <1>3, <1>5, <1>6, <1>8, <5>1, Zenon
        <5>. QED
          BY <5>1, <5>2, Zenon
      <4>. QED
        BY <4>1, <4>2, Zenon
    <3>. QED
      BY <3>1, Zenon DEF Mirrors
  <2>2. CASE More
    <3>1. NextBlock /\ rpc' = rpc /\ verdict' = verdict
      BY <1>8, <2>2, Zenon DEF CompareBlock
    <3>2. BlockOK' /\ rpos' + rx' = rpos
      BY <1>1, <1>2, <2>2, <3>1, BlockBefore, Zenon
    <3>4. npos = Len(old) - (rpos + rx)
      BY <1>1, Zenon
    <3>5. npos + rx = Len(old) - rpos
      BY <1>4, <3>4
    <3>3. npos' = Len(old') - (rpos' + rx')
      BY <1>2, <3>2, <3>5, Zenon
    <3>. QED
      BY <1>1, <1>2, <2>1, <3>1, <3>2, <3>3, Zenon DEF RevInv, VerdictRight
  <2>3. CASE ~More
    <3>1. rpc' = "compared" /\ verdict' = "YES"
      BY <1>8, <2>3, Zenon DEF CompareBlock
    <3>2. rpos = 0
      BY <1>1, <2>3, FirstBlock, Zenon
    <3>3. npos + rx = Len(old)
      BY <1>1, <1>4, <3>2
    <3>4. new = Backwards(old)
      BY <1>1, <2>1, <3>3, MirrorsAll, Zenon
    <3>. QED
      BY <1>1, <1>2, <3>1, <3>4, Zenon DEF RevInv, VerdictRight
  <2>. QED
    BY <2>2, <2>3, Zenon
<1>. QED
  BY <1>7, <1>8, Zenon

LEMMA RevNextInv == RevInv /\ [RevNext]_RevVars => RevInv'
<1>1. ASSUME RevInv, UNCHANGED RevVars PROVE RevInv'
  BY <1>1, Zenon DEF RevInv, RevVars, BlockOK, Mirrors, VerdictRight
<1>. QED
  BY <1>1, ReverseBlockKeeps, ReverseNothingKeeps, CompareBeginKeeps, CompareBlockKeeps,
     CompareNothingKeeps, Zenon DEF RevNext

\* Reversal!VerdictRight: the loop of Q1 (main of Q1.c) writes every block of the
\* file, also the first one and a last one that is not full; the loop of Q2 (main of
\* Q2.c) compares every byte of two open files before it says YES, and with neither
\* open, whose sizes are both -1, it says YES at once.
THEOREM ReversalRight == RevSpec => []VerdictRight
<1>1. RevInv => VerdictRight
  BY Zenon DEF RevInv
<1>. QED
  BY <1>1, RevInitInv, RevNextInv, PTL DEF RevSpec

-----------------------------------------------------------------------------
(* The file transfer. *)

\* The bytes j + 1 to k of a file, as they are sent.
Data(f, j, k) == [i \in 1 .. k - j |-> Message("data", Contents[f][j + i])]

Msgs(a, b) == toServer = a /\ toClient = b

\* What the server does after a command.
Serves(word) == IF word = "get" THEN "name" ELSE IF word = "exit" THEN "gone" ELSE "command"

AtPrompt ==
  /\ cplace = "prompt"
  /\ \/ splace = "command" /\ Msgs(<<>>, <<>>)
     \/ splace = "name" /\ Msgs(<<Control("end")>>, <<>>)

AtReply ==
  LET word == Head(typed).word IN
  /\ cplace = "reply"
  /\ \/ splace = "command" /\ Msgs(<<Control(word)>>, <<>>)
     \/ splace = "name" /\ Msgs(<<Control("end"), Control(word)>>, <<>>)
     \/ splace = Serves(word) /\ Msgs(<<>>, <<Control("ok")>>)

AtNames == cplace = "names" /\ splace = "name" /\ Msgs(<<>>, <<>>)

AtSize ==
  /\ cplace = "size"
  /\ \/ splace = "name" /\ Msgs(<<Message("name", asked)>>, <<>>)
     \/ /\ splace = "ok" /\ Msgs(<<>>, <<Control("size")>>)
        /\ asked \in DOMAIN Contents /\ sending = asked /\ sent = 0
     \/ splace = "name" /\ Msgs(<<>>, <<Control("Invalid")>>) /\ asked \notin DOMAIN Contents

AtFirst ==
  /\ cplace = "first" /\ asked \in DOMAIN Contents /\ sending = asked
  /\ \/ splace = "ok" /\ sent = 0 /\ Msgs(<<Control("ok")>>, <<>>)
     \/ splace = "oki" /\ sent \in 1 .. Len(Contents[asked]) /\ Msgs(<<>>, Data(asked, 0, sent))
     \/ splace = "name" /\ Contents[asked] = <<>> /\ Msgs(<<>>, <<Control("end")>>)

\* The client has the first k bytes.
AtData ==
  /\ cplace = "data" /\ asked \in DOMAIN Contents /\ sending = asked /\ asked \in DOMAIN copy
  /\ \E k \in 1 .. Len(Contents[asked]) :
       /\ copy[asked] = Data(asked, 0, k)
       /\ \/ splace = "oki" /\ sent = k /\ Msgs(<<Control("oki")>>, <<>>)
          \/ /\ splace = "oki" /\ sent \in k + 1 .. Len(Contents[asked])
             /\ Msgs(<<>>, Data(asked, k, sent))
          \/ splace = "name" /\ k = Len(Contents[asked]) /\ Msgs(<<>>, <<Control("end")>>)

AtEnd == cplace = "gone" /\ splace = "gone" /\ Msgs(<<>>, <<>>)

InStep == AtPrompt \/ AtReply \/ AtNames \/ AtSize \/ AtFirst \/ AtData \/ AtEnd

\* A name that is asked for again is not among the ones that are through.
AskedAnew == cplace \in {"size", "first", "data"} => \A e \in ended : e.name # asked

CopiesKnown == \A f \in DOMAIN copy : f \in DOMAIN Contents /\ Contents[f] # <<>>

FtrOK == InStep /\ AskedAnew /\ CopiesKnown /\ ReceivedUnlessMixed

FtrInv == mixed \in BOOLEAN /\ (~mixed => FtrOK)

-----------------------------------------------------------------------------
LEMMA Kinds == \A k, x : Message(k, x).kind = k /\ Message(k, x).arg = x
  BY DEF Message

LEMMA ControlKind == \A k : Control(k).kind = k
  BY Kinds, Zenon DEF Control

LEMMA Shorts ==
  ASSUME NEW a, NEW b
  PROVE  /\ Append(<<>>, a) = <<a>> /\ Append(<<a>>, b) = <<a, b>>
         /\ <<>> \o <<a>> = <<a>>
         /\ Rest(<<a>>, 1) = <<>> /\ Rest(<<a, b>>, 1) = <<b>>
         /\ <<a>>[1] = a /\ <<a, b>>[1] = a
         /\ <<a>> # <<>>
<1>0. Append(<<>>, a) = <<a>>
  OBVIOUS
<1>1. Append(<<a>>, b) = <<a, b>>
  <2>1. <<a, b>> \in Seq({a, b}) /\ Len(<<a, b>>) = 2 /\ <<a, b>>[1] = a /\ <<a, b>>[2] = b
    OBVIOUS
  <2>2. /\ Append(<<a>>, b) \in Seq({a, b}) /\ Len(Append(<<a>>, b)) = 2
        /\ Append(<<a>>, b)[1] = a /\ Append(<<a>>, b)[2] = b
    OBVIOUS
  <2>3. \A i \in 1 .. 2 : i = 1 \/ i = 2
    OBVIOUS
  <2>. QED
    BY <2>1, <2>2, <2>3, SameLists, Zenon
<1>5. <<>> \o <<a>> = <<a>>
  OBVIOUS
<1>2. Rest(<<a>>, 1) = <<>>
  BY DEF Rest
<1>3. Rest(<<a, b>>, 1) = <<b>>
  <2>1. <<a, b>> \in Seq({a, b}) /\ <<b>> \in Seq({a, b}) /\ Len(<<b>>) = 1 /\ Len(<<a, b>>) = 2
    OBVIOUS
  <2>2. 1 + 1 = 2 /\ 1 + 1 <= 2 /\ 1 \in Nat /\ 1 .. 1 = {1} /\ <<b>>[1] = b /\ <<a, b>>[2] = b
    OBVIOUS
  <2>3. /\ SubSeq(<<a, b>>, 1 + 1, 1 + 1) \in Seq({a, b})
        /\ Len(SubSeq(<<a, b>>, 1 + 1, 1 + 1)) = 1
        /\ \A i \in 1 .. 1 : SubSeq(<<a, b>>, 1 + 1, 1 + 1)[i] = <<a, b>>[1 + i]
    <3>1. 1 + 1 <= Len(<<a, b>>)
      BY <2>1, <2>2, Zenon
    <3>. QED
      BY <2>1, <2>2, <3>1, Slice
  <2>4. SubSeq(<<a, b>>, 1 + 1, 1 + 1) = <<b>>
    BY <2>1, <2>2, <2>3, SameLists, Zenon
  <2>. QED
    BY <2>1, <2>2, <2>4, Zenon DEF Rest
<1>4. <<a>>[1] = a /\ <<a, b>>[1] = a /\ <<a>> # <<>>
  BY Zenon
<1>. QED
  BY <1>0, <1>1, <1>2, <1>3, <1>4, <1>5, Zenon

LEMMA Domains ==
  ASSUME NEW a, NEW b
  PROVE  Take(<<>>) = {} /\ Take(<<a>>) = {1} /\ Take(<<a, b>>) = {1, 2}
  BY DEF Take

\* A read of a control message by itself, by the server and by the client.
LEMMA ServerReadsOne ==
  ASSUME mixed \in BOOLEAN, NEW n, ServerReads(n), ~mixed', NEW a, toServer = <<a>>
  PROVE  n = 1 /\ toServer' = <<>> /\ ~mixed /\ toServer[1] = a
<1>1. n = 1
  BY Domains, Zenon DEF ServerReads
<1>. QED
  BY <1>1, Shorts, Zenon DEF ServerReads

LEMMA ClientReadsOne ==
  ASSUME mixed \in BOOLEAN, NEW n, ClientReads(n), ~mixed', NEW a, toClient = <<a>>
  PROVE  n = 1 /\ toClient' = <<>> /\ ~mixed /\ toClient[1] = a
<1>1. n = 1
  BY Domains, Zenon DEF ClientReads
<1>. QED
  BY <1>1, Shorts, Zenon DEF ClientReads

LEMMA ServerReadsFirst ==
  ASSUME mixed \in BOOLEAN, NEW n, ServerReads(n), ~mixed',
         NEW a, NEW b, toServer = <<a, b>>, a.kind # "data"
  PROVE  n = 1 /\ toServer' = <<b>> /\ ~mixed /\ toServer[1] = a
<1>1. OneMessage(toServer, n) /\ ~mixed
  BY Zenon DEF ServerReads
<1>2. toServer[1] = a
  BY Shorts, Zenon
<1>3. n = 1
  BY <1>1, <1>2, Zenon DEF OneMessage
<1>. QED
  BY <1>1, <1>2, <1>3, Shorts, Zenon DEF ServerReads

LEMMA NothingToServe ==
  ASSUME toServer = <<>>, NEW n, ServerReads(n)
  PROVE  FALSE
  BY Domains, Zenon DEF ServerReads

LEMMA NothingToRead ==
  ASSUME toClient = <<>>, NEW n, ClientReads(n)
  PROVE  FALSE
  BY Domains, Zenon DEF ClientReads

-----------------------------------------------------------------------------
(* Bytes of files. *)

LEMMA DataFacts ==
  ASSUME NEW f \in DOMAIN Contents, NEW j \in Nat, NEW k \in Nat, j < k, k <= Len(Contents[f])
  PROVE  /\ Len(Data(f, j, k)) = k - j /\ DOMAIN Data(f, j, k) = 1 .. k - j
         /\ Data(f, j, k) # <<>>
         /\ \A i \in 1 .. k - j : Data(f, j, k)[i] = Message("data", Contents[f][j + i])
         /\ \A i \in 1 .. k - j : Data(f, j, k)[i].kind = "data"
<1>1. k - j \in Nat /\ k - j > 0
  OBVIOUS
<1>2. DOMAIN Data(f, j, k) = 1 .. k - j
  BY Zenon DEF Data
<1>3. \A i \in 1 .. k - j : Data(f, j, k)[i] = Message("data", Contents[f][j + i])
  BY Zenon DEF Data
<1>4. Len(Data(f, j, k)) = k - j
  BY <1>1 DEF Data
<1>5. Data(f, j, k) # <<>>
  BY <1>1, <1>4
<1>6. \A i \in 1 .. k - j : Data(f, j, k)[i].kind = "data"
  <2>1. ASSUME NEW i \in 1 .. k - j PROVE Data(f, j, k)[i].kind = "data"
    <3>1. Message("data", Contents[f][j + i]).kind = "data"
      BY Kinds, Zenon
    <3>. QED
      BY <1>3, <3>1, Zenon
  <2>. QED
    BY <2>1, Zenon
<1>. QED
  BY <1>2, <1>3, <1>4, <1>5, <1>6, Zenon

LEMMA DataJoin ==
  ASSUME NEW f \in DOMAIN Contents, NEW k \in Nat, NEW m \in Nat, k < m, m <= Len(Contents[f])
  PROVE  Data(f, 0, k) \o Data(f, k, m) = Data(f, 0, m)
<1>. DEFINE S == [kind : {"data"}, arg : Nat]
<1>1. ASSUME NEW i \in Nat, NEW j \in Nat, i <= j, j <= Len(Contents[f])
      PROVE  /\ Data(f, i, j) \in Seq(S) /\ Len(Data(f, i, j)) = j - i
             /\ \A x \in 1 .. j - i : Data(f, i, j)[x] = Message("data", Contents[f][i + x])
  <2>1. Contents[f] \in Seq(Nat) /\ j - i \in Nat
    BY <1>1, FileTransferAssumption
  <2>2. \A x \in 1 .. j - i : Contents[f][i + x] \in Nat
    BY <1>1, <2>1
  <2>3. \A y \in Nat : Message("data", y) \in S
    BY Zenon DEF Message
  <2>4. Data(f, i, j) \in [1 .. j - i -> S]
    BY <2>2, <2>3, Zenon DEF Data
  <2>. HIDE DEF S
  <2>5. Data(f, i, j) \in Seq(S) /\ Len(Data(f, i, j)) = j - i
    <3>. DEFINE d == Data(f, i, j)
                len == j - i
    <3>1. d \in [1 .. len -> S] /\ len \in Nat
      BY <2>1, <2>4, Zenon
    <3>. HIDE DEF d, len
    <3>2. d \in Seq(S) /\ Len(d) = len
      BY <3>1
    <3>. QED
      BY <3>2, Zenon DEF d, len
  <2>. QED
    BY <2>5, Zenon DEF Data
<1>. HIDE DEF S
<1>2. 0 \in Nat /\ 0 <= k /\ k <= m /\ 0 <= m /\ k <= Len(Contents[f]) /\ k - 0 = k /\ m - 0 = m
  <2>1. Len(Contents[f]) \in Nat
    BY FileTransferAssumption
  <2>. QED
    BY <2>1
<1>. DEFINE a == Data(f, 0, k)
            b == Data(f, k, m)
            c == Data(f, 0, m)
<1>3. /\ a \in Seq(S) /\ Len(a) = k /\ \A x \in 1 .. k : a[x] = Message("data", Contents[f][0 + x])
      /\ b \in Seq(S) /\ Len(b) = m - k
      /\ \A x \in 1 .. m - k : b[x] = Message("data", Contents[f][k + x])
      /\ c \in Seq(S) /\ Len(c) = m /\ \A x \in 1 .. m : c[x] = Message("data", Contents[f][0 + x])
  BY <1>1, <1>2, Zenon
<1>. HIDE DEF a, b, c
<1>4. /\ a \o b \in Seq(S) /\ Len(a \o b) = Len(a) + Len(b)
      /\ \A x \in 1 .. Len(a) : (a \o b)[x] = a[x]
      /\ \A x \in 1 .. Len(b) : (a \o b)[Len(a) + x] = b[x]
  <2>1. a \in Seq(S) /\ b \in Seq(S)
    BY <1>3, Zenon
  <2>. QED
    BY <2>1, Joined
<1>5. Len(a \o b) = m
  BY <1>3, <1>4
<1>6. ASSUME NEW x \in 1 .. m PROVE (a \o b)[x] = c[x]
  <2>0. x \in Nat /\ 0 + x = x
    OBVIOUS
  <2>1. CASE x <= k
    <3>1. x \in 1 .. k
      BY <2>1
    <3>. QED
      BY <1>3, <1>4, <3>1, Zenon
  <2>2. CASE ~(x <= k)
    <3>. DEFINE y == x - k
    <3>1. y \in 1 .. m - k /\ k + y = x
      BY <2>2
    <3>2. (a \o b)[k + y] = Message("data", Contents[f][k + y])
      BY <1>3, <1>4, <3>1, Zenon
    <3>. QED
      BY <1>3, <2>0, <3>1, <3>2, Zenon
  <2>. QED
    BY <2>1, <2>2, Zenon
<1>7. a \o b = c
  BY <1>3, <1>4, <1>5, <1>6, SameLists, Zenon
<1>. QED
  BY <1>7, Zenon DEF a, b, c

\* A read that takes all of a chunk.
LEMMA ClientReadsData ==
  ASSUME mixed \in BOOLEAN, NEW n \in Nat, ClientReads(n), ~mixed',
         NEW f \in DOMAIN Contents, NEW j \in Nat, NEW k \in Nat, j < k, k <= Len(Contents[f]),
         toClient = Data(f, j, k)
  PROVE  First(toClient, n) = Data(f, j, k) /\ toClient' = <<>> /\ ~mixed /\ toClient[1].kind = "data"
<1>. DEFINE l == k - j
<1>1. /\ l \in Nat /\ Len(toClient) = l /\ DOMAIN toClient = 1 .. l
      /\ \A i \in 1 .. l : toClient[i].kind = "data"
  <2>1. l \in Nat
    OBVIOUS
  <2>. QED
    BY <2>1, DataFacts, Zenon
<1>. HIDE DEF l
<1>2. OneMessage(toClient, n) /\ ~mixed /\ n \in DOMAIN toClient /\ toClient' = Rest(toClient, n)
  BY Zenon DEF ClientReads, Take
<1>3. 1 \in 1 .. l /\ n \in 1 .. l
  BY <1>1, <1>2
<1>4. n < l => n + 1 \in 1 .. l
  BY <1>1, <1>3
<1>5. ~(n < l)
  BY <1>1, <1>2, <1>3, <1>4, Zenon DEF OneMessage
<1>6. n = l
  BY <1>1, <1>3, <1>5
<1>. DEFINE Bytes == [kind : {"data"}, arg : Nat]
<1>7. toClient \in Seq(Bytes)
  <2>1. \A i \in 1 .. l : toClient[i] \in Bytes
    <3>1. ASSUME NEW i \in 1 .. k - j PROVE toClient[i] \in Bytes
      <4>1. Contents[f][j + i] \in Nat
        BY <3>1, FileTransferAssumption
      <4>2. toClient[i] = Message("data", Contents[f][j + i])
        BY <3>1, DataFacts, Zenon
      <4>. QED
        BY <4>1, <4>2 DEF Message, Bytes
    <3>. QED
      BY <3>1, Zenon DEF l
  <2>2. toClient = [i \in 1 .. l |-> toClient[i]]
    BY <1>1, Zenon DEF Data
  <2>3. toClient \in [1 .. l -> Bytes]
    BY <2>1, <2>2, Zenon
  <2>. HIDE DEF Bytes
  <2>. QED
    BY <1>1, <2>3
<1>. HIDE DEF Bytes
<1>8. First(toClient, n) = toClient /\ Rest(toClient, n) = <<>>
  BY <1>1, <1>6, <1>7 DEF First, Rest
<1>. QED
  BY <1>1, <1>2, <1>3, <1>8, Zenon

\* The next chunk is empty only at the end of the file.
LEMMA ChunkFacts ==
  ASSUME NEW f \in DOMAIN Contents, NEW k \in 0 .. Len(Contents[f])
  PROVE  \E m \in k .. Len(Contents[f]) :
           /\ Len(Chunk(f, k)) = m - k
           /\ (Chunk(f, k) = <<>>) <=> (k = Len(Contents[f]))
           /\ Chunk(f, k) # <<>> => k < m
           /\ [i \in DOMAIN Chunk(f, k) |-> Message("data", Chunk(f, k)[i])] = Data(f, k, m)
<1>. DEFINE n == Len(Contents[f])
            m == IF k + CHUNK <= n THEN k + CHUNK ELSE n
            c == Chunk(f, k)
<1>1. Contents[f] \in Seq(Nat) /\ n \in Nat /\ CHUNK \in Nat \ {0}
  BY FileTransferAssumption
<1>2. m \in k .. n /\ m - k \in Nat /\ k \in Nat /\ k + (m - k) = m /\ (m = k <=> k = n)
  BY <1>1
<1>4. c = SubSeq(Contents[f], k + 1, k + (m - k))
  BY <1>2, Zenon DEF Chunk
<1>. HIDE DEF m
<1>5. c \in Seq(Nat) /\ Len(c) = m - k /\ \A i \in 1 .. m - k : c[i] = Contents[f][k + i]
  <2>1. k + (m - k) <= Len(Contents[f])
    BY <1>1, <1>2
  <2>. QED
    <3>1. /\ SubSeq(Contents[f], k + 1, k + (m - k)) \in Seq(Nat)
          /\ Len(SubSeq(Contents[f], k + 1, k + (m - k))) = m - k
          /\ \A i \in 1 .. m - k : SubSeq(Contents[f], k + 1, k + (m - k))[i] = Contents[f][k + i]
      BY <1>1, <1>2, <2>1, Slice
    <3>. QED
      BY <1>4, <3>1, Zenon
<1>. HIDE DEF c, n
<1>6. DOMAIN c = 1 .. m - k
  BY <1>5
<1>7. [i \in DOMAIN c |-> Message("data", c[i])] = Data(f, k, m)
  BY <1>5, <1>6, Zenon DEF Data
<1>8. (c = <<>>) <=> (m - k = 0)
  BY <1>5
<1>9. (c = <<>> <=> k = n) /\ (c # <<>> => k < m)
  BY <1>1, <1>2, <1>8
<1>. QED
  BY <1>2, <1>5, <1>7, <1>9, Zenon DEF c, n

-----------------------------------------------------------------------------
(* The steps of the client. *)

LEMMA Phase ==
  ASSUME InStep
  PROVE  /\ cplace = "prompt" => AtPrompt
         /\ cplace = "reply" => AtReply
         /\ cplace = "names" => AtNames
         /\ cplace = "size" => AtSize
         /\ cplace = "first" => AtFirst
         /\ cplace = "data" => AtData
         /\ cplace = "gone" => AtEnd
  BY Zenon DEF InStep, AtPrompt, AtReply, AtNames, AtSize, AtFirst, AtData, AtEnd

\* What is through stays as it is while nothing is written.
LEMMA StillReceived ==
  ASSUME FtrOK, ~mixed, ~mixed', ended' \subseteq ended, copy' = copy
  PROVE  CopiesKnown' /\ ReceivedUnlessMixed'
  BY Zenon DEF FtrOK, CopiesKnown, ReceivedUnlessMixed

LEMMA CommandKeeps ==
  ASSUME FtrInv, Command, ~mixed'
  PROVE  FtrOK'
<1>1. ~mixed /\ FtrOK /\ AtPrompt
  BY Phase, Zenon DEF Command, FtrInv, FtrOK
<1>2. /\ toServer' = Append(toServer, Control(Head(typed).word))
      /\ cplace' = "reply" /\ ended' = {} /\ typed' = typed /\ copy' = copy
      /\ toClient' = toClient /\ splace' = splace
  BY Zenon DEF Command, ClientOnly
<1>3. AtReply'
  BY <1>1, <1>2, Shorts, ZenonT(60) DEF AtPrompt, AtReply, Msgs
<1>4. AskedAnew' /\ ended' \subseteq ended
  BY <1>2, Zenon DEF AskedAnew
<1>. QED
  BY <1>1, <1>2, <1>3, <1>4, StillReceived, Zenon DEF FtrOK, InStep

LEMMA ReplyKeeps ==
  ASSUME FtrInv, Reply, ~mixed'
  PROVE  FtrOK'
<1>. DEFINE word == Head(typed).word
<1>1. PICK n \in 1 .. Len(toClient) :
        /\ cplace = "reply" /\ ClientReads(n)
        /\ cplace' = CASE word = "exit" -> "gone" [] word = "get" -> "names" [] OTHER -> "prompt"
        /\ UNCHANGED <<names, asked, copy, ended, toServer>> /\ ClientOnly
  BY Zenon DEF Reply
<1>2. ~mixed /\ mixed \in BOOLEAN
  BY <1>1, Zenon DEF ClientReads, FtrInv
<1>3. FtrOK /\ AtReply
  BY <1>1, <1>2, Phase, Zenon DEF FtrInv, FtrOK
<1>4. splace = Serves(word) /\ toServer = <<>> /\ toClient = <<Control("ok")>>
  BY <1>1, <1>3, NothingToRead, Zenon DEF AtReply, Msgs
<1>5. toClient' = <<>>
  BY <1>1, <1>2, <1>4, ClientReadsOne, Zenon
<1>. HIDE DEF word
<1>6. Msgs(<<>>, <<>>)' /\ splace' = Serves(word)
  BY <1>1, <1>4, <1>5, Zenon DEF Msgs, ClientOnly
<1>7. \/ cplace' = "gone" /\ splace' = "gone"
      \/ cplace' = "names" /\ splace' = "name"
      \/ cplace' = "prompt" /\ splace' = "command"
  <2>1. CASE word = "exit"
    BY <1>1, <1>6, <2>1 DEF Serves
  <2>2. CASE word = "get"
    BY <1>1, <1>6, <2>2 DEF Serves
  <2>3. CASE word # "exit" /\ word # "get"
    BY <1>1, <1>6, <2>3, Zenon DEF Serves
  <2>. QED
    BY <2>1, <2>2, <2>3, Zenon
<1>8. InStep'
  BY <1>6, <1>7, Zenon DEF InStep, AtEnd, AtNames, AtPrompt
<1>9. AskedAnew' /\ ended' \subseteq ended /\ copy' = copy
  BY <1>1, <1>7, Zenon DEF AskedAnew
<1>. QED
  BY <1>2, <1>3, <1>8, <1>9, StillReceived, Zenon DEF FtrOK

LEMMA AskNameKeeps ==
  ASSUME FtrInv, AskName, ~mixed'
  PROVE  FtrOK'
<1>1. ~mixed /\ FtrOK /\ AtNames
  BY Phase, Zenon DEF AskName, FtrInv, FtrOK
<1>2. /\ toServer' = Append(toServer, Message("name", Head(names)))
      /\ asked' = Head(names) /\ ended' = {e \in ended : e.name # Head(names)}
      /\ cplace' = "size" /\ copy' = copy /\ toClient' = toClient /\ splace' = splace
  BY Zenon DEF AskName, ClientOnly
<1>3. AtSize'
  BY <1>1, <1>2, Shorts, Zenon DEF AtNames, AtSize, Msgs
<1>4. AskedAnew' /\ ended' \subseteq ended
  BY <1>2, Zenon DEF AskedAnew
<1>. QED
  BY <1>1, <1>2, <1>3, <1>4, StillReceived, Zenon DEF FtrOK, InStep

LEMMA EndOfNamesKeeps ==
  ASSUME FtrInv, EndOfNames, ~mixed'
  PROVE  FtrOK'
<1>1. ~mixed /\ FtrOK /\ AtNames
  BY Phase, Zenon DEF EndOfNames, FtrInv, FtrOK
<1>2. /\ toServer' = Append(toServer, Control("end"))
      /\ cplace' = "prompt" /\ copy' = copy /\ toClient' = toClient /\ splace' = splace
      /\ ended' = ended
  BY Zenon DEF EndOfNames, ClientOnly
<1>3. AtPrompt'
  BY <1>1, <1>2, Shorts, Zenon DEF AtNames, AtPrompt, Msgs
<1>4. AskedAnew' /\ ended' \subseteq ended
  BY <1>2, Zenon DEF AskedAnew
<1>. QED
  BY <1>1, <1>2, <1>3, <1>4, StillReceived, Zenon DEF FtrOK, InStep

LEMMA ReadSizeKeeps ==
  ASSUME FtrInv, ReadSize, ~mixed'
  PROVE  FtrOK'
<1>1. PICK n \in 1 .. Len(toClient) :
        /\ cplace = "size" /\ ClientReads(n)
        /\ IF toClient[1].kind = "Invalid"
           THEN /\ cplace' = "names" /\ ended' = ended \cup {[name |-> asked, ok |-> FALSE]}
                /\ UNCHANGED toServer
           ELSE /\ cplace' = "first" /\ toServer' = Append(toServer, Control("ok"))
                /\ UNCHANGED ended
        /\ UNCHANGED <<typed, names, asked, copy>> /\ ClientOnly
  BY Zenon DEF ReadSize
<1>2. ~mixed /\ mixed \in BOOLEAN
  BY <1>1, Zenon DEF ClientReads, FtrInv
<1>3. FtrOK /\ AtSize
  BY <1>1, <1>2, Phase, Zenon DEF FtrInv, FtrOK
<1>4. /\ asked' = asked /\ copy' = copy /\ splace' = splace /\ sending' = sending /\ sent' = sent
  BY <1>1, Zenon DEF ClientOnly
<1>5. CASE toClient = <<Control("Invalid")>>
  <2>1. splace = "name" /\ toServer = <<>> /\ asked \notin DOMAIN Contents
    <3>1. Control("Invalid") # Control("size")
      BY ControlKind
    <3>2. <<Control("Invalid")>> # <<Control("size")>> /\ <<Control("Invalid")>> # <<>>
      BY <3>1, Zenon
    <3>. QED
      BY <1>3, <1>5, <3>2, Zenon DEF AtSize, Msgs
  <2>2. toClient' = <<>> /\ toClient[1].kind = "Invalid"
    BY <1>1, <1>2, <1>5, ClientReadsOne, ControlKind, Zenon
  <2>3. cplace' = "names" /\ ended' = ended \cup {[name |-> asked, ok |-> FALSE]} /\ toServer' = toServer
    BY <1>1, <2>2, Zenon
  <2>4. AtNames'
    BY <1>4, <2>1, <2>2, <2>3, Zenon DEF AtNames, Msgs
  <2>5. [name |-> asked, ok |-> FALSE].name = asked /\ [name |-> asked, ok |-> FALSE].ok = FALSE
    BY Zenon
  <2>6. ReceivedUnlessMixed'
    <3>1. ASSUME NEW x \in ended'
          PROVE  /\ x.ok = (x.name \in DOMAIN Contents)
                 /\ x.ok /\ Contents[x.name] # <<>> =>
                      x.name \in DOMAIN copy /\ copy[x.name] = Holds(x.name)
                 /\ x.ok /\ Contents[x.name] = <<>> => x.name \notin DOMAIN copy
      <4>1. CASE x \in ended
        BY <1>2, <1>3, <4>1, Zenon DEF FtrOK, ReceivedUnlessMixed
      <4>2. CASE x = [name |-> asked, ok |-> FALSE]
        <5>1. x.ok = FALSE /\ x.name \notin DOMAIN Contents
          BY <2>1, <2>5, <4>2, Zenon
        <5>2. (x.name \in DOMAIN Contents) = FALSE /\ ~x.ok
          BY <5>1
        <5>. QED
          BY <5>1, <5>2, Zenon
      <4>. QED
        BY <2>3, <3>1, <4>1, <4>2, Zenon
    <3>. QED
      BY <1>4, <3>1, Zenon DEF ReceivedUnlessMixed
  <2>7. CopiesKnown' /\ AskedAnew'
    BY <1>3, <1>4, <2>3, Zenon DEF FtrOK, CopiesKnown, AskedAnew
  <2>. QED
    BY <2>4, <2>6, <2>7, Zenon DEF FtrOK, InStep
<1>6. CASE toClient # <<Control("Invalid")>>
  <2>1. /\ splace = "ok" /\ toServer = <<>> /\ toClient = <<Control("size")>>
        /\ asked \in DOMAIN Contents /\ sending = asked /\ sent = 0
    BY <1>1, <1>3, <1>6, NothingToRead, Zenon DEF AtSize, Msgs
  <2>2. toClient' = <<>> /\ toClient[1].kind = "size"
    BY <1>1, <1>2, <2>1, ClientReadsOne, ControlKind, Zenon
  <2>3. cplace' = "first" /\ toServer' = Append(toServer, Control("ok")) /\ ended' = ended
    BY <1>1, <2>2, Zenon
  <2>4. AtFirst'
    BY <1>4, <2>1, <2>2, <2>3, Shorts, Zenon DEF AtFirst, Msgs
  <2>5. AskedAnew' /\ ended' \subseteq ended
    BY <1>1, <1>3, <1>4, <2>3, Zenon DEF FtrOK, AskedAnew
  <2>. QED
    BY <1>2, <1>3, <1>4, <2>4, <2>5, StillReceived, Zenon DEF FtrOK, InStep
<1>. QED
  BY <1>5, <1>6, Zenon

\* A file that is through is added to the ones that are.
LEMMA Through ==
  ASSUME FtrOK, ~mixed, ~mixed', asked \in DOMAIN Contents, copy' = copy,
         ended' = ended \cup {[name |-> asked, ok |-> TRUE]},
         Contents[asked] # <<>> => asked \in DOMAIN copy /\ copy[asked] = Holds(asked),
         Contents[asked] = <<>> => asked \notin DOMAIN copy
  PROVE  CopiesKnown' /\ ReceivedUnlessMixed'
<1>1. CopiesKnown'
  BY Zenon DEF FtrOK, CopiesKnown
<1>2. ASSUME NEW x \in ended'
      PROVE  /\ x.ok = (x.name \in DOMAIN Contents)
             /\ x.ok /\ Contents[x.name] # <<>> =>
                  x.name \in DOMAIN copy /\ copy[x.name] = Holds(x.name)
             /\ x.ok /\ Contents[x.name] = <<>> => x.name \notin DOMAIN copy
  <2>1. CASE x \in ended
    BY <2>1, Zenon DEF FtrOK, ReceivedUnlessMixed
  <2>2. CASE x = [name |-> asked, ok |-> TRUE]
    <3>1. [name |-> asked, ok |-> TRUE].name = asked /\ [name |-> asked, ok |-> TRUE].ok = TRUE
      BY Zenon
    <3>2. x.ok = TRUE /\ x.name = asked
      BY <2>2, <3>1, Zenon
    <3>3. (asked \in DOMAIN Contents) = TRUE
      BY Zenon
    <3>4. x.ok = (x.name \in DOMAIN Contents)
      BY <3>2, <3>3, Zenon
    <3>. QED
      BY <3>2, <3>4, Zenon
  <2>. QED
    BY <1>2, <2>1, <2>2, Zenon
<1>. QED
  BY <1>1, <1>2, Zenon DEF ReceivedUnlessMixed

\* The client writes bytes of the file it asked for, which is not among the ones
\* that are through.
LEMMA WritesAsked ==
  ASSUME FtrOK, ~mixed, ~mixed', asked \in DOMAIN Contents, Contents[asked] # <<>>, ended' = ended,
         cplace \in {"first", "data"}, asked' = asked, NEW bytes,
         copy' = [f \in DOMAIN copy \cup {asked} |-> IF f = asked THEN bytes ELSE copy[f]]
  PROVE  CopiesKnown' /\ ReceivedUnlessMixed' /\ AskedAnew'
<1>1. /\ DOMAIN copy' = DOMAIN copy \cup {asked}
      /\ \A f \in DOMAIN copy : f # asked => copy'[f] = copy[f]
  BY Zenon
<1>2. \A x \in ended : x.name # asked
  BY Zenon DEF FtrOK, AskedAnew
<1>3. CopiesKnown' /\ AskedAnew'
  BY <1>1, <1>2, Zenon DEF FtrOK, CopiesKnown, AskedAnew
<1>4. ReceivedUnlessMixed'
  BY <1>1, <1>2, Zenon DEF FtrOK, ReceivedUnlessMixed
<1>. QED
  BY <1>3, <1>4, Zenon

LEMMA WholeFile ==
  ASSUME NEW f \in DOMAIN Contents
  PROVE  Data(f, 0, Len(Contents[f])) = Holds(f)
<1>1. Contents[f] \in Seq(Nat)
  BY FileTransferAssumption, Zenon
<1>2. DOMAIN Contents[f] = 1 .. Len(Contents[f]) /\ Len(Contents[f]) - 0 = Len(Contents[f])
  BY <1>1
<1>3. \A i \in 1 .. Len(Contents[f]) : 0 + i = i
  BY <1>1
<1>. QED
  BY <1>2, <1>3, Zenon DEF Data, Holds

LEMMA NotData == Control("end").kind = "end" /\ \A a : <<a>> # <<>>
  BY ControlKind, Shorts, Zenon

LEMMA ReadDataKeeps ==
  ASSUME FtrInv, ReadData, ~mixed'
  PROVE  FtrOK'
<1>1. PICK n \in 1 .. Len(toClient) :
        /\ cplace \in {"first", "data"} /\ ClientReads(n)
        /\ IF toClient[1].kind \in {"Invalid", "end"}
           THEN /\ cplace' = "names" /\ ended' = ended \cup {[name |-> asked, ok |-> TRUE]}
                /\ UNCHANGED <<toServer, copy>>
           ELSE /\ cplace' = "data" /\ toServer' = toServer \o Ack
                /\ copy' = [f \in DOMAIN copy \cup {asked} |->
                              IF f = asked THEN Written(f, First(toClient, n)) ELSE copy[f]]
                /\ UNCHANGED ended
        /\ UNCHANGED <<typed, names, asked>> /\ ClientOnly
  BY Zenon DEF ReadData
<1>2. ~mixed /\ mixed \in BOOLEAN
  BY <1>1, Zenon DEF ClientReads, FtrInv
<1>3. FtrOK /\ (cplace = "first" => AtFirst) /\ (cplace = "data" => AtData)
  BY <1>2, Phase, Zenon DEF FtrInv, FtrOK
<1>4. asked' = asked /\ splace' = splace /\ sending' = sending /\ sent' = sent
  BY <1>1, Zenon DEF ClientOnly
<1>5. asked \in DOMAIN Contents /\ sending = asked
  BY <1>1, <1>3, Zenon DEF AtFirst, AtData
<1>. DEFINE size == Len(Contents[asked])
<1>6. n \in Nat /\ size \in Nat /\ Contents[asked] \in Seq(Nat)
  BY <1>1, <1>5, FileTransferAssumption
<1>7. ASSUME NEW j \in Nat, j < sent, sent \in Nat, sent <= size, toClient = Data(asked, j, sent),
             toServer = <<>>, splace = "oki",
             \/ cplace = "first" /\ j = 0
             \/ cplace = "data" /\ 0 < j /\ copy[asked] = Data(asked, 0, j)
      PROVE  FtrOK'
  <2>1. /\ First(toClient, n) = Data(asked, j, sent) /\ toClient' = <<>>
        /\ toClient[1].kind = "data"
    BY <1>1, <1>2, <1>5, <1>6, <1>7, ClientReadsData, ZenonT(60)
  <2>2. /\ cplace' = "data" /\ toServer' = toServer \o Ack /\ ended' = ended
        /\ copy' = [f \in DOMAIN copy \cup {asked} |->
                      IF f = asked THEN Written(f, First(toClient, n)) ELSE copy[f]]
    BY <1>1, <2>1, Zenon
  <2>3. Written(asked, First(toClient, n)) = Data(asked, 0, sent)
    <3>1. CASE cplace = "first"
      BY <1>7, <2>1, <3>1, Zenon DEF Written
    <3>2. CASE cplace = "data"
      BY <1>5, <1>7, <2>1, <3>2, DataJoin, Zenon DEF Written
    <3>. QED
      BY <1>1, <3>1, <3>2, Zenon
  <2>4. copy' = [f \in DOMAIN copy \cup {asked} |->
                   IF f = asked THEN Data(asked, 0, sent) ELSE copy[f]]
    BY <2>2, <2>3, Zenon
  <2>5. Contents[asked] # <<>> /\ sent \in 1 .. size
    BY <1>6, <1>7
  <2>6. CopiesKnown' /\ ReceivedUnlessMixed' /\ AskedAnew'
    BY <1>1, <1>2, <1>3, <1>4, <1>5, <2>2, <2>4, <2>5, WritesAsked, Zenon
  <2>7. toServer' = <<Control("oki")>>
    BY <1>7, <2>2, Shorts, Zenon DEF Ack
  <2>8. asked' \in DOMAIN copy' /\ copy'[asked'] = Data(asked, 0, sent)
    BY <1>4, <2>4, Zenon
  <2>9. AtData'
    BY <1>4, <1>5, <1>7, <2>1, <2>2, <2>5, <2>7, <2>8, Zenon DEF AtData, Msgs
  <2>. QED
    BY <2>6, <2>9, Zenon DEF FtrOK, InStep
<1>8. ASSUME toClient = <<Control("end")>>, toServer = <<>>, splace = "name",
             \/ cplace = "first" /\ Contents[asked] = <<>>
             \/ cplace = "data" /\ size > 0 /\ asked \in DOMAIN copy /\ copy[asked] = Data(asked, 0, size)
      PROVE  FtrOK'
  <2>1. toClient' = <<>> /\ toClient[1].kind = "end"
    BY <1>1, <1>2, <1>8, ClientReadsOne, NotData, Zenon
  <2>2. /\ cplace' = "names" /\ ended' = ended \cup {[name |-> asked, ok |-> TRUE]}
        /\ toServer' = toServer /\ copy' = copy
    BY <1>1, <2>1, Zenon
  <2>3. AtNames'
    BY <1>4, <1>8, <2>1, <2>2, Zenon DEF AtNames, Msgs
  <2>4. AskedAnew'
    BY <2>2, Zenon DEF AskedAnew
  <2>5. Contents[asked] = <<>> => asked \notin DOMAIN copy
    BY <1>3, Zenon DEF FtrOK, CopiesKnown
  <2>6. Contents[asked] # <<>> => asked \in DOMAIN copy /\ copy[asked] = Holds(asked)
    BY <1>5, <1>8, WholeFile, Zenon
  <2>7. CopiesKnown' /\ ReceivedUnlessMixed'
    BY <1>2, <1>3, <1>5, <2>2, <2>5, <2>6, Through, Zenon
  <2>. QED
    BY <2>3, <2>4, <2>7, Zenon DEF FtrOK, InStep
<1>9. toClient # <<>>
  BY <1>1, NothingToRead, Zenon
<1>10. CASE cplace = "first"
  <2>1. CASE splace = "oki" /\ sent \in 1 .. size /\ Msgs(<<>>, Data(asked, 0, sent))
    <3>1. 0 \in Nat /\ 0 < sent /\ sent \in Nat /\ sent <= size
      BY <1>6, <2>1
    <3>. QED
      BY <1>7, <1>10, <2>1, <3>1, Zenon DEF Msgs
  <2>2. CASE splace = "name" /\ Contents[asked] = <<>> /\ Msgs(<<>>, <<Control("end")>>)
    BY <1>8, <1>10, <2>2, Zenon DEF Msgs
  <2>. QED
    BY <1>3, <1>9, <1>10, <2>1, <2>2, Zenon DEF AtFirst, Msgs
<1>11. CASE cplace = "data"
  <2>1. PICK k \in 1 .. size :
          /\ copy[asked] = Data(asked, 0, k)
          /\ \/ splace = "oki" /\ sent = k /\ Msgs(<<Control("oki")>>, <<>>)
             \/ splace = "oki" /\ sent \in k + 1 .. size /\ Msgs(<<>>, Data(asked, k, sent))
             \/ splace = "name" /\ k = size /\ Msgs(<<>>, <<Control("end")>>)
    BY <1>3, <1>11, Zenon DEF AtData
  <2>2. k \in Nat /\ 0 < k
    BY <1>6
  <2>3. CASE splace = "oki" /\ sent \in k + 1 .. size /\ Msgs(<<>>, Data(asked, k, sent))
    <3>1. k < sent /\ sent \in Nat /\ sent <= size
      BY <1>6, <2>2, <2>3
    <3>. QED
      BY <1>7, <1>11, <2>1, <2>2, <2>3, <3>1, Zenon DEF Msgs
  <2>4. CASE splace = "name" /\ k = size /\ Msgs(<<>>, <<Control("end")>>)
    <3>1. size > 0
      BY <2>2, <2>4
    <3>2. asked \in DOMAIN copy
      BY <1>3, <1>11, Zenon DEF AtData
    <3>. QED
      BY <1>8, <1>11, <2>1, <2>4, <3>1, <3>2, Zenon DEF Msgs
  <2>. QED
    BY <1>9, <2>1, <2>3, <2>4, Zenon DEF Msgs
<1>. QED
  BY <1>1, <1>10, <1>11, Zenon

-----------------------------------------------------------------------------
(* The steps of the server. *)

\* What the server does leaves the client's files and what is through alone.
LEMMA ServerKeeps ==
  ASSUME FtrOK, ~mixed, ~mixed', ServerOnly, InStep'
  PROVE  FtrOK'
<1>1. ended' = ended /\ copy' = copy /\ cplace' = cplace /\ asked' = asked
  BY Zenon DEF ServerOnly
<1>2. CopiesKnown' /\ ReceivedUnlessMixed'
  BY <1>1, StillReceived, Zenon
<1>3. AskedAnew'
  BY <1>1, Zenon DEF FtrOK, AskedAnew
<1>. QED
  BY <1>2, <1>3, Zenon DEF FtrOK

LEMMA ServeCommandKeeps ==
  ASSUME FtrInv, ServeCommand, ~mixed'
  PROVE  FtrOK'
<1>1. PICK n \in 1 .. Len(toServer) :
        /\ splace = "command" /\ ServerReads(n)
        /\ toClient' = Append(toClient, Control("ok"))
        /\ splace' = CASE n = 1 /\ toServer[1].kind = "get" -> "name"
                      [] n = 1 /\ toServer[1].kind = "exit" -> "gone"
                      [] OTHER -> "command"
        /\ ServerOnly
  BY Zenon DEF ServeCommand
<1>2. ~mixed /\ mixed \in BOOLEAN
  BY <1>1, Zenon DEF ServerReads, FtrInv
<1>3. FtrOK /\ InStep
  BY <1>2, Zenon DEF FtrInv, FtrOK
<1>4. toServer # <<>>
  BY <1>1, NothingToServe, Zenon
<1>. DEFINE word == Head(typed).word
<1>5. cplace = "reply" /\ Msgs(<<Control(word)>>, <<>>)
  BY <1>1, <1>3, <1>4, Zenon
     DEF InStep, AtPrompt, AtReply, AtNames, AtSize, AtFirst, AtData, AtEnd, Msgs
<1>6. n = 1 /\ toServer' = <<>> /\ toServer[1].kind = word
  BY <1>1, <1>2, <1>5, ServerReadsOne, ControlKind, Zenon DEF Msgs
<1>7. toClient' = <<Control("ok")>>
  BY <1>1, <1>5, Shorts, Zenon DEF Msgs
<1>8. splace' = Serves(word)
  <2>1. CASE word = "get"
    BY <1>1, <1>6, <2>1, Zenon DEF Serves
  <2>2. CASE word = "exit"
    BY <1>1, <1>6, <2>2, Zenon DEF Serves
  <2>3. CASE word # "get" /\ word # "exit"
    BY <1>1, <1>6, <2>3, Zenon DEF Serves
  <2>. QED
    BY <2>1, <2>2, <2>3, Zenon
<1>9. typed' = typed /\ cplace' = cplace
  BY <1>1, Zenon DEF ServerOnly
<1>10. InStep'
  BY <1>5, <1>6, <1>7, <1>8, <1>9, Zenon DEF InStep, AtReply, Msgs
<1>. QED
  BY <1>1, <1>2, <1>3, <1>10, ServerKeeps, Zenon

LEMMA ServeNameKeeps ==
  ASSUME FtrInv, ServeName, ~mixed'
  PROVE  FtrOK'
<1>1. PICK n \in 1 .. Len(toServer) :
        /\ splace = "name" /\ ServerReads(n)
        /\ IF toServer[1].kind = "end"
           THEN splace' = "command" /\ UNCHANGED <<toClient, sending, sent>>
           ELSE IF toServer[1].kind = "name" /\ toServer[1].arg \in DOMAIN Contents
           THEN /\ toClient' = Append(toClient, Control("size"))
                /\ splace' = "ok" /\ sending' = toServer[1].arg /\ sent' = 0
           ELSE /\ toClient' = Append(toClient, Control("Invalid"))
                /\ UNCHANGED <<splace, sending, sent>>
        /\ ServerOnly
  BY Zenon DEF ServeName
<1>2. ~mixed /\ mixed \in BOOLEAN
  BY <1>1, Zenon DEF ServerReads, FtrInv
<1>3. FtrOK /\ InStep
  BY <1>2, Zenon DEF FtrInv, FtrOK
<1>4. toServer # <<>>
  BY <1>1, NothingToServe, Zenon
<1>5. typed' = typed /\ cplace' = cplace /\ asked' = asked
  BY <1>1, Zenon DEF ServerOnly
<1>. DEFINE word == Head(typed).word
<1>6. \/ cplace = "prompt" /\ Msgs(<<Control("end")>>, <<>>)
      \/ cplace = "reply" /\ Msgs(<<Control("end"), Control(word)>>, <<>>)
      \/ cplace = "size" /\ Msgs(<<Message("name", asked)>>, <<>>)
  BY <1>1, <1>3, <1>4, Zenon
     DEF InStep, AtPrompt, AtReply, AtNames, AtSize, AtFirst, AtData, AtEnd, Msgs
<1>7. CASE cplace = "prompt" /\ Msgs(<<Control("end")>>, <<>>)
  <2>1. toServer' = <<>> /\ toServer[1].kind = "end"
    BY <1>1, <1>2, <1>7, ServerReadsOne, ControlKind, Zenon DEF Msgs
  <2>2. splace' = "command" /\ toClient' = <<>>
    BY <1>1, <1>7, <2>1, Zenon DEF Msgs
  <2>3. InStep'
    BY <1>5, <1>7, <2>1, <2>2, Zenon DEF InStep, AtPrompt, Msgs
  <2>. QED
    BY <1>1, <1>2, <1>3, <2>3, ServerKeeps, Zenon
<1>8. CASE cplace = "reply" /\ Msgs(<<Control("end"), Control(word)>>, <<>>)
  <2>0. Control("end").kind # "data"
    BY ControlKind
  <2>1. toServer' = <<Control(word)>> /\ toServer[1].kind = "end"
    BY <1>1, <1>2, <1>8, <2>0, ServerReadsFirst, ControlKind, Zenon DEF Msgs
  <2>2. splace' = "command" /\ toClient' = <<>>
    BY <1>1, <1>8, <2>1, Zenon DEF Msgs
  <2>3. InStep'
    BY <1>5, <1>8, <2>1, <2>2, Zenon DEF InStep, AtReply, Msgs
  <2>. QED
    BY <1>1, <1>2, <1>3, <2>3, ServerKeeps, Zenon
<1>9. CASE cplace = "size" /\ Msgs(<<Message("name", asked)>>, <<>>)
  <2>1. toServer' = <<>> /\ toServer[1].kind = "name" /\ toServer[1].arg = asked
    BY <1>1, <1>2, <1>9, ServerReadsOne, Kinds, Zenon DEF Msgs
  <2>2. ASSUME asked \in DOMAIN Contents PROVE InStep'
    <3>1. toClient' = Append(toClient, Control("size")) /\ splace' = "ok" /\ sending' = asked /\ sent' = 0
      BY <1>1, <2>1, <2>2, Zenon
    <3>2. toClient' = <<Control("size")>>
      BY <1>9, <3>1, Shorts, Zenon DEF Msgs
    <3>. QED
      BY <1>5, <1>9, <2>1, <2>2, <3>1, <3>2, Zenon DEF InStep, AtSize, Msgs
  <2>3. ASSUME asked \notin DOMAIN Contents PROVE InStep'
    <3>1. toClient' = Append(toClient, Control("Invalid")) /\ splace' = splace
      BY <1>1, <2>1, <2>3, Zenon
    <3>2. toClient' = <<Control("Invalid")>>
      BY <1>9, <3>1, Shorts, Zenon DEF Msgs
    <3>. QED
      BY <1>1, <1>5, <1>9, <2>1, <2>3, <3>1, <3>2, Zenon DEF InStep, AtSize, Msgs
  <2>4. InStep'
    BY <2>2, <2>3, Zenon
  <2>. QED
    BY <1>1, <1>2, <1>3, <2>4, ServerKeeps, Zenon
<1>. QED
  BY <1>6, <1>7, <1>8, <1>9, Zenon

LEMMA ServeChunkKeeps ==
  ASSUME FtrInv, ServeChunk, ~mixed'
  PROVE  FtrOK'
<1>. DEFINE bytes == Chunk(sending, sent)
            sends == [i \in DOMAIN bytes |-> Message("data", bytes[i])]
<1>1. /\ splace \in {"ok", "oki"} /\ ServerReads(1)
      /\ bytes = <<>> => toClient' = Append(toClient, Control("end")) /\ splace' = "name"
      /\ bytes # <<>> => toClient' = toClient \o sends /\ splace' = "oki"
      /\ sent' = sent + Len(bytes) /\ sending' = sending /\ ServerOnly
  BY Zenon DEF ServeChunk
<1>2. ~mixed /\ mixed \in BOOLEAN
  BY <1>1, Zenon DEF ServerReads, FtrInv
<1>3. FtrOK /\ InStep
  BY <1>2, Zenon DEF FtrInv, FtrOK
<1>4. toServer # <<>>
  BY <1>1, NothingToServe, Zenon
<1>5. cplace' = cplace /\ asked' = asked /\ copy' = copy
  BY <1>1, Zenon DEF ServerOnly
<1>6. Serves(Head(typed).word) \notin {"ok", "oki"}
  BY Zenon DEF Serves
<1>7. AtFirst \/ AtData
  BY <1>1, <1>3, <1>4, <1>6, Zenon
     DEF InStep, AtPrompt, AtReply, AtNames, AtSize, AtEnd, Msgs
<1>8. asked \in DOMAIN Contents /\ sending = asked
  BY <1>7, Zenon DEF AtFirst, AtData
<1>. DEFINE size == Len(Contents[asked])
<1>9. size \in Nat /\ Contents[asked] \in Seq(Nat) /\ 0 \in 0 .. size /\ (size = 0 => Contents[asked] = <<>>)
  BY <1>8, FileTransferAssumption
<1>10. ASSUME NEW k \in 0 .. size, sent = k, NEW a, Msgs(<<a>>, <<>>)
       PROVE  /\ toServer' = <<>>
              /\ \/ k = size /\ toClient' = <<Control("end")>> /\ splace' = "name"
                 \/ sent' \in k + 1 .. size /\ toClient' = Data(asked, k, sent') /\ splace' = "oki"
  <2>1. toServer' = <<>>
    BY <1>1, <1>2, <1>10, ServerReadsOne, Zenon DEF Msgs
  <2>2. PICK m \in k .. size :
          /\ Len(bytes) = m - k
          /\ (bytes = <<>>) <=> (k = size)
          /\ bytes # <<>> => k < m
          /\ sends = Data(asked, k, m)
    BY <1>8, <1>10, ChunkFacts, Zenon
  <2>. HIDE DEF bytes, sends
  <2>3. CASE bytes = <<>>
    BY <1>1, <1>10, <2>1, <2>2, <2>3, Shorts, Zenon DEF Msgs
  <2>4. CASE bytes # <<>>
    <3>1. k < m /\ m \in k + 1 .. size /\ m \in Nat /\ k \in Nat /\ m <= size
      BY <1>9, <2>2, <2>4
    <3>2. sent' = m
      BY <1>1, <1>10, <2>2, <3>1
    <3>3. toClient' = <<>> \o Data(asked, k, m)
      BY <1>1, <1>10, <2>2, <2>4, Zenon DEF Msgs
    <3>4. <<>> \o Data(asked, k, m) = Data(asked, k, m)
      BY <3>1 DEF Data
    <3>. QED
      BY <1>1, <2>1, <2>4, <3>1, <3>2, <3>3, <3>4, Zenon
  <2>. QED
    BY <2>3, <2>4, Zenon
<1>11. CASE AtFirst
  <2>1. cplace = "first" /\ sent = 0 /\ Msgs(<<Control("ok")>>, <<>>)
    BY <1>1, <1>4, <1>11, Zenon DEF AtFirst, Msgs
  <2>2. ASSUME 0 = size /\ toClient' = <<Control("end")>> /\ splace' = "name" PROVE InStep'
    BY <1>1, <1>5, <1>8, <1>9, <1>10, <2>1, <2>2, Zenon DEF InStep, AtFirst, Msgs
  <2>3. ASSUME sent' \in 0 + 1 .. size /\ toClient' = Data(asked, 0, sent') /\ splace' = "oki" PROVE InStep'
    <3>1. sent' \in 1 .. size
      BY <1>9, <2>3
    <3>. QED
      BY <1>1, <1>5, <1>8, <1>9, <1>10, <2>1, <2>3, <3>1, Zenon DEF InStep, AtFirst, Msgs
  <2>4. InStep'
    BY <1>9, <1>10, <2>1, <2>2, <2>3, Zenon
  <2>. QED
    BY <1>1, <1>2, <1>3, <2>4, ServerKeeps, Zenon
<1>12. CASE AtData
  <2>1. cplace = "data" /\ asked \in DOMAIN copy
    BY <1>12, Zenon DEF AtData
  <2>2. PICK k \in 1 .. size : copy[asked] = Data(asked, 0, k) /\ sent = k /\ Msgs(<<Control("oki")>>, <<>>)
    BY <1>1, <1>4, <1>12, Zenon DEF AtData, Msgs
  <2>3. k \in 0 .. size
    BY <1>9
  <2>4. toServer' = <<>> /\ copy'[asked'] = Data(asked', 0, k)
    BY <1>5, <1>10, <2>2, <2>3, Zenon
  <2>5. ASSUME k = size /\ toClient' = <<Control("end")>> /\ splace' = "name" PROVE InStep'
    BY <1>1, <1>5, <1>8, <2>1, <2>4, <2>5, Zenon DEF InStep, AtData, Msgs
  <2>6. ASSUME sent' \in k + 1 .. size /\ toClient' = Data(asked, k, sent') /\ splace' = "oki" PROVE InStep'
    BY <1>1, <1>5, <1>8, <2>1, <2>4, <2>6, Zenon DEF InStep, AtData, Msgs
  <2>7. InStep'
    BY <1>10, <2>2, <2>3, <2>5, <2>6, Zenon
  <2>. QED
    BY <1>1, <1>2, <1>3, <2>7, ServerKeeps, Zenon
<1>. QED
  BY <1>7, <1>11, <1>12, Zenon

-----------------------------------------------------------------------------
LEMMA FtrInitInv ==
  ASSUME FtrInit
  PROVE  FtrInv
<1>1. DOMAIN copy = {}
  BY DEF FtrInit
<1>. QED
  BY <1>1, Zenon DEF FtrInit, FtrInv, FtrOK, InStep, AtPrompt, Msgs, AskedAnew, CopiesKnown,
     ReceivedUnlessMixed

LEMMA FtrNextInv ==
  ASSUME FtrInv, [FtrNext]_FtrVars
  PROVE  FtrInv'
<1>1. mixed' \in BOOLEAN
  BY Zenon DEF FtrInv, FtrNext, FtrVars, Client, Server, Command, Reply, AskName, EndOfNames, ReadSize,
     ReadData, ServeCommand, ServeName, ServeChunk, OutOfStep, ServerEnds, ClientReads, ServerReads
<1>2. ASSUME ~mixed' PROVE FtrOK'
  <2>1. CASE Client
    BY <1>2, <2>1, CommandKeeps, ReplyKeeps, AskNameKeeps, EndOfNamesKeeps, ReadSizeKeeps,
       ReadDataKeeps, Zenon DEF Client
  <2>2. CASE ServeCommand \/ ServeName \/ ServeChunk
    BY <1>2, <2>2, ServeCommandKeeps, ServeNameKeeps, ServeChunkKeeps, Zenon
  <2>3. CASE OutOfStep
    BY <1>2, <2>3, Zenon DEF OutOfStep
  <2>4. CASE ServerEnds
    <3>1. ~mixed /\ cplace = "gone" /\ splace # "gone"
      BY <1>2, <2>4, Zenon DEF ServerEnds
    <3>. QED
      BY <3>1, Phase, Zenon DEF FtrInv, FtrOK, AtEnd
  <2>5. CASE UNCHANGED FtrVars
    BY <1>2, <2>5, Zenon DEF FtrVars, FtrInv, FtrOK, InStep, AtPrompt, AtReply, AtNames, AtSize, AtFirst,
       AtData, AtEnd, Msgs, AskedAnew, CopiesKnown, ReceivedUnlessMixed
  <2>. QED
    BY <2>1, <2>2, <2>3, <2>4, <2>5, Zenon DEF FtrNext, Server
<1>. QED
  BY <1>1, <1>2, Zenon DEF FtrInv

\* As long as every read takes exactly one message, every file the server has
\* arrives as it is, however many chunks it takes: ReadData writes what ServeChunk
\* reads of the file.
THEOREM TransferRight == FtrSpec => []ReceivedUnlessMixed
<1>1. FtrInit => FtrInv
  BY FtrInitInv, Zenon
<1>2. FtrInv /\ [FtrNext]_FtrVars => FtrInv'
  BY FtrNextInv, Zenon
<1>3. FtrInv => ReceivedUnlessMixed
  BY Zenon DEF FtrInv, FtrOK, ReceivedUnlessMixed
<1>. QED
  BY <1>1, <1>2, <1>3, PTL DEF FtrSpec
=============================================================================
