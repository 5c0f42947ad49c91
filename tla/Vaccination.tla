---------------------------- MODULE Vaccination -----------------------------
(***************************************************************************)
(* The vaccination drive of Q2.c: a thread per student, zone and company,  *)
(* a mutex per zone (taken by students only) and one per company (taken by *)
(* zones only).  The unprotected reads and writes of the other threads are *)
(* actions of their own, in the order of the code; sleeps take any time.   *)
(* The program ends when main has joined the students.                     *)
(***************************************************************************)
EXTENDS Integers, FiniteSets

CONSTANTS
  no_of_students, no_of_zones, no_of_comp,
  SLOTS,        \* cells of filled and the most slots of a round, 8 in the code
  UNDER,        \* cells of zones_under, 5 in the code
  BatchSizes,   \* values of no_per_batch, 10 .. 20 in the code
  BatchCounts   \* values of no_of_batches, 1 .. 5 in the code

Students == 0 .. no_of_students - 1
Zones == 0 .. no_of_zones - 1
Comps == 0 .. no_of_comp - 1
Cells == 0 .. SLOTS - 1
Under == 0 .. UNDER - 1
None == -1

ASSUME VaccinationAssumption ==
  /\ no_of_students \in Nat \ {0} /\ no_of_zones \in Nat \ {0} /\ no_of_comp \in Nat \ {0}
  /\ SLOTS \in Nat \ {0} /\ UNDER \in Nat \ {0}
  /\ BatchSizes \subseteq Nat \ {0} /\ BatchCounts \subseteq 1 .. UNDER

VARIABLES
  chance, spc, szone,    \* struct student; place and zone of its thread
  slots, capacity, filled, comp_assigned, zpc, zcomp,  \* struct zone; its thread
  no_of_batches, no_per_batch, zones_under, cpc, cidx, \* struct comp; its thread
  owed, missed           \* history of a zone: doses delivered and not yet given to a
                         \* student; whether a delivery found zones_under full

students == <<chance, spc, szone>>
zones == <<slots, capacity, filled, comp_assigned, zpc, zcomp>>
comps == <<no_of_batches, no_per_batch, zones_under, cpc, cidx>>
history == <<owed, missed>>
vars == <<students, zones, comps, history>>

\* Students: look: before taking the mutex of zone szone.  slot: a slot is
\* taken, the mutex is held.  done: the thread has ended.
\* Zones: seek: before the mutex of company zcomp.  deliver: a batch is taken,
\* the mutex is held.  refill: before the test of capacity.  serve: waiting
\* for slots to reach 0.
\* Companies: make: manufacturing.  sell: waiting for no_of_batches to reach
\* 0.  check: in the loop over zones_under, at cidx.
Init ==
  /\ chance = [s \in Students |-> 1]
  /\ spc = [s \in Students |-> "look"]
  /\ szone = [s \in Students |-> 0]
  /\ slots = [z \in Zones |-> 0]
  /\ capacity = [z \in Zones |-> 0]
  /\ filled = [z \in Zones |-> [i \in Cells |-> FALSE]]
  /\ comp_assigned = [z \in Zones |-> None]
  /\ zpc = [z \in Zones |-> "seek"]
  /\ zcomp = [z \in Zones |-> 0]
  /\ no_of_batches = [c \in Comps |-> 0]
  /\ no_per_batch = [c \in Comps |-> 0]
  /\ zones_under = [c \in Comps |-> [i \in Under |-> None]]
  /\ cpc = [c \in Comps |-> "make"]
  /\ cidx = [c \in Comps |-> 0]
  /\ owed = [z \in Zones |-> 0]
  /\ missed = [z \in Zones |-> FALSE]

-----------------------------------------------------------------------------
(* Students: student_wait and student_slotmein. *)

NextZone(s) == [szone EXCEPT ![s] = (@ + 1) % no_of_zones]

ZoneMutexFree(z) == \A s \in Students : ~(spc[s] = "slot" /\ szone[s] = z)

\* The zone has no slot: unlock, look at the next one.
LookOn(s) ==
  /\ spc[s] = "look" /\ ZoneMutexFree(szone[s])
  /\ slots[szone[s]] <= 0
  /\ szone' = NextZone(s)
  /\ UNCHANGED <<chance, spc, zones, comps, history>>

\* zones[i]->slots--
TakeSlot(s) ==
  /\ spc[s] = "look" /\ ZoneMutexFree(szone[s])
  /\ slots[szone[s]] > 0
  /\ slots' = [slots EXCEPT ![szone[s]] = @ - 1]
  /\ owed' = [owed EXCEPT ![szone[s]] = @ - 1]
  /\ spc' = [spc EXCEPT ![s] = "slot"]
  /\ UNCHANGED <<chance, szone, capacity, filled, comp_assigned, zpc, zcomp, comps, missed>>

\* Only whether a cell is -1 is read, never which student is in it.
FreeCells(z) == {i \in Cells : ~filled[z][i]}

\* The student returns for good: positive test, or third round.  With the thread
\* its variable i ends, which szone says by 0.
Finished(x, n) == n = 4 \/ x = 1

\* student_slotmein: the first free cell; x is the result of the test.
Vaccinate(s, x) ==
  LET z == szone[s] IN
  /\ spc[s] = "slot" /\ FreeCells(z) # {}
  /\ LET i == CHOOSE j \in FreeCells(z) : \A k \in FreeCells(z) : j <= k
     IN  filled' = [filled EXCEPT ![z][i] = TRUE]
  /\ chance' = [chance EXCEPT ![s] = @ + 1]
  /\ IF Finished(x, chance[s] + 1)
     THEN spc' = [spc EXCEPT ![s] = "done"] /\ szone' = [szone EXCEPT ![s] = 0]
     ELSE spc' = [spc EXCEPT ![s] = "look"] /\ szone' = NextZone(s)
  /\ UNCHANGED <<slots, capacity, comp_assigned, zpc, zcomp, comps, history>>

\* No cell is free: the function ends without a value, and the caller finds
\* 1 or something else in it.
NoCell(s) ==
  /\ spc[s] = "slot" /\ FreeCells(szone[s]) = {}
  /\ \/ spc' = [spc EXCEPT ![s] = "done"] /\ szone' = [szone EXCEPT ![s] = 0]
     \/ spc' = [spc EXCEPT ![s] = "look"] /\ szone' = NextZone(s)
  /\ UNCHANGED <<chance, zones, comps, history>>

-----------------------------------------------------------------------------
(* Zones: zone_start and zone_2. *)

CompMutexFree(c) == \A z \in Zones : ~(zpc[z] = "deliver" /\ zcomp[z] = c)

NextComp(z) == [zcomp EXCEPT ![z] = (@ + 1) % no_of_comp]

\* The company has no batch: unlock, ask the next one.
SeekOn(z) ==
  /\ zpc[z] = "seek" /\ CompMutexFree(zcomp[z])
  /\ no_of_batches[zcomp[z]] <= 0
  /\ zcomp' = NextComp(z)
  /\ UNCHANGED <<students, slots, capacity, filled, comp_assigned, zpc, comps, history>>

\* comps[i]->no_of_batches--
TakeBatch(z) ==
  /\ zpc[z] = "seek" /\ CompMutexFree(zcomp[z])
  /\ no_of_batches[zcomp[z]] > 0
  /\ no_of_batches' = [no_of_batches EXCEPT ![zcomp[z]] = @ - 1]
  /\ zpc' = [zpc EXCEPT ![z] = "deliver"]
  /\ UNCHANGED <<students, slots, capacity, filled, comp_assigned, zcomp,
                 no_per_batch, zones_under, cpc, cidx, history>>

FreeUnder(c) == {i \in Under : zones_under[c][i] = None}

\* The rest of the section: capacity, then the first free cell of zones_under.
\* Without one f stays 0, and the zone asks the next company: the batch of that
\* one takes the place of this one.
Deliver(z) ==
  LET c == zcomp[z] IN
  /\ zpc[z] = "deliver"
  /\ capacity' = [capacity EXCEPT ![z] = no_per_batch[c]]
  /\ comp_assigned' = [comp_assigned EXCEPT ![z] = c]
  /\ owed' = [owed EXCEPT ![z] = @ + no_per_batch[c]]
  /\ IF FreeUnder(c) # {}
     THEN /\ LET i == CHOOSE j \in FreeUnder(c) : \A k \in FreeUnder(c) : j <= k
             IN  zones_under' = [zones_under EXCEPT ![c][i] = z]
          /\ zpc' = [zpc EXCEPT ![z] = "refill"] /\ zcomp' = [zcomp EXCEPT ![z] = 0]
          /\ UNCHANGED missed
     ELSE /\ zpc' = [zpc EXCEPT ![z] = "seek"] /\ zcomp' = NextComp(z)
          /\ missed' = [missed EXCEPT ![z] = TRUE]
          /\ UNCHANGED zones_under
  /\ UNCHANGED <<students, slots, filled, no_of_batches, no_per_batch, cpc, cidx>>

\* The batch is used up: ask the companies again.
RunOut(z) ==
  /\ zpc[z] = "refill" /\ capacity[z] <= 0
  /\ zpc' = [zpc EXCEPT ![z] = "seek"]
  /\ UNCHANGED <<students, slots, capacity, filled, comp_assigned, zcomp, comps, history>>

ClearCells(z) == [filled EXCEPT ![z] = [i \in Cells |-> FALSE]]

\* Mutant: the slots of a round are not taken off the batch.
LeftAll(n) == n

Round(n) == IF n <= SLOTS THEN n ELSE SLOTS
Left(n) == n - Round(n)

\* zone_2, first half: clear the cells, open min(capacity, 8) slots.
OpenSlots(z) ==
  /\ zpc[z] = "refill" /\ capacity[z] > 0
  /\ filled' = ClearCells(z)
  /\ slots' = [slots EXCEPT ![z] = Round(capacity[z])]
  /\ capacity' = [capacity EXCEPT ![z] = Left(@)]
  /\ zpc' = [zpc EXCEPT ![z] = "serve"]
  /\ UNCHANGED <<students, comp_assigned, zcomp, comps, history>>

\* zone_2, second half: all slots are taken, clear the cells.
CloseSlots(z) ==
  /\ zpc[z] = "serve" /\ slots[z] <= 0
  /\ filled' = ClearCells(z)
  /\ zpc' = [zpc EXCEPT ![z] = "refill"]
  /\ UNCHANGED <<students, slots, capacity, comp_assigned, zcomp, comps, history>>

-----------------------------------------------------------------------------
(* Companies: comp_start and comp_2. *)

NoZones(c) == [zones_under EXCEPT ![c] = [i \in Under |-> None]]

\* Manufacturing is over: x vaccines per batch, y batches.
Manufacture(c, x, y) ==
  /\ cpc[c] = "make"
  /\ no_per_batch' = [no_per_batch EXCEPT ![c] = x]
  /\ no_of_batches' = [no_of_batches EXCEPT ![c] = y]
  /\ cpc' = [cpc EXCEPT ![c] = "sell"]
  /\ UNCHANGED <<students, zones, zones_under, cidx, history>>

SoldOut(c) ==
  /\ cpc[c] = "sell" /\ no_of_batches[c] <= 0
  /\ cpc' = [cpc EXCEPT ![c] = "check"]
  /\ cidx' = [cidx EXCEPT ![c] = 0]
  /\ UNCHANGED <<students, zones, no_of_batches, no_per_batch, zones_under, history>>

\* A zone of zones_under still has a part of its batch in stock.
Stocked(c, i) == zones_under[c][i] # None /\ capacity[zones_under[c][i]] > 0

\* One cell of the loop of comp_2.  A stocked zone makes the scan begin again.
CheckZone(c) ==
  /\ cpc[c] = "check" /\ cidx[c] < UNDER
  /\ cidx' = [cidx EXCEPT ![c] = IF Stocked(c, @) THEN 0 ELSE @ + 1]
  /\ UNCHANGED <<students, zones, no_of_batches, no_per_batch, zones_under, cpc, history>>

\* "All the vaccines produced by pharma company %d are over"
Announce(c) ==
  /\ cpc[c] = "check" /\ cidx[c] = UNDER
  /\ zones_under' = NoZones(c)
  /\ cpc' = [cpc EXCEPT ![c] = "make"]
  /\ UNCHANGED <<students, zones, no_of_batches, no_per_batch, cidx, history>>

Student(s) ==
  LookOn(s) \/ TakeSlot(s) \/ NoCell(s) \/ \E x \in {0, 1} : Vaccinate(s, x)
Zone(z) ==
  \/ SeekOn(z) \/ TakeBatch(z) \/ Deliver(z)
  \/ RunOut(z) \/ OpenSlots(z) \/ CloseSlots(z)
Comp(c) ==
  \/ \E x \in BatchSizes, y \in BatchCounts : Manufacture(c, x, y)
  \/ SoldOut(c) \/ CheckZone(c) \/ Announce(c)

\* main has joined the students: SIMULATION OVER, and the process exits.
Over == \A s \in Students : spc[s] = "done"

Next ==
  \/ ~Over /\ \E s \in Students : Student(s)
  \/ ~Over /\ \E z \in Zones : Zone(z)
  \/ ~Over /\ \E c \in Comps : Comp(c)
  \/ Over /\ UNCHANGED vars

Spec == Init /\ [][Next]_vars

\* Every thread runs on; nothing is assumed of who gets a mutex.
FairSpec ==
  /\ Spec
  /\ \A s \in Students : WF_vars(~Over /\ Student(s))
  /\ \A z \in Zones : WF_vars(~Over /\ Zone(z))
  /\ \A c \in Comps : WF_vars(~Over /\ Comp(c))

-----------------------------------------------------------------------------
(* Properties. *)

\* No dose is lost or given twice: what was delivered to a zone and not yet given to
\* a student (student_wait, under the zone's mutex) is in its open slots and its
\* stock (zone_start and zone_2, without it), over all rounds and batches.  Only a
\* zone that found zones_under full may overwrite stock that is left, and no
\* delivery finds it full unless a company may make as many batches as it has
\* cells, although the entry of one delivery may outlive the clearing by comp_2.
DosesAddUp ==
  \A z \in Zones :
    /\ owed[z] = slots[z] + capacity[z] \/ missed[z]
    /\ missed[z] => UNDER \in BatchCounts

\* SIMULATION OVER is printed: every student gets a positive test or has three
\* rounds.  "Company ... keeps a track of all the zones that it supplied to
\* using an array ... and produces again if the array gets emptied", so no zone
\* and company wait for each other for ever.
SimulationEnds == <>Over
=============================================================================
