------------------------------ MODULE Musical -------------------------------
(***************************************************************************)
(* The musical festival of Q3.c: one thread per artist, stages guarded by  *)
(* the mutex mut, a condition variable hmm per artist, and a semaphore for *)
(* the coordinators who hand out t-shirts.                                 *)
(*                                                                         *)
(* A critical section of mut is one action.  How long sleeps last is left  *)
(* open.  pthread_cond_wait is taken to return only after a signal.        *)
(***************************************************************************)
EXTENDS Integers, FiniteSets

CONSTANTS
  no_of_artists, no_of_stages, no_of_coords,
  Instrument,   \* artist -> "v", "b", "p", "g" or "s"
  StageType     \* stage -> "a" or "e"

Artists == 0 .. no_of_artists - 1
Stages == 0 .. no_of_stages - 1
Nobody == -1

ASSUME MusicalAssumption ==
  /\ no_of_artists \in Nat /\ no_of_stages \in Nat /\ no_of_coords \in Nat
  /\ Instrument \in [Artists -> {"v", "b", "p", "g", "s"}]
  /\ StageType \in [Stages -> {"a", "e"}]

VARIABLES
  performers,      \* stage -> <<performers[0], performers[1]>>
  stage_assigned, imp_flag, waiting,  \* fields of struct artist
  sem,             \* value of the coordinators' semaphore
  pc               \* place of an artist's thread

FestVars == <<performers, stage_assigned, imp_flag, waiting, sem, pc>>

\* The values of pc.  search: before artist_wait takes mut.  timed: in pthread_cond_timedwait.
\* perform: asleep for perf_time.  extra: asleep for 2 more seconds.  ending:
\* before perf_ends takes mut.  joined: a singer that has joined, before
\* pthread_cond_wait; duet: in it.  shirt: before sem_wait; coord: with a
\* coordinator.  left and done: the thread has ended; died: the program has.

FestInit ==
  /\ performers = [s \in Stages |-> <<Nobody, Nobody>>]
  /\ stage_assigned = [a \in Artists |-> Nobody]
  /\ imp_flag = [a \in Artists |-> FALSE]
  /\ waiting = [a \in Artists |-> FALSE]
  /\ sem = no_of_coords
  /\ pc = [a \in Artists |-> "search"]

-----------------------------------------------------------------------------
(* artist_wait *)

\* main: stage_req of the instrument, as the set of stage types that suit.
stage_req(a) == CASE Instrument[a] = "v" -> {"a"}
                  [] Instrument[a] = "b" -> {"e"}
                  [] OTHER -> {"a", "e"}

Empty(s) == performers[s][1] = Nobody

Joinable(a, s) ==
  /\ Instrument[a] = "s" /\ ~Empty(s)
  /\ performers[s][2] = Nobody
  /\ Instrument[performers[s][1]] # "s"

\* Mutant: the type of the stage is not compared.
UsableAnyType(a, s) == Empty(s) \/ Joinable(a, s)

\* The test of the loops over the stages.
Usable(a, s) ==
  \/ Empty(s) /\ StageType[s] \in stage_req(a)
  \/ Joinable(a, s)

FirstUsable(a, s) ==
  Usable(a, s) /\ \A r \in Stages : Usable(a, r) => s <= r

\* A stage is found: perform on it, or join as a singer.
FindStage(a) ==
  /\ pc[a] = "search"
  /\ \E s \in Stages :
       /\ FirstUsable(a, s)
       /\ stage_assigned' = [stage_assigned EXCEPT ![a] = s]
       /\ IF Empty(s)
          THEN /\ performers' = [performers EXCEPT ![s][1] = a]
               /\ pc' = [pc EXCEPT ![a] = "perform"]
               /\ UNCHANGED imp_flag
          ELSE /\ performers' = [performers EXCEPT ![s][2] = a]
               /\ pc' = [pc EXCEPT ![a] = "joined"]
               /\ imp_flag' = [imp_flag EXCEPT ![performers[s][1]] = TRUE]
  /\ UNCHANGED <<waiting, sem>>

\* No stage is found: pthread_cond_timedwait(&hmm, &mut, timy).
WaitForStage(a) ==
  /\ pc[a] = "search"
  /\ ~\E s \in Stages : Usable(a, s)
  /\ waiting' = [waiting EXCEPT ![a] = TRUE]
  /\ pc' = [pc EXCEPT ![a] = "timed"]
  /\ UNCHANGED <<performers, stage_assigned, imp_flag, sem>>

\* Moves of one thread that touch nothing shared.
Move(a, from, to) ==
  /\ pc[a] = from
  /\ pc' = [pc EXCEPT ![a] = to]
  /\ UNCHANGED <<performers, stage_assigned, imp_flag, waiting, sem>>

\* The time is over before a signal: leave "because of impatience".
Timeout(a) == Move(a, "timed", "left")

\* The singer that has joined starts to wait on hmm, with mut2.
Duet(a) == Move(a, "joined", "duet")

\* Its message reads performers[0] without the mutex.  When the musician has cleared
\* the stage, artists[-1] is read, and the program may die of that.
JoinMessage(a) ==
  /\ pc[a] = "joined" /\ Empty(stage_assigned[a])
  /\ pc' = [i \in Artists |-> "died"]
  /\ UNCHANGED <<performers, stage_assigned, imp_flag, waiting, sem>>

\* The performance is over; imp_flag is read without the mutex.
PerformDone(a) ==
  \/ imp_flag[a] /\ Move(a, "perform", "extra")
  \/ ~imp_flag[a] /\ Move(a, "perform", "ending")

ExtraDone(a) == Move(a, "extra", "ending")

-----------------------------------------------------------------------------
(* perf_ends *)

\* The loop signals the first two artists marked as waiting; the mark is never
\* taken back, so they may perform, or be gone.
Marked(a) == {i \in Artists \ {a} : waiting[i]}
Signalled(a) == {i \in Marked(a) : Cardinality({j \in Marked(a) : j < i}) < 2}

\* pthread_cond_signal(&artists[i]->hmm) for all i in S: it reaches those who
\* are inside a wait.
AfterSignal(S) ==
  [i \in Artists |-> IF i \in S /\ pc[i] = "timed" THEN "search"
                     ELSE IF i \in S /\ pc[i] = "duet" THEN "shirt"
                     ELSE pc[i]]

Cleared(s) == [performers EXCEPT ![s] = <<Nobody, Nobody>>]

\* The stage is cleared and its singer signalled inside the loop: only when
\* some artist is marked as waiting.
PerfEnds(a) ==
  /\ pc[a] = "ending"
  /\ LET s == stage_assigned[a]
         S == IF Marked(a) = {} THEN {}
              ELSE Signalled(a) \cup ({performers[s][2]} \ {Nobody})
     IN  /\ performers' = IF Marked(a) = {} THEN performers ELSE Cleared(s)
         /\ pc' = [AfterSignal(S) EXCEPT ![a] = "shirt"]
  /\ UNCHANGED <<stage_assigned, imp_flag, waiting, sem>>

-----------------------------------------------------------------------------
(* tshirt *)

SemWait(a) ==
  /\ pc[a] = "shirt" /\ sem > 0
  /\ sem' = sem - 1
  /\ pc' = [pc EXCEPT ![a] = "coord"]
  /\ UNCHANGED <<performers, stage_assigned, imp_flag, waiting>>

SemPost(a) ==
  /\ pc[a] = "coord"
  /\ sem' = sem + 1
  /\ pc' = [pc EXCEPT ![a] = "done"]
  /\ UNCHANGED <<performers, stage_assigned, imp_flag, waiting>>

Ended(a) == pc[a] \in {"left", "done", "died"}

\* main has joined all threads and prints FINISH.
Finish == (\A a \in Artists : Ended(a)) /\ UNCHANGED FestVars

Thread(a) ==
  \/ FindStage(a) \/ WaitForStage(a) \/ Timeout(a) \/ Duet(a) \/ JoinMessage(a)
  \/ PerformDone(a) \/ ExtraDone(a) \/ PerfEnds(a) \/ SemWait(a) \/ SemPost(a)

FestNext == (\E a \in Artists : Thread(a)) \/ Finish

FestSpec == FestInit /\ [][FestNext]_FestVars

-----------------------------------------------------------------------------
(* Properties. *)

OnStage == {"perform", "extra", "ending"}

\* "so that no two threads go into a particular stage at the same time": the
\* artists that perform are the first performers of stages of their own, which
\* suit them, whatever was joined, ended or signalled in between.  The second
\* place of a stage is for one singer beside a musician.
OwnStage ==
  /\ \A a \in Artists : pc[a] \in OnStage =>
       /\ performers[stage_assigned[a]][1] = a
       /\ StageType[stage_assigned[a]] \in stage_req(a)
  /\ \A s \in Stages : performers[s][2] # Nobody =>
       /\ ~Empty(s)
       /\ Instrument[performers[s][1]] # "s" /\ Instrument[performers[s][2]] = "s"

\* Every musician is done or has left, or the message of a singer ended the program.
\* A singer who has joined may wait for ever.
MusiciansEnded == \A a \in Artists : Instrument[a] # "s" => Ended(a)
=============================================================================
