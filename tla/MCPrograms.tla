----------------------------- MODULE MCPrograms -----------------------------
(***************************************************************************)
(* The concurrent programs outside of the kernel, each by itself: the      *)
(* merge sorts, the vaccination and the festival of the concurrency        *)
(* assignment, the file transfer, and the reversal of a file.  The first   *)
(* state says which one runs.                                              *)
(***************************************************************************)
EXTENDS Musical, Vaccination, MergeSort, MCTransfer, Reversal

\* A bassist, a singer, a pianist and another singer.
Band == [a \in 0 .. 3 |-> <<"b", "s", "p", "s">>[a + 1]]
TwoStages == [s \in 0 .. 1 |-> <<"a", "e">>[s + 1]]

\* All files of up to four bytes and one of six, with blocks of three, and what they
\* are compared with.
ShortFiles == UNION {[1 .. n -> {0, 1}] : n \in 0 .. 4} \cup {<<0, 1, 1, 0, 1, 0>>}
OtherFiles == UNION {[1 .. n -> {0, 1}] : n \in {0, 3, 4}}

VARIABLE part

ProgVars == <<part, FestVars, vars, MsVars, FtrVars, RevVars>>

Festival(A) == part = "festival" /\ A /\ UNCHANGED <<part, vars, MsVars, FtrVars, RevVars>>
Campaign(A) == part = "campaign" /\ A /\ UNCHANGED <<part, FestVars, MsVars, FtrVars, RevVars>>
Sort(A) == part = "sort" /\ A /\ UNCHANGED <<part, FestVars, vars, FtrVars, RevVars>>
Transfer(A) == part = "transfer" /\ A /\ UNCHANGED <<part, FestVars, vars, MsVars, RevVars>>
Reversed(A) == part = "reversal" /\ A /\ UNCHANGED <<part, FestVars, vars, MsVars, FtrVars>>

\* The others rest in one of their first states.
ProgInit ==
  /\ part \in {"festival", "campaign", "sort", "transfer", "reversal"}
  /\ RevInit /\ (part # "reversal" => old = <<>> /\ opened = {})
  /\ FtrInit /\ (part # "transfer" => typed = <<Get(<<1, 1>>), Word("exit")>>)
  /\ MsInit /\ (part # "sort" => Size = 0)
  /\ FestInit /\ Init

\* A sort and a reversal end; artists and the two ends of a connection may wait for ever.
Stops == part # "campaign" /\ UNCHANGED ProgVars

ProgNext ==
  \/ Festival(FestNext)
  \/ Campaign(Next)
  \/ Sort(MsNext)
  \/ Transfer(FtrNext)
  \/ Reversed(RevNext)
  \/ Stops

\* Every thread and process that can go on does; nothing is assumed of who gets a
\* mutex.
ProgSpec ==
  /\ ProgInit /\ [][ProgNext]_ProgVars
  /\ \A a \in Artists : WF_ProgVars(Festival(Thread(a)))
  /\ \A s \in Students : WF_ProgVars(Campaign(~Over /\ Student(s)))
  /\ \A z \in Zones : WF_ProgVars(Campaign(~Over /\ Zone(z)))
  /\ \A c \in Comps : WF_ProgVars(Campaign(~Over /\ Comp(c)))
  /\ WF_ProgVars(Sort(MsNext))
  /\ WF_ProgVars(Transfer(Client)) /\ WF_ProgVars(Transfer(Server))
  /\ WF_ProgVars(Reversed(RevNext))

\* Every program comes to its end.  The musicians of the festival get off the
\* stage or leave: lost signals, and signals to artists that are gone, are made
\* good by the time limit of the wait.  All students are vaccinated or sent home:
\* companies, zones and students do not wait for each other in a circle, if there
\* is enough room in zones_under.  Every process or thread of a merge sort is
\* waited for.  The client gets through all that is typed, if every read takes
\* exactly one message: each end waits only when the other has something to send.
\* The loops of the reversal come to the beginning of the file.
ProgramsEnd ==
  <>CASE part = "festival" -> MusiciansEnded
      [] part = "campaign" -> Over
      [] part = "sort" -> SortEnded
      [] part = "transfer" -> SessionEnded
      [] part = "reversal" -> RevEnded
=============================================================================
