---------------------------- MODULE KernelProofs -----------------------------
(***************************************************************************)
(* Spin locks never panic and every process keeps its interrupt flag, for  *)
(* any numbers of CPUs and processes.                                      *)
(*                                                                         *)
(* A context is always at one of few places of few pieces of code.  The    *)
(* tables list them, each with the locks that the CPU holds there: an      *)
(* entry is <<locks, what is still to do>>.  That every operation leads    *)
(* from entry to entry (StepsTo) is a fact about the code alone.  The      *)
(* invariant then says that every CPU, and every process on none, is at an *)
(* entry of its table.                                                     *)
(***************************************************************************)
EXTENDS SpinLock, FiniteSetTheorems, TLAPS

Ops == {"acquire", "spin", "release", "sched", "resume", "iret"} \X {"ptable", "ticks", "", "fork"}

Cons(o, s) == <<o>> \o s
spin(l) == Op("spin", l)
resume == Op("resume", "")

\* sys_sleep, from its end to its beginning.
SleepReleases == Cons(release("ticks"), <<>>)
SleepSpins == Cons(spin("ticks"), SleepReleases)
SleepAcquires == Cons(acquire("ticks"), SleepReleases)
SleepBack == Cons(release("ptable"), SleepAcquires)
SleepResumes == Cons(resume, SleepBack)
SleepScheds == Cons(sched, SleepBack)
SleepDrops == Cons(release("ticks"), SleepScheds)
SleepSpinsTable == Cons(spin("ptable"), SleepDrops)
SleepTable == Cons(acquire("ptable"), SleepDrops)
SysSpins == Cons(spin("ticks"), SleepTable)
SysBegins == Cons(acquire("ticks"), SleepTable)

\* forkret
ForkReturns == Cons(trapret, <<>>)
ForkBegins == Cons(release("ptable"), ForkReturns)

\* The end of an interrupt handler before the interrupted code u, and yield.
Returns(u) == Cons(iret, u)
YieldReleases(u) == Cons(release("ptable"), Returns(u))
YieldResumes(u) == Cons(resume, YieldReleases(u))
YieldScheds(u) == Cons(sched, YieldReleases(u))
YieldSpins(u) == Cons(spin("ptable"), YieldScheds(u))
YieldBegins(u) == Cons(acquire("ptable"), YieldScheds(u))

\* preempt, before the rest v of the handler.
PreemptReleases(v) == Cons(release("ptable"), v)
PreemptSpins(v) == Cons(spin("ptable"), PreemptReleases(v))
PreemptBegins(v) == Cons(acquire("ptable"), PreemptReleases(v))

\* The handler after the tick.
Handlers(u) == {Returns(u), YieldBegins(u), PreemptBegins(Returns(u)), PreemptBegins(YieldBegins(u))}

\* change_ticks and wakeup of CPU 0, before the rest r of the handler.
TickEnds(r) == Cons(release("ticks"), r)
WakeReleases(r) == Cons(release("ptable"), TickEnds(r))
WakeSpins(r) == Cons(spin("ptable"), WakeReleases(r))
WakeBegins(r) == Cons(acquire("ptable"), WakeReleases(r))
ChangeReleases(r) == Cons(release("ptable"), WakeBegins(r))
ChangeSpins(r) == Cons(spin("ptable"), ChangeReleases(r))
ChangeBegins(r) == Cons(acquire("ptable"), ChangeReleases(r))
TickSpins(r) == Cons(spin("ticks"), ChangeBegins(r))
TickBegins(r) == Cons(acquire("ticks"), ChangeBegins(r))

None == {}
Table == {"ptable"}
Ticks == {"ticks"}

SleepEntries ==
  {<<None, <<>>>>, <<Ticks, SleepReleases>>, <<None, SleepSpins>>, <<None, SleepAcquires>>,
   <<Table, SleepBack>>, <<Table, SleepResumes>>, <<Table, SleepScheds>>, <<Locks, SleepDrops>>,
   <<Ticks, SleepSpinsTable>>, <<Ticks, SleepTable>>, <<None, SysSpins>>, <<None, SysBegins>>}

ForkEntries == {<<None, ForkReturns>>, <<Table, ForkBegins>>}

YieldEntries(u) ==
  {<<None, Returns(u)>>, <<Table, YieldReleases(u)>>, <<Table, YieldResumes(u)>>,
   <<Table, YieldScheds(u)>>, <<None, YieldSpins(u)>>, <<None, YieldBegins(u)>>}

PreemptEntries(v) ==
  {<<Table, PreemptReleases(v)>>, <<None, PreemptSpins(v)>>, <<None, PreemptBegins(v)>>}

TickEntries(r) ==
  {<<Ticks, TickEnds(r)>>, <<Locks, WakeReleases(r)>>, <<Ticks, WakeSpins(r)>>,
   <<Ticks, WakeBegins(r)>>, <<Locks, ChangeReleases(r)>>, <<Ticks, ChangeSpins(r)>>,
   <<Ticks, ChangeBegins(r)>>, <<None, TickSpins(r)>>, <<None, TickBegins(r)>>}

HandlerEntries(u) ==
  YieldEntries(u) \cup PreemptEntries(Returns(u)) \cup PreemptEntries(YieldBegins(u))
  \cup UNION {TickEntries(r) : r \in Handlers(u)}

\* Where a process, and where a scheduler, may be interrupted.
ProcBases == {<<>>, SleepAcquires, SysBegins, ForkReturns}
LoopBegins == Cons(acquire("ptable"), <<>>)
LoopBases == {<<>>, LoopBegins}

ProcTable ==
  SleepEntries \cup ForkEntries
  \cup UNION {HandlerEntries(u) : u \in ProcBases}

LoopTable ==
  {<<None, <<>>>>, <<Table, <<>>>>, <<None, LoopBegins>>, <<None, Cons(spin("ptable"), <<>>)>>,
   <<Table, Cons(release("ptable"), <<>>)>>}
  \cup UNION {{<<None, Returns(u)>>} \cup TickEntries(Returns(u)) : u \in LoopBases}

TableOf(x) == IF x \in SlProcs THEN ProcTable ELSE LoopTable

-----------------------------------------------------------------------------
(* The invariant. *)

SlTypeOK ==
  /\ lkcpu \in [Locks -> Cpus \cup {Free}]
  /\ IF_ \in [Cpus -> BOOLEAN] /\ intena \in [Cpus -> BOOLEAN]
  /\ ncli \in [Cpus -> Nat]
  /\ cur \in [Cpus -> Contexts]
  /\ code \in [Contexts -> Seq(Ops)]
  /\ kept \in [SlProcs -> BOOLEAN]

At(s, o) == s # <<>> /\ Head(s)[1] = o
Held(c) == {l \in Locks : lkcpu[l] = c}

\* A CPU and the context it runs: the locks it holds are those of the entry, and
\* ncli counts them and the one it spins for.
CpuOK(c) ==
  LET s == code[cur[c]] IN
  /\ <<Held(c), s>> \in TableOf(cur[c])
  /\ ncli[c] = Cardinality(Held(c)) + (IF At(s, "spin") THEN 1 ELSE 0)
  /\ IF_[c] => ncli[c] = 0
  /\ cur[c] # c => cur[c] \in SlProcs /\ code[c] = <<>>

\* The interrupt flag of the context, which intena keeps while ncli > 0 and kept
\* keeps over swtch: off in a handler, on in a process outside of one.
FlagOK(c) ==
  LET s == code[cur[c]] IN
  /\ HasOp(s, iret) => ~IF_[c] /\ (ncli[c] > 0 /\ ~At(s, "resume") => ~intena[c])
  /\ cur[c] \in SlProcs /\ ~HasOp(s, iret) /\ ~HasOp(s, trapret) =>
       /\ ncli[c] = 0 => IF_[c]
       /\ ncli[c] > 0 /\ ~At(s, "resume") => intena[c]

KeptOK(p) == At(code[p], "resume") => kept[p] = ~HasOp(code[p], iret)

\* A process on no CPU is in sched behind swtch, or new.
Waiting(p) == \A c \in Cpus : cur[c] # p
WaitingOK(p) ==
  Waiting(p) => <<Table, code[p]>> \in ProcTable /\ (At(code[p], "resume") \/ code[p] = ForkBegins)

SlInv ==
  /\ SlTypeOK
  /\ \A c, d \in Cpus : cur[c] = cur[d] => c = d
  /\ \A c \in Cpus : CpuOK(c) /\ FlagOK(c)
  /\ \A p \in SlProcs : KeptOK(p) /\ WaitingOK(p)

-----------------------------------------------------------------------------
(* Facts about code. *)

LEMMA ConsFacts ==
  ASSUME NEW o \in Ops, NEW s \in Seq(Ops)
  PROVE  /\ Cons(o, s) \in Seq(Ops) /\ Cons(o, s) # <<>>
         /\ Head(Cons(o, s)) = o /\ Tail(Cons(o, s)) = s
<1>. QED
  BY DEF Cons

LEMMA HasOpCons ==
  ASSUME NEW o \in Ops, NEW s \in Seq(Ops), NEW e
  PROVE  HasOp(Cons(o, s), e) <=> o = e \/ HasOp(s, e)
<1>1. Len(Cons(o, s)) = Len(s) + 1 /\ Cons(o, s)[1] = o /\ Len(s) \in Nat
  BY DEF Cons
<1>2. \A i \in 1 .. Len(s) : Cons(o, s)[i + 1] = s[i]
  BY DEF Cons
<1>3. ASSUME NEW i \in 1 .. Len(Cons(o, s)), Cons(o, s)[i] = e
      PROVE  o = e \/ HasOp(s, e)
  <2>1. CASE i = 1
    BY <1>1, <1>3, <2>1, Zenon
  <2>2. CASE i # 1
    <3>1. i - 1 \in 1 .. Len(s) /\ (i - 1) + 1 = i
      BY <1>1, <2>2
    <3>. QED
      BY <1>2, <1>3, <3>1, Zenon DEF HasOp
  <2>. QED
    BY <2>1, <2>2, Zenon
<1>4. ASSUME NEW i \in 1 .. Len(s), s[i] = e
      PROVE  HasOp(Cons(o, s), e)
  <2>1. i + 1 \in 1 .. Len(Cons(o, s))
    BY <1>1
  <2>. QED
    BY <1>2, <1>4, <2>1, Zenon DEF HasOp
<1>5. o = e => HasOp(Cons(o, s), e)
  BY <1>1 DEF HasOp
<1>. QED
  BY <1>3, <1>4, <1>5, Zenon DEF HasOp

\* What is to do is an operation and a rest.
LEMMA ConsAll ==
  ASSUME NEW s \in Seq(Ops), s # <<>>
  PROVE  /\ Head(s) \in Ops /\ Tail(s) \in Seq(Ops) /\ s = Cons(Head(s), Tail(s))
         /\ \A e : HasOp(s, e) <=> Head(s) = e \/ HasOp(Tail(s), e)
<1>1. Head(s) \in Ops /\ Tail(s) \in Seq(Ops) /\ s = Cons(Head(s), Tail(s))
  BY DEF Cons
<1>2. ASSUME NEW e PROVE HasOp(Cons(Head(s), Tail(s)), e) <=> Head(s) = e \/ HasOp(Tail(s), e)
  BY <1>1, HasOpCons, Zenon
<1>. QED
  BY <1>1, <1>2, Zenon

LEMMA NothingToDo == <<>> \in Seq(Ops) /\ ~At(<<>>, "spin") /\ ~At(<<>>, "resume") /\ \A e : ~HasOp(<<>>, e)
<1>1. <<>> \in Seq(Ops) /\ Len(<<>>) = 0 /\ 1 .. 0 = {}
  OBVIOUS
<1>. QED
  BY <1>1, Zenon DEF At, HasOp

\* The operation at the front leads from an entry of T to an entry of T.
LockAt(s) == Head(s)[2]

StepsTo(h, s, T) ==
  /\ s \in Seq(Ops) /\ h \subseteq Locks
  /\ At(s, "acquire") => LockAt(s) \in Locks \ h /\ <<h, Cons(spin(LockAt(s)), Tail(s))>> \in T
  /\ At(s, "spin") => LockAt(s) \in Locks \ h /\ <<h \cup {LockAt(s)}, Tail(s)>> \in T
  /\ At(s, "release") => LockAt(s) \in h /\ <<h \ {LockAt(s)}, Tail(s)>> \in T
  /\ At(s, "sched") => h = Table /\ <<h, Cons(resume, Tail(s))>> \in T
  /\ At(s, "resume") => h = Table /\ <<h, Tail(s)>> \in T
  /\ At(s, "iret") => h = None /\ <<h, Tail(s)>> \in T /\ ~HasOp(Tail(s), iret)
  /\ s # <<>> => ~At(Tail(s), "spin") /\ ~At(Tail(s), "resume")

\* A rest that is no operation under way.
Rest(s) == s \in Seq(Ops) /\ ~At(s, "spin") /\ ~At(s, "resume")

LEMMA RestCons ==
  ASSUME NEW o \in Ops, o[1] # "spin", o[1] # "resume", NEW s \in Seq(Ops)
  PROVE  Rest(Cons(o, s))
<1>. QED
  BY ConsFacts, Zenon DEF Rest, At

LEMMA OpsFacts ==
  /\ \A l \in Locks : acquire(l) \in Ops /\ spin(l) \in Ops /\ release(l) \in Ops
  /\ sched \in Ops /\ resume \in Ops /\ iret \in Ops /\ trapret \in Ops /\ iret # trapret
  /\ \A l \in Locks : /\ acquire(l)[1] = "acquire" /\ acquire(l)[2] = l
                      /\ spin(l)[1] = "spin" /\ spin(l)[2] = l
                      /\ release(l)[1] = "release" /\ release(l)[2] = l
  /\ sched[1] = "sched" /\ resume[1] = "resume" /\ iret[1] = "iret" /\ trapret[1] = "iret"
<1>. QED
  BY Zenon DEF Ops, Locks, acquire, spin, release, sched, resume, iret, trapret, Op

LEMMA AcquireSteps ==
  ASSUME NEW T, NEW h \in SUBSET Locks, NEW l \in Locks \ h, NEW r, Rest(r),
         <<h, Cons(spin(l), r)>> \in T
  PROVE  StepsTo(h, Cons(acquire(l), r), T)
<1>. DEFINE s == Cons(acquire(l), r)
<1>1. s \in Seq(Ops) /\ s # <<>> /\ Head(s) = acquire(l) /\ Tail(s) = r
  BY OpsFacts, ConsFacts DEF Rest
<1>. HIDE DEF s
<1>2. StepsTo(h, s, T)
  BY <1>1, OpsFacts, ZenonT(60) DEF StepsTo, Rest, At, LockAt
<1>. QED
  BY <1>2, Zenon DEF s

LEMMA SpinSteps ==
  ASSUME NEW T, NEW h \in SUBSET Locks, NEW l \in Locks \ h, NEW r, Rest(r),
         <<h \cup {l}, r>> \in T
  PROVE  StepsTo(h, Cons(spin(l), r), T)
<1>. DEFINE s == Cons(spin(l), r)
<1>1. s \in Seq(Ops) /\ s # <<>> /\ Head(s) = spin(l) /\ Tail(s) = r
  BY OpsFacts, ConsFacts DEF Rest
<1>. HIDE DEF s
<1>2. StepsTo(h, s, T)
  BY <1>1, OpsFacts, ZenonT(60) DEF StepsTo, Rest, At, LockAt
<1>. QED
  BY <1>2, Zenon DEF s

LEMMA ReleaseSteps ==
  ASSUME NEW T, NEW h \in SUBSET Locks, NEW l \in h, NEW r, Rest(r),
         <<h \ {l}, r>> \in T
  PROVE  StepsTo(h, Cons(release(l), r), T)
<1>. DEFINE s == Cons(release(l), r)
<1>1. s \in Seq(Ops) /\ s # <<>> /\ Head(s) = release(l) /\ Tail(s) = r
  BY OpsFacts, ConsFacts DEF Rest
<1>. HIDE DEF s
<1>2. StepsTo(h, s, T)
  BY <1>1, OpsFacts, ZenonT(60) DEF StepsTo, Rest, At, LockAt
<1>. QED
  BY <1>2, Zenon DEF s

LEMMA SchedSteps ==
  ASSUME NEW T, NEW r, Rest(r), <<Table, Cons(resume, r)>> \in T
  PROVE  StepsTo(Table, Cons(sched, r), T)
<1>. QED
  BY OpsFacts, ConsFacts, Zenon DEF StepsTo, Rest, At, LockAt, Table, Locks

LEMMA ResumeSteps ==
  ASSUME NEW T, NEW r, Rest(r), <<Table, r>> \in T
  PROVE  StepsTo(Table, Cons(resume, r), T)
<1>. QED
  BY OpsFacts, ConsFacts, Zenon DEF StepsTo, Rest, At, LockAt, Table, Locks

LEMMA IretSteps ==
  ASSUME NEW T, NEW o \in {iret, trapret}, NEW r, Rest(r), <<None, r>> \in T, ~HasOp(r, iret)
  PROVE  StepsTo(None, Cons(o, r), T)
<1>. DEFINE s == Cons(o, r)
<1>0. o \in Ops /\ o[1] = "iret"
  BY OpsFacts, Zenon
<1>1. s \in Seq(Ops) /\ s # <<>> /\ Head(s) = o /\ Tail(s) = r
  BY <1>0, ConsFacts, Zenon DEF Rest
<1>. HIDE DEF s
<1>2. StepsTo(None, s, T)
  BY <1>0, <1>1, Zenon DEF StepsTo, Rest, At, LockAt, None
<1>. QED
  BY <1>2, Zenon DEF s

LEMMA EmptySteps ==
  ASSUME NEW T, NEW h \in SUBSET Locks
  PROVE  StepsTo(h, <<>>, T)
<1>. QED
  BY DEF StepsTo, At

LEMMA HeldFacts ==
  /\ None \in SUBSET Locks /\ Table \in SUBSET Locks /\ Ticks \in SUBSET Locks
  /\ "ptable" \in Locks \ None /\ "ticks" \in Locks \ None
  /\ "ticks" \in Locks \ Table /\ "ptable" \in Locks \ Ticks
  /\ None \cup {"ptable"} = Table /\ None \cup {"ticks"} = Ticks /\ Ticks \cup {"ptable"} = Locks
  /\ "ptable" \in Table /\ "ticks" \in Ticks /\ "ptable" \in Locks /\ "ticks" \in Locks
  /\ Table \ {"ptable"} = None /\ Ticks \ {"ticks"} = None
  /\ Locks \ {"ptable"} = Ticks /\ Locks \ {"ticks"} = Table
<1>. QED
  BY Zenon DEF None, Table, Ticks, Locks

\* Every step of the clock part of a handler.
LEMMA TickEntriesStep ==
  ASSUME NEW T, NEW r, Rest(r), <<None, r>> \in T, TickEntries(r) \subseteq T,
         NEW h, NEW s, <<h, s>> \in TickEntries(r)
  PROVE  StepsTo(h, s, T)
<1>1. /\ Rest(TickEnds(r)) /\ Rest(WakeReleases(r)) /\ Rest(WakeBegins(r))
      /\ Rest(ChangeReleases(r)) /\ Rest(ChangeBegins(r)) /\ Rest(TickBegins(r))
  <2>1. Rest(TickEnds(r))
    BY RestCons, OpsFacts, HeldFacts, Zenon DEF TickEnds, Rest
  <2>2. Rest(WakeReleases(r))
    BY <2>1, RestCons, OpsFacts, HeldFacts, Zenon DEF WakeReleases, Rest
  <2>3. Rest(WakeBegins(r))
    BY <2>2, RestCons, OpsFacts, HeldFacts, Zenon DEF WakeBegins, Rest
  <2>4. Rest(ChangeReleases(r))
    BY <2>3, RestCons, OpsFacts, HeldFacts, Zenon DEF ChangeReleases, Rest
  <2>5. Rest(ChangeBegins(r))
    BY <2>4, RestCons, OpsFacts, HeldFacts, Zenon DEF ChangeBegins, Rest
  <2>6. Rest(TickBegins(r))
    BY <2>5, RestCons, OpsFacts, HeldFacts, Zenon DEF TickBegins, Rest
  <2>. QED
    BY <2>1, <2>2, <2>3, <2>4, <2>5, <2>6, Zenon
<1>2. /\ <<Ticks, TickEnds(r)>> \in T /\ <<Locks, WakeReleases(r)>> \in T
      /\ <<Ticks, WakeSpins(r)>> \in T /\ <<Ticks, WakeBegins(r)>> \in T
      /\ <<Locks, ChangeReleases(r)>> \in T /\ <<Ticks, ChangeSpins(r)>> \in T
      /\ <<Ticks, ChangeBegins(r)>> \in T /\ <<None, TickSpins(r)>> \in T
  BY Zenon DEF TickEntries
<1>3. StepsTo(Ticks, TickEnds(r), T)
  BY ReleaseSteps, HeldFacts, Zenon DEF TickEnds
<1>4. StepsTo(Locks, WakeReleases(r), T)
  BY <1>1, <1>2, ReleaseSteps, HeldFacts, Zenon DEF WakeReleases
<1>5. StepsTo(Ticks, WakeSpins(r), T)
  BY <1>1, <1>2, SpinSteps, HeldFacts, Zenon DEF WakeSpins
<1>6. StepsTo(Ticks, WakeBegins(r), T)
  BY <1>1, <1>2, AcquireSteps, HeldFacts, Zenon DEF WakeBegins, WakeSpins
<1>7. StepsTo(Locks, ChangeReleases(r), T)
  BY <1>1, <1>2, ReleaseSteps, HeldFacts, Zenon DEF ChangeReleases
<1>8. StepsTo(Ticks, ChangeSpins(r), T)
  BY <1>1, <1>2, SpinSteps, HeldFacts, Zenon DEF ChangeSpins
<1>9. StepsTo(Ticks, ChangeBegins(r), T)
  BY <1>1, <1>2, AcquireSteps, HeldFacts, Zenon DEF ChangeBegins, ChangeSpins
<1>10. StepsTo(None, TickSpins(r), T)
  BY <1>1, <1>2, SpinSteps, HeldFacts, Zenon DEF TickSpins
<1>11. StepsTo(None, TickBegins(r), T)
  BY <1>1, <1>2, AcquireSteps, HeldFacts, Zenon DEF TickBegins, TickSpins
<1>. QED
  BY <1>3, <1>4, <1>5, <1>6, <1>7, <1>8, <1>9, <1>10, <1>11, Zenon DEF TickEntries

LEMMA YieldRests ==
  ASSUME NEW u, Rest(u)
  PROVE  Rest(Returns(u)) /\ Rest(YieldReleases(u)) /\ Rest(YieldScheds(u)) /\ Rest(YieldBegins(u))
<1>1. Rest(Returns(u))
  BY RestCons, OpsFacts, Zenon DEF Returns, Rest
<1>2. Rest(YieldReleases(u))
  BY <1>1, RestCons, OpsFacts, HeldFacts, Zenon DEF YieldReleases, Rest
<1>3. Rest(YieldScheds(u))
  BY <1>2, RestCons, OpsFacts, Zenon DEF YieldScheds, Rest
<1>4. Rest(YieldBegins(u))
  BY <1>3, RestCons, OpsFacts, HeldFacts, Zenon DEF YieldBegins, Rest
<1>. QED
  BY <1>1, <1>2, <1>3, <1>4, Zenon

\* Every step of yield and the return from a handler.
LEMMA YieldEntriesStep ==
  ASSUME NEW T, NEW u, Rest(u), ~HasOp(u, iret), <<None, u>> \in T, YieldEntries(u) \subseteq T,
         NEW h, NEW s, <<h, s>> \in YieldEntries(u)
  PROVE  StepsTo(h, s, T)
<1>1. Rest(Returns(u)) /\ Rest(YieldReleases(u)) /\ Rest(YieldScheds(u)) /\ Rest(YieldBegins(u))
  BY YieldRests, Zenon
<1>2. /\ <<None, Returns(u)>> \in T /\ <<Table, YieldReleases(u)>> \in T
      /\ <<Table, YieldResumes(u)>> \in T /\ <<Table, YieldScheds(u)>> \in T
      /\ <<None, YieldSpins(u)>> \in T
  BY Zenon DEF YieldEntries
<1>3. StepsTo(None, Returns(u), T)
  BY IretSteps, Zenon DEF Returns
<1>4. StepsTo(Table, YieldReleases(u), T)
  BY <1>1, <1>2, ReleaseSteps, HeldFacts, Zenon DEF YieldReleases
<1>5. StepsTo(Table, YieldResumes(u), T)
  BY <1>1, <1>2, ResumeSteps, Zenon DEF YieldResumes
<1>6. StepsTo(Table, YieldScheds(u), T)
  BY <1>1, <1>2, SchedSteps, Zenon DEF YieldScheds, YieldResumes
<1>7. StepsTo(None, YieldSpins(u), T)
  BY <1>1, <1>2, SpinSteps, HeldFacts, Zenon DEF YieldSpins
<1>8. StepsTo(None, YieldBegins(u), T)
  BY <1>1, <1>2, AcquireSteps, HeldFacts, Zenon DEF YieldBegins, YieldSpins
<1>. QED
  BY <1>3, <1>4, <1>5, <1>6, <1>7, <1>8, Zenon DEF YieldEntries

LEMMA PreemptRests ==
  ASSUME NEW v, Rest(v)
  PROVE  Rest(PreemptReleases(v)) /\ Rest(PreemptBegins(v))
<1>1. Rest(PreemptReleases(v))
  BY RestCons, OpsFacts, HeldFacts, Zenon DEF PreemptReleases, Rest
<1>2. Rest(PreemptBegins(v))
  BY <1>1, RestCons, OpsFacts, HeldFacts, Zenon DEF PreemptBegins, Rest
<1>. QED
  BY <1>1, <1>2, Zenon

\* Every step of preempt.
LEMMA PreemptEntriesStep ==
  ASSUME NEW T, NEW v, Rest(v), <<None, v>> \in T, PreemptEntries(v) \subseteq T,
         NEW h, NEW s, <<h, s>> \in PreemptEntries(v)
  PROVE  StepsTo(h, s, T)
<1>1. Rest(PreemptReleases(v)) /\ Rest(PreemptBegins(v))
  BY PreemptRests, Zenon
<1>2. <<Table, PreemptReleases(v)>> \in T /\ <<None, PreemptSpins(v)>> \in T
  BY Zenon DEF PreemptEntries
<1>3. StepsTo(Table, PreemptReleases(v), T)
  BY <1>1, <1>2, ReleaseSteps, HeldFacts, Zenon DEF PreemptReleases
<1>4. StepsTo(None, PreemptSpins(v), T)
  BY <1>1, <1>2, SpinSteps, HeldFacts, Zenon DEF PreemptSpins
<1>5. StepsTo(None, PreemptBegins(v), T)
  BY <1>1, <1>2, AcquireSteps, HeldFacts, Zenon DEF PreemptBegins, PreemptSpins
<1>. QED
  BY <1>3, <1>4, <1>5, Zenon DEF PreemptEntries

\* The codes of sys_sleep and forkret.
LEMMA CodeRests ==
  /\ Rest(<<>>) /\ Rest(SleepReleases) /\ Rest(SleepAcquires) /\ Rest(SleepBack)
  /\ Rest(SleepScheds) /\ Rest(SleepDrops) /\ Rest(SleepTable) /\ Rest(SysBegins)
  /\ Rest(ForkReturns) /\ Rest(ForkBegins) /\ Rest(LoopBegins)
<1>. USE RestCons, OpsFacts, HeldFacts DEF Rest
<1>1. Rest(<<>>)
  BY NothingToDo, Zenon
<1>2. Rest(SleepReleases) /\ Rest(ForkReturns) /\ Rest(LoopBegins)
  BY <1>1, Zenon DEF SleepReleases, ForkReturns, LoopBegins
<1>3. Rest(SleepAcquires) /\ Rest(ForkBegins)
  BY <1>2, Zenon DEF SleepAcquires, ForkBegins
<1>4. Rest(SleepBack)
  BY <1>3, Zenon DEF SleepBack
<1>5. Rest(SleepScheds)
  BY <1>4, Zenon DEF SleepScheds
<1>6. Rest(SleepDrops)
  BY <1>5, Zenon DEF SleepDrops
<1>7. Rest(SleepTable)
  BY <1>6, Zenon DEF SleepTable
<1>8. Rest(SysBegins)
  BY <1>7, Zenon DEF SysBegins
<1>. QED
  BY <1>1, <1>2, <1>3, <1>4, <1>5, <1>6, <1>7, <1>8, Zenon

LEMMA SleepEntriesStep ==
  ASSUME NEW T, SleepEntries \subseteq T, NEW h, NEW s, <<h, s>> \in SleepEntries
  PROVE  StepsTo(h, s, T)
<1>1. /\ <<None, <<>>>> \in T /\ <<Ticks, SleepReleases>> \in T /\ <<None, SleepSpins>> \in T
      /\ <<None, SleepAcquires>> \in T /\ <<Table, SleepBack>> \in T /\ <<Table, SleepResumes>> \in T
      /\ <<Table, SleepScheds>> \in T /\ <<Locks, SleepDrops>> \in T
      /\ <<Ticks, SleepSpinsTable>> \in T /\ <<Ticks, SleepTable>> \in T /\ <<None, SysSpins>> \in T
  BY Zenon DEF SleepEntries
<1>. USE CodeRests, HeldFacts
<1>2. StepsTo(None, <<>>, T)
  BY EmptySteps, Zenon
<1>3. StepsTo(Ticks, SleepReleases, T)
  BY <1>1, ReleaseSteps, Zenon DEF SleepReleases
<1>4. StepsTo(None, SleepSpins, T)
  BY <1>1, SpinSteps, Zenon DEF SleepSpins
<1>5. StepsTo(None, SleepAcquires, T)
  BY <1>1, AcquireSteps, Zenon DEF SleepAcquires, SleepSpins
<1>6. StepsTo(Table, SleepBack, T)
  BY <1>1, ReleaseSteps, Zenon DEF SleepBack
<1>7. StepsTo(Table, SleepResumes, T)
  BY <1>1, ResumeSteps, Zenon DEF SleepResumes
<1>8. StepsTo(Table, SleepScheds, T)
  BY <1>1, SchedSteps, Zenon DEF SleepScheds, SleepResumes
<1>9. StepsTo(Locks, SleepDrops, T)
  BY <1>1, ReleaseSteps, Zenon DEF SleepDrops
<1>10. StepsTo(Ticks, SleepSpinsTable, T)
  BY <1>1, SpinSteps, Zenon DEF SleepSpinsTable
<1>11. StepsTo(Ticks, SleepTable, T)
  BY <1>1, AcquireSteps, Zenon DEF SleepTable, SleepSpinsTable
<1>12. StepsTo(None, SysSpins, T)
  BY <1>1, SpinSteps, Zenon DEF SysSpins
<1>13. StepsTo(None, SysBegins, T)
  BY <1>1, AcquireSteps, Zenon DEF SysBegins, SysSpins
<1>. QED
  BY <1>2, <1>3, <1>4, <1>5, <1>6, <1>7, <1>8, <1>9, <1>10, <1>11, <1>12, <1>13, Zenon DEF SleepEntries

LEMMA AtCons ==
  ASSUME NEW o \in Ops, NEW s \in Seq(Ops), NEW k
  PROVE  At(Cons(o, s), k) <=> o[1] = k
<1>. QED
  BY ConsFacts, Zenon DEF At

\* Code that is not over, whose front is no switch, and whose handler is not over.
Inside(s) == s \in Seq(Ops) /\ s # <<>> /\ HasOp(s, iret)

LEMMA InsideCons ==
  ASSUME NEW o \in Ops, NEW s, Inside(s)
  PROVE  Inside(Cons(o, s))
<1>. QED
  BY ConsFacts, HasOpCons, Zenon DEF Inside

LEMMA TickEntriesKind ==
  ASSUME NEW r, Inside(r), NEW h, NEW s, <<h, s>> \in TickEntries(r)
  PROVE  Inside(s) /\ ~At(s, "sched") /\ ~At(s, "resume")
<1>. DEFINE Kind(q) == Inside(q) /\ ~At(q, "sched") /\ ~At(q, "resume")
<1>1. /\ Kind(TickEnds(r)) /\ Kind(WakeReleases(r)) /\ Kind(WakeSpins(r)) /\ Kind(WakeBegins(r))
      /\ Kind(ChangeReleases(r)) /\ Kind(ChangeSpins(r)) /\ Kind(ChangeBegins(r))
      /\ Kind(TickSpins(r)) /\ Kind(TickBegins(r))
  <2>. USE OpsFacts, HeldFacts
  <2>0. ASSUME NEW o \in Ops, o[1] # "sched", o[1] # "resume", NEW q, Inside(q)
        PROVE  Kind(Cons(o, q))
    <3>1. Inside(Cons(o, q)) /\ q \in Seq(Ops)
      BY <2>0, InsideCons DEF Inside
    <3>. QED
      BY <2>0, <3>1, AtCons, Zenon
  <2>1. Kind(TickEnds(r))
    BY <2>0, Zenon DEF TickEnds
  <2>2. Kind(WakeReleases(r))
    BY <2>0, <2>1, Zenon DEF WakeReleases
  <2>3. Kind(WakeSpins(r)) /\ Kind(WakeBegins(r))
    BY <2>0, <2>2, Zenon DEF WakeSpins, WakeBegins
  <2>4. Kind(ChangeReleases(r))
    BY <2>0, <2>3, Zenon DEF ChangeReleases
  <2>5. Kind(ChangeSpins(r)) /\ Kind(ChangeBegins(r))
    BY <2>0, <2>4, Zenon DEF ChangeSpins, ChangeBegins
  <2>6. Kind(TickSpins(r)) /\ Kind(TickBegins(r))
    BY <2>0, <2>5, Zenon DEF TickSpins, TickBegins
  <2>. QED
    BY <2>1, <2>2, <2>3, <2>4, <2>5, <2>6, Zenon
<1>. HIDE DEF Kind
<1>2. Kind(s)
  BY <1>1, Zenon DEF TickEntries
<1>. QED
  BY <1>2, Zenon DEF Kind

LEMMA TickBeginsKind ==
  ASSUME NEW r, Rest(r), Inside(r)
  PROVE  Rest(TickBegins(r)) /\ Inside(TickBegins(r))
<1>1. <<None, TickBegins(r)>> \in TickEntries(r)
  BY Zenon DEF TickEntries
<1>2. Inside(TickBegins(r)) /\ ~At(TickBegins(r), "resume")
  BY <1>1, TickEntriesKind, Zenon
<1>3. ChangeBegins(r) \in Seq(Ops)
  <2>1. <<Ticks, ChangeBegins(r)>> \in TickEntries(r)
    BY Zenon DEF TickEntries
  <2>. QED
    BY <2>1, TickEntriesKind, Zenon DEF Inside
<1>4. acquire("ticks") \in Ops /\ acquire("ticks")[1] = "acquire"
  BY OpsFacts, HeldFacts, Zenon
<1>5. ~At(TickBegins(r), "spin")
  BY <1>3, <1>4, AtCons, Zenon DEF TickBegins
<1>. QED
  BY <1>2, <1>5, Zenon DEF Rest, Inside

LEMMA YieldEntriesKind ==
  ASSUME NEW u \in Seq(Ops)
  PROVE  /\ \A h, s : <<h, s>> \in YieldEntries(u) => Inside(s)
         /\ Inside(YieldBegins(u)) /\ Inside(Returns(u))
<1>1. Inside(Returns(u))
  BY OpsFacts, ConsFacts, HasOpCons DEF Returns, Inside
<1>2. Inside(YieldReleases(u))
  BY <1>1, OpsFacts, HeldFacts, InsideCons, Zenon DEF YieldReleases
<1>3. Inside(YieldResumes(u)) /\ Inside(YieldScheds(u))
  BY <1>2, OpsFacts, InsideCons, Zenon DEF YieldResumes, YieldScheds
<1>4. Inside(YieldSpins(u)) /\ Inside(YieldBegins(u))
  BY <1>3, OpsFacts, HeldFacts, InsideCons, Zenon DEF YieldSpins, YieldBegins
<1>. QED
  BY <1>1, <1>2, <1>3, <1>4, Zenon DEF YieldEntries

LEMMA PreemptEntriesKind ==
  ASSUME NEW v, Inside(v)
  PROVE  /\ \A h, s : <<h, s>> \in PreemptEntries(v) => Inside(s)
         /\ Inside(PreemptBegins(v))
<1>1. Inside(PreemptReleases(v))
  BY OpsFacts, HeldFacts, InsideCons, Zenon DEF PreemptReleases
<1>2. Inside(PreemptSpins(v)) /\ Inside(PreemptBegins(v))
  BY <1>1, OpsFacts, HeldFacts, InsideCons, Zenon DEF PreemptSpins, PreemptBegins
<1>. QED
  BY <1>1, <1>2, Zenon DEF PreemptEntries

LEMMA HandlersKind ==
  ASSUME NEW u, Rest(u), NEW r \in Handlers(u)
  PROVE  Rest(r) /\ Inside(r)
<1>1. u \in Seq(Ops)
  BY Zenon DEF Rest
<1>2. Rest(Returns(u)) /\ Rest(YieldBegins(u)) /\ Inside(Returns(u)) /\ Inside(YieldBegins(u))
  BY <1>1, YieldRests, YieldEntriesKind, Zenon
<1>3. /\ Rest(PreemptBegins(Returns(u))) /\ Rest(PreemptBegins(YieldBegins(u)))
      /\ Inside(PreemptBegins(Returns(u))) /\ Inside(PreemptBegins(YieldBegins(u)))
  BY <1>2, PreemptRests, PreemptEntriesKind, Zenon
<1>. QED
  BY <1>2, <1>3, Zenon DEF Handlers

\* Code outside of a handler, of sys_sleep: neither iret is ahead.
Plain(s) == s \in Seq(Ops) /\ ~HasOp(s, iret) /\ ~HasOp(s, trapret)

LEMMA PlainCons ==
  ASSUME NEW o \in Ops, o # iret, o # trapret, NEW s, Plain(s)
  PROVE  Plain(Cons(o, s)) /\ Cons(o, s) # <<>>
<1>. QED
  BY ConsFacts, HasOpCons, Zenon DEF Plain

LEMMA OpsDiffer ==
  /\ \A l \in Locks : /\ acquire(l) # iret /\ acquire(l) # trapret
                      /\ spin(l) # iret /\ spin(l) # trapret
                      /\ release(l) # iret /\ release(l) # trapret
  /\ sched # iret /\ sched # trapret /\ resume # iret /\ resume # trapret
<1>. QED
  BY OpsFacts, Zenon

LEMMA SleepCodes ==
  /\ Plain(<<>>)
  /\ \A s \in {SleepReleases, SleepSpins, SleepAcquires, SleepBack, SleepResumes, SleepScheds,
               SleepDrops, SleepSpinsTable, SleepTable, SysSpins, SysBegins} : Plain(s) /\ s # <<>>
<1>. DEFINE Good(s) == Plain(s) /\ s # <<>>
<1>0. ASSUME NEW o \in Ops, o # iret, o # trapret, NEW s, Plain(s)
      PROVE  Good(Cons(o, s))
  BY <1>0, PlainCons, Zenon
<1>1. Plain(<<>>)
  BY NothingToDo, Zenon DEF Plain
<1>. USE OpsFacts, HeldFacts, OpsDiffer
<1>2. Good(SleepReleases)
  BY <1>0, <1>1 DEF SleepReleases
<1>3. Good(SleepSpins) /\ Good(SleepAcquires)
  BY <1>0, <1>2 DEF SleepSpins, SleepAcquires
<1>4. Good(SleepBack)
  BY <1>0, <1>3 DEF SleepBack
<1>5. Good(SleepResumes) /\ Good(SleepScheds)
  BY <1>0, <1>4 DEF SleepResumes, SleepScheds
<1>6. Good(SleepDrops)
  BY <1>0, <1>5 DEF SleepDrops
<1>7. Good(SleepSpinsTable) /\ Good(SleepTable)
  BY <1>0, <1>6 DEF SleepSpinsTable, SleepTable
<1>8. Good(SysSpins) /\ Good(SysBegins)
  BY <1>0, <1>7 DEF SysSpins, SysBegins
<1>. QED
  BY <1>1, <1>2, <1>3, <1>4, <1>5, <1>6, <1>7, <1>8

LEMMA SpinCodes == At(SleepSpins, "spin") /\ At(SysSpins, "spin")
<1>1. SleepReleases \in Seq(Ops) /\ SleepTable \in Seq(Ops)
  BY CodeRests, Zenon DEF Rest
<1>. QED
  BY <1>1, AtCons, OpsFacts, HeldFacts DEF SleepSpins, SysSpins

LEMMA SleepEntriesKind ==
  ASSUME NEW h, NEW s, <<h, s>> \in SleepEntries
  PROVE  /\ Plain(s) /\ (s = <<>> => h = None)
         /\ h = None /\ ~At(s, "spin") => s \in ProcBases
<1>1. Plain(s) /\ (s = <<>> => h = None)
  BY SleepCodes, Zenon DEF SleepEntries
<1>2. None # Table /\ None # Ticks /\ None # Locks
  BY HeldFacts, Zenon DEF None
<1>. QED
  BY <1>1, <1>2, SpinCodes, Zenon DEF SleepEntries, ProcBases

LEMMA ForkCodes ==
  /\ ForkReturns \in Seq(Ops) /\ ForkBegins \in Seq(Ops)
  /\ ForkReturns # <<>> /\ ForkBegins # <<>>
  /\ HasOp(ForkReturns, trapret) /\ HasOp(ForkBegins, trapret)
  /\ ~HasOp(ForkReturns, iret) /\ ~HasOp(ForkBegins, iret)
  /\ ~At(ForkReturns, "sched") /\ ~At(ForkBegins, "sched")
<1>1. ForkReturns \in Seq(Ops) /\ ForkBegins \in Seq(Ops)
  BY CodeRests, Zenon DEF Rest
<1>2. <<>> \in Seq(Ops) /\ trapret \in Ops /\ release("ptable") \in Ops
  BY NothingToDo, OpsFacts, HeldFacts, Zenon
<1>3. ForkReturns # <<>> /\ ForkBegins # <<>>
  BY <1>1, <1>2, ConsFacts, Zenon DEF ForkReturns, ForkBegins
<1>4. HasOp(ForkReturns, trapret) /\ ~HasOp(ForkReturns, iret)
  BY <1>2, HasOpCons, NothingToDo, OpsFacts, Zenon DEF ForkReturns
<1>5. HasOp(ForkBegins, trapret) /\ ~HasOp(ForkBegins, iret)
  BY <1>1, <1>2, <1>4, HasOpCons, OpsFacts, HeldFacts, OpsDiffer, Zenon DEF ForkBegins
<1>6. ~At(ForkReturns, "sched") /\ ~At(ForkBegins, "sched")
  BY <1>1, <1>2, AtCons, OpsFacts, HeldFacts, Zenon DEF ForkReturns, ForkBegins
<1>. QED
  BY <1>1, <1>3, <1>4, <1>5, <1>6, Zenon

\* The places of a process where it may be interrupted.
LEMMA ProcBasesKind ==
  ASSUME NEW u \in ProcBases
  PROVE  Rest(u) /\ u \in Seq(Ops) /\ ~HasOp(u, iret) /\ <<None, u>> \in ProcTable
<1>1. Rest(u)
  BY CodeRests, Zenon DEF ProcBases
<1>2. ~HasOp(u, iret)
  BY SleepCodes, ForkCodes, Zenon DEF ProcBases, Plain
<1>3. <<None, u>> \in ProcTable
  BY Zenon DEF ProcBases, ProcTable, SleepEntries, ForkEntries
<1>. QED
  BY <1>1, <1>2, <1>3, Zenon DEF Rest

\* The table has the places of a handler on top of every place that may be interrupted.
LEMMA HandlersInTable ==
  ASSUME NEW u \in ProcBases
  PROVE  /\ HandlerEntries(u) \subseteq ProcTable
         /\ \A r \in Handlers(u) : <<None, r>> \in ProcTable /\ TickEntries(r) \subseteq ProcTable
<1>1. HandlerEntries(u) \subseteq ProcTable
  BY Zenon DEF ProcTable
<1>2. ASSUME NEW r \in Handlers(u) PROVE <<None, r>> \in HandlerEntries(u)
  BY Zenon DEF Handlers, HandlerEntries, YieldEntries, PreemptEntries
<1>3. ASSUME NEW r \in Handlers(u) PROVE TickEntries(r) \subseteq HandlerEntries(u)
  BY Zenon DEF HandlerEntries
<1>. QED
  BY <1>1, <1>2, <1>3, Zenon

LEMMA ProcTableSteps ==
  ASSUME NEW h, NEW s, <<h, s>> \in ProcTable
  PROVE  StepsTo(h, s, ProcTable)
<1>1. CASE <<h, s>> \in SleepEntries
  <2>1. SleepEntries \subseteq ProcTable
    BY Zenon DEF ProcTable
  <2>. QED
    BY <1>1, <2>1, SleepEntriesStep, Zenon
<1>2. CASE <<h, s>> \in ForkEntries
  <2>1. <<None, <<>>>> \in ProcTable /\ <<None, ForkReturns>> \in ProcTable
    BY Zenon DEF ProcTable, SleepEntries, ForkEntries
  <2>2. StepsTo(None, ForkReturns, ProcTable)
    BY <2>1, IretSteps, CodeRests, NothingToDo, Zenon DEF ForkReturns
  <2>3. StepsTo(Table, ForkBegins, ProcTable)
    BY <2>1, ReleaseSteps, CodeRests, HeldFacts, Zenon DEF ForkBegins
  <2>. QED
    BY <1>2, <2>2, <2>3, Zenon DEF ForkEntries
<1>3. ASSUME NEW u \in ProcBases, <<h, s>> \in HandlerEntries(u)
      PROVE  StepsTo(h, s, ProcTable)
  <2>0. HandlerEntries(u) \subseteq ProcTable
    BY HandlersInTable, Zenon
  <2>1. /\ YieldEntries(u) \subseteq ProcTable /\ PreemptEntries(Returns(u)) \subseteq ProcTable
        /\ PreemptEntries(YieldBegins(u)) \subseteq ProcTable
    BY <2>0, Zenon DEF HandlerEntries
  <2>2. Rest(u) /\ ~HasOp(u, iret) /\ <<None, u>> \in ProcTable
    BY ProcBasesKind, Zenon
  <2>3. CASE <<h, s>> \in YieldEntries(u)
    BY <2>1, <2>2, <2>3, YieldEntriesStep, Zenon
  <2>4. CASE <<h, s>> \in PreemptEntries(Returns(u)) \/ <<h, s>> \in PreemptEntries(YieldBegins(u))
    <3>1. <<None, Returns(u)>> \in ProcTable /\ <<None, YieldBegins(u)>> \in ProcTable
      BY <2>1, Zenon DEF YieldEntries
    <3>2. Rest(Returns(u)) /\ Rest(YieldBegins(u))
      BY <2>2, YieldRests, Zenon
    <3>. QED
      BY <2>1, <2>4, <3>1, <3>2, PreemptEntriesStep, Zenon
  <2>5. ASSUME NEW r \in Handlers(u), <<h, s>> \in TickEntries(r)
        PROVE  StepsTo(h, s, ProcTable)
    <3>1. <<None, r>> \in ProcTable /\ TickEntries(r) \subseteq ProcTable
      BY HandlersInTable, Zenon
    <3>2. Rest(r)
      BY <2>2, HandlersKind, Zenon
    <3>. QED
      BY <2>5, <3>1, <3>2, TickEntriesStep, Zenon
  <2>. QED
    BY <1>3, <2>3, <2>4, <2>5, Zenon DEF HandlerEntries
<1>. QED
  BY <1>1, <1>2, <1>3, Zenon DEF ProcTable

\* What the place of a process tells.
LEMMA ProcTableKind ==
  ASSUME NEW h, NEW s, <<h, s>> \in ProcTable
  PROVE  /\ s = <<>> => h = None
         /\ h = None /\ ~At(s, "spin") /\ ~HasOp(s, iret) => s \in ProcBases
         /\ At(s, "sched") => HasOp(s, iret) \/ ~HasOp(s, trapret)
<1>1. CASE <<h, s>> \in SleepEntries
  BY <1>1, SleepEntriesKind, Zenon DEF Plain
<1>2. CASE <<h, s>> \in ForkEntries
  <2>1. None # Table
    BY Zenon DEF None, Table
  <2>. QED
    BY <1>2, <2>1, ForkCodes, Zenon DEF ForkEntries, ProcBases
<1>3. ASSUME NEW u \in ProcBases, <<h, s>> \in HandlerEntries(u)
      PROVE  Inside(s)
  <2>1. Rest(u) /\ u \in Seq(Ops)
    BY ProcBasesKind, Zenon
  <2>2. Inside(Returns(u)) /\ Inside(YieldBegins(u))
    BY <2>1, YieldEntriesKind, Zenon
  <2>3. CASE <<h, s>> \in YieldEntries(u)
    BY <2>1, <2>3, YieldEntriesKind, Zenon
  <2>4. CASE <<h, s>> \in PreemptEntries(Returns(u)) \/ <<h, s>> \in PreemptEntries(YieldBegins(u))
    BY <2>2, <2>4, PreemptEntriesKind, Zenon
  <2>5. ASSUME NEW r \in Handlers(u), <<h, s>> \in TickEntries(r) PROVE Inside(s)
    BY <2>1, <2>5, HandlersKind, TickEntriesKind, Zenon
  <2>. QED
    BY <1>3, <2>3, <2>4, <2>5, Zenon DEF HandlerEntries
<1>. QED
  BY <1>1, <1>2, <1>3, Zenon DEF ProcTable, Inside

LEMMA LoopBasesKind ==
  ASSUME NEW u \in LoopBases
  PROVE  Rest(u) /\ u \in Seq(Ops) /\ ~HasOp(u, iret) /\ <<None, u>> \in LoopTable
<1>1. Rest(u)
  BY CodeRests, Zenon DEF LoopBases
<1>2. ~HasOp(LoopBegins, iret)
  <2>1. acquire("ptable") \in Ops /\ acquire("ptable") # iret
    BY OpsFacts, HeldFacts, OpsDiffer, Zenon
  <2>2. <<>> \in Seq(Ops) /\ ~HasOp(<<>>, iret)
    BY NothingToDo, Zenon
  <2>. QED
    BY <2>1, <2>2, HasOpCons, Zenon DEF LoopBegins
<1>3. ~HasOp(u, iret)
  BY <1>2, NothingToDo, Zenon DEF LoopBases
<1>4. <<None, u>> \in LoopTable
  BY Zenon DEF LoopBases, LoopTable
<1>. QED
  BY <1>1, <1>3, <1>4, Zenon DEF Rest

LoopSpins == Cons(spin("ptable"), <<>>)
LoopEnds == Cons(release("ptable"), <<>>)
LoopEntries ==
  {<<None, <<>>>>, <<Table, <<>>>>, <<None, LoopBegins>>, <<None, LoopSpins>>, <<Table, LoopEnds>>}

LEMMA LoopTableSteps ==
  ASSUME NEW h, NEW s, <<h, s>> \in LoopTable
  PROVE  StepsTo(h, s, LoopTable)
<1>1. LoopEntries \subseteq LoopTable
  BY Zenon DEF LoopTable, LoopEntries, LoopSpins, LoopEnds
<1>2. CASE <<h, s>> \in LoopEntries
  <2>1. /\ <<None, <<>>>> \in LoopTable /\ <<Table, <<>>>> \in LoopTable
        /\ <<None, LoopSpins>> \in LoopTable
    BY <1>1, Zenon DEF LoopEntries
  <2>2. StepsTo(None, <<>>, LoopTable) /\ StepsTo(Table, <<>>, LoopTable)
    BY EmptySteps, HeldFacts, Zenon
  <2>3. StepsTo(None, LoopBegins, LoopTable)
    BY <2>1, AcquireSteps, CodeRests, HeldFacts, Zenon DEF LoopBegins, LoopSpins
  <2>4. StepsTo(None, LoopSpins, LoopTable)
    BY <2>1, SpinSteps, CodeRests, HeldFacts, Zenon DEF LoopSpins
  <2>5. StepsTo(Table, LoopEnds, LoopTable)
    BY <2>1, ReleaseSteps, CodeRests, HeldFacts, Zenon DEF LoopEnds
  <2>. QED
    BY <1>2, <2>2, <2>3, <2>4, <2>5, Zenon DEF LoopEntries
<1>3. ASSUME NEW u \in LoopBases, <<h, s>> \in {<<None, Returns(u)>>} \cup TickEntries(Returns(u))
      PROVE  StepsTo(h, s, LoopTable)
  <2>1. <<None, Returns(u)>> \in LoopTable /\ TickEntries(Returns(u)) \subseteq LoopTable
    BY DEF LoopTable
  <2>2. StepsTo(None, Returns(u), LoopTable)
    BY LoopBasesKind, IretSteps, Zenon DEF Returns
  <2>3. Rest(Returns(u))
    BY LoopBasesKind, RestCons, OpsFacts, Zenon DEF Returns
  <2>4. CASE <<h, s>> \in TickEntries(Returns(u))
    BY <2>1, <2>3, <2>4, TickEntriesStep, Zenon
  <2>. QED
    BY <1>3, <2>2, <2>4, Zenon
<1>. QED
  BY <1>2, <1>3, Zenon DEF LoopTable, LoopEntries, LoopSpins, LoopEnds

LEMMA InterruptEntries ==
  /\ \A u \in LoopBases : <<None, Returns(u)>> \in LoopTable
  /\ \A u \in LoopBases : \A e \in TickEntries(Returns(u)) : e \in LoopTable
<1>. DEFINE Places(u) == {<<None, Returns(u)>>} \cup TickEntries(Returns(u))
<1>2. ASSUME NEW u \in LoopBases, NEW e \in Places(u) PROVE e \in LoopTable
  <2>1. e \in UNION {Places(v) : v \in LoopBases}
    <3>. HIDE DEF Places
    <3>. QED
      BY Zenon
  <2>. QED
    BY <2>1, Zenon DEF LoopTable
<1>. QED
  BY <1>2, Zenon

\* What the place of a scheduler tells: it is not in sched itself.
LEMMA LoopTableKind ==
  ASSUME NEW h, NEW s, <<h, s>> \in LoopTable
  PROVE  /\ ~At(s, "sched") /\ ~At(s, "resume")
         /\ h = None /\ ~At(s, "spin") /\ ~HasOp(s, iret) => s \in LoopBases
         /\ s = <<>> => h \in {None, Table}
<1>1. CASE <<h, s>> \in LoopEntries
  <2>1. <<>> \in Seq(Ops)
    BY NothingToDo, Zenon
  <2>2. /\ At(LoopBegins, "acquire") /\ At(LoopSpins, "spin") /\ At(LoopEnds, "release")
    <3>1. acquire("ptable") \in Ops /\ spin("ptable") \in Ops /\ release("ptable") \in Ops
      BY OpsFacts, HeldFacts, Zenon
    <3>2. /\ acquire("ptable")[1] = "acquire" /\ spin("ptable")[1] = "spin"
          /\ release("ptable")[1] = "release"
      BY OpsFacts, HeldFacts, Zenon
    <3>. QED
      BY <2>1, <3>1, <3>2, AtCons, Zenon DEF LoopBegins, LoopSpins, LoopEnds
  <2>3. None # Table
    BY Zenon DEF None, Table
  <2>4. s \in {<<>>, LoopBegins, LoopSpins, LoopEnds} /\ h \in {None, Table}
    BY <1>1, Zenon DEF LoopEntries
  <2>5. s = LoopEnds => h = Table \/ s = <<>> \/ s = LoopBegins \/ s = LoopSpins
    BY <1>1, Zenon DEF LoopEntries
  <2>. QED
    BY <2>2, <2>3, <2>4, <2>5, Zenon DEF LoopBases, At
<1>2. ASSUME NEW u \in LoopBases, <<h, s>> \in {<<None, Returns(u)>>} \cup TickEntries(Returns(u))
      PROVE  Inside(s) /\ ~At(s, "sched") /\ ~At(s, "resume")
  <2>1. u \in Seq(Ops)
    BY LoopBasesKind, Zenon
  <2>2. Inside(Returns(u))
    BY <2>1, YieldEntriesKind, Zenon
  <2>3. ~At(Returns(u), "sched") /\ ~At(Returns(u), "resume")
    BY <2>1, AtCons, OpsFacts, Zenon DEF Returns
  <2>. QED
    BY <1>2, <2>2, <2>3, TickEntriesKind, Zenon
<1>. QED
  BY <1>1, <1>2, Zenon DEF LoopTable, LoopEntries, LoopSpins, LoopEnds, Inside
LEMMA TableSteps ==
  ASSUME NEW x, NEW h, NEW s, <<h, s>> \in TableOf(x)
  PROVE  StepsTo(h, s, TableOf(x))
<1>. QED
  BY ProcTableSteps, LoopTableSteps, Zenon DEF TableOf

-----------------------------------------------------------------------------
(* The code of the model is the code of the tables. *)

\* A tuple, as an operation and a rest.
LEMMA TupleCons ==
  ASSUME NEW t \in Seq(Ops), NEW q \in Seq(Ops), Len(t) = Len(q) + 1,
         \A i \in 1 .. Len(q) : t[i + 1] = q[i]
  PROVE  t = Cons(t[1], q)
<1>0. t[1] \in Ops /\ Len(q) \in Nat
  OBVIOUS
<1>1. /\ Cons(t[1], q) \in Seq(Ops) /\ Len(Cons(t[1], q)) = Len(q) + 1 /\ Cons(t[1], q)[1] = t[1]
      /\ \A i \in 1 .. Len(q) : Cons(t[1], q)[i + 1] = q[i]
  BY <1>0 DEF Cons
<1>2. ASSUME NEW i \in 1 .. Len(t) PROVE t[i] = Cons(t[1], q)[i]
  <2>1. CASE i = 1
    BY <1>1, <2>1, Zenon
  <2>2. CASE i # 1
    <3>1. i - 1 \in 1 .. Len(q) /\ (i - 1) + 1 = i
      BY <1>0, <2>2
    <3>. QED
      BY <1>1, <3>1, Zenon
  <2>. QED
    BY <2>1, <2>2, Zenon
<1>. QED
  BY <1>1, <1>2

LEMMA Tuples ==
  ASSUME NEW a \in Ops, NEW b \in Ops, NEW c \in Ops, NEW d \in Ops, NEW e \in Ops
  PROVE  /\ <<a>> = Cons(a, <<>>)
         /\ <<a, b>> = Cons(a, Cons(b, <<>>))
         /\ <<a, b, c>> = Cons(a, Cons(b, Cons(c, <<>>)))
         /\ <<a, b, c, d, e>> = Cons(a, Cons(b, Cons(c, Cons(d, Cons(e, <<>>)))))
<1>1. ASSUME NEW x \in Ops PROVE <<x>> = Cons(x, <<>>)
  BY <1>1 DEF Cons
<1>2. ASSUME NEW x \in Ops, NEW y \in Ops PROVE <<x, y>> = Cons(x, <<y>>)
  <2>1. <<x, y>> \in Seq(Ops) /\ <<y>> \in Seq(Ops) /\ Len(<<x, y>>) = Len(<<y>>) + 1
    OBVIOUS
  <2>2. \A i \in 1 .. Len(<<y>>) : <<x, y>>[i + 1] = <<y>>[i]
    OBVIOUS
  <2>. QED
    BY <2>1, <2>2, TupleCons, Zenon
<1>3. ASSUME NEW x \in Ops, NEW y \in Ops, NEW z \in Ops PROVE <<x, y, z>> = Cons(x, <<y, z>>)
  <2>1. <<x, y, z>> \in Seq(Ops) /\ <<y, z>> \in Seq(Ops) /\ Len(<<x, y, z>>) = Len(<<y, z>>) + 1
    OBVIOUS
  <2>2. \A i \in 1 .. Len(<<y, z>>) : <<x, y, z>>[i + 1] = <<y, z>>[i]
    OBVIOUS
  <2>. QED
    BY <2>1, <2>2, TupleCons, Zenon
<1>4. <<b, c, d, e>> = Cons(b, <<c, d, e>>)
  <2>1. /\ <<b, c, d, e>> \in Seq(Ops) /\ <<c, d, e>> \in Seq(Ops)
        /\ Len(<<b, c, d, e>>) = Len(<<c, d, e>>) + 1
    OBVIOUS
  <2>2. \A i \in 1 .. Len(<<c, d, e>>) : <<b, c, d, e>>[i + 1] = <<c, d, e>>[i]
    OBVIOUS
  <2>. QED
    BY <2>1, <2>2, TupleCons, Zenon
<1>5. <<a, b, c, d, e>> = Cons(a, <<b, c, d, e>>)
  <2>1. /\ <<a, b, c, d, e>> \in Seq(Ops) /\ <<b, c, d, e>> \in Seq(Ops)
        /\ Len(<<a, b, c, d, e>>) = Len(<<b, c, d, e>>) + 1
    OBVIOUS
  <2>2. \A i \in 1 .. Len(<<b, c, d, e>>) : <<a, b, c, d, e>>[i + 1] = <<b, c, d, e>>[i]
    OBVIOUS
  <2>. QED
    BY <2>1, <2>2, TupleCons, Zenon
<1>6. <<a, b>> = Cons(a, Cons(b, <<>>))
  BY <1>1, <1>2, Zenon
<1>7. ASSUME NEW x \in Ops, NEW y \in Ops, NEW z \in Ops
      PROVE  <<x, y, z>> = Cons(x, Cons(y, Cons(z, <<>>)))
  <2>1. <<y, z>> = Cons(y, Cons(z, <<>>))
    BY <1>1, <1>2
  <2>. QED
    BY <1>3, <2>1
<1>8. <<a, b, c, d, e>> = Cons(a, Cons(b, Cons(c, Cons(d, Cons(e, <<>>)))))
  <2>1. <<c, d, e>> = Cons(c, Cons(d, Cons(e, <<>>)))
    BY <1>7
  <2>. QED
    BY <1>4, <1>5, <2>1, Zenon
<1>. QED
  BY <1>1, <1>6, <1>7, <1>8, Zenon

LEMMA CodeShapes == Sys_sleep = SysBegins /\ Forkret = ForkBegins
<1>1. /\ acquire("ptable") \in Ops /\ release("ptable") \in Ops /\ sched \in Ops
      /\ acquire("ticks") \in Ops /\ release("ticks") \in Ops /\ trapret \in Ops
  BY OpsFacts, HeldFacts, Zenon
<1>2. /\ SleepReleases \in Seq(Ops) /\ SleepTable \in Seq(Ops) /\ SleepDrops \in Seq(Ops)
      /\ SleepScheds \in Seq(Ops) /\ SleepBack \in Seq(Ops) /\ SleepAcquires \in Seq(Ops)
  BY CodeRests, Zenon DEF Rest
<1>3. ASSUME NEW r \in Seq(Ops)
      PROVE  Sleep("ticks") \o r = Cons(acquire("ptable"), Cons(release("ticks"), Cons(sched,
                                     Cons(release("ptable"), Cons(acquire("ticks"), r)))))
  <2>1. Sleep("ticks") = Cons(acquire("ptable"), Cons(release("ticks"), Cons(sched,
                           Cons(release("ptable"), Cons(acquire("ticks"), <<>>)))))
    BY <1>1, Tuples DEF Sleep
  <2>2. <<>> \in Seq(Ops) /\ <<>> \o r = r
    OBVIOUS
  <2>3. ASSUME NEW o \in Ops, NEW s \in Seq(Ops), s \o r \in Seq(Ops)
        PROVE  Cons(o, s) \in Seq(Ops) /\ Cons(o, s) \o r = Cons(o, s \o r) /\ Cons(o, s) \o r \in Seq(Ops)
    BY DEF Cons
  <2>. DEFINE s1 == Cons(acquire("ticks"), <<>>)
              s2 == Cons(release("ptable"), s1)
              s3 == Cons(sched, s2)
              s4 == Cons(release("ticks"), s3)
  <2>4. s1 \in Seq(Ops) /\ s1 \o r = Cons(acquire("ticks"), r) /\ s1 \o r \in Seq(Ops)
    BY <1>1, <2>2, <2>3, ZenonT(60)
  <2>5. s2 \in Seq(Ops) /\ s2 \o r = Cons(release("ptable"), s1 \o r) /\ s2 \o r \in Seq(Ops)
    BY <1>1, <2>4, <2>3, Zenon
  <2>6. s3 \in Seq(Ops) /\ s3 \o r = Cons(sched, s2 \o r) /\ s3 \o r \in Seq(Ops)
    BY <1>1, <2>5, <2>3, Zenon
  <2>7. s4 \in Seq(Ops) /\ s4 \o r = Cons(release("ticks"), s3 \o r) /\ s4 \o r \in Seq(Ops)
    BY <1>1, <2>6, <2>3, Zenon
  <2>8. Cons(acquire("ptable"), s4) \o r = Cons(acquire("ptable"), s4 \o r)
    BY <1>1, <2>7, <2>3, Zenon
  <2>. QED
    BY <2>1, <2>4, <2>5, <2>6, <2>7, <2>8, Zenon
<1>4. Sleep("ticks") \o <<release("ticks")>> = SleepTable
  BY <1>1, <1>2, <1>3, Tuples, Zenon
     DEF SleepTable, SleepDrops, SleepScheds, SleepBack, SleepAcquires, SleepReleases
<1>5. Sleep("ticks") \in Seq(Ops)
  BY <1>1 DEF Sleep
<1>6. Sys_sleep = SysBegins
  <2>1. Sys_sleep = <<acquire("ticks")>> \o (Sleep("ticks") \o <<release("ticks")>>)
    BY <1>1, <1>5 DEF Sys_sleep
  <2>. QED
    BY <1>4, <2>1, Zenon DEF SysBegins, Cons
<1>7. Forkret = ForkBegins
  BY <1>1, Tuples, Zenon DEF Forkret, ForkBegins, ForkReturns
<1>. QED
  BY <1>6, <1>7, Zenon

\* What the timer interrupt puts in front of the interrupted code u.
LEMMA HandlerShapes ==
  ASSUME NEW u \in Seq(Ops)
  PROVE  /\ \A y \in TrapEnds : \E r \in Handlers(u) :
              <<>> \o y \o <<iret>> \o u = r /\ Tick \o y \o <<iret>> \o u = TickBegins(r)
         /\ <<>> \o <<>> \o <<iret>> \o u = Returns(u)
         /\ Tick \o <<>> \o <<iret>> \o u = TickBegins(Returns(u))
<1>1. <<iret>> \o u = Returns(u) /\ Returns(u) \in Seq(Ops)
  BY OpsFacts, ConsFacts, Zenon DEF Returns, Cons
<1>2. /\ acquire("ptable") \in Ops /\ release("ptable") \in Ops /\ sched \in Ops /\ iret \in Ops
      /\ acquire("ticks") \in Ops /\ release("ticks") \in Ops
  BY OpsFacts, HeldFacts, Zenon
<1>3. ASSUME NEW r \in Seq(Ops)
      PROVE  Yield \o r = Cons(acquire("ptable"), Cons(sched, Cons(release("ptable"), r)))
  <2>1. Yield = Cons(acquire("ptable"), Cons(sched, Cons(release("ptable"), <<>>)))
    BY <1>2, Tuples DEF Yield
  <2>. QED
    BY <1>2, <2>1 DEF Cons
<1>4. YieldBegins(u) \in Seq(Ops) /\ Yield \o Returns(u) = YieldBegins(u)
  <2>1. YieldBegins(u) \in Seq(Ops)
    BY YieldEntriesKind, Zenon DEF Inside
  <2>. QED
    BY <1>1, <1>3, <2>1, Zenon DEF YieldBegins, YieldScheds, YieldReleases
<1>5. /\ change_ticks = Cons(acquire("ptable"), Cons(release("ptable"), <<>>))
      /\ wakeup = Cons(acquire("ptable"), Cons(release("ptable"), <<>>))
      /\ preempt = Cons(acquire("ptable"), Cons(release("ptable"), <<>>))
  BY <1>2, Tuples DEF change_ticks, wakeup, preempt
<1>6. ASSUME NEW r \in Seq(Ops) PROVE Tick \o r = TickBegins(r)
  <2>1. Tick = <<acquire("ticks")>> \o Cons(acquire("ptable"), Cons(release("ptable"), <<>>))
               \o Cons(acquire("ptable"), Cons(release("ptable"), <<>>)) \o <<release("ticks")>>
    BY <1>5, Zenon DEF Tick
  <2>. QED
    BY <1>2, <2>1 DEF TickBegins, ChangeBegins, ChangeReleases, WakeBegins,
                      WakeReleases, TickEnds, Cons
<1>7. ASSUME NEW r \in Seq(Ops)
      PROVE  preempt \o r = PreemptBegins(r) /\ PreemptBegins(r) \in Seq(Ops)
  BY <1>2, <1>5 DEF PreemptBegins, PreemptReleases, Cons
<1>8. Tick \in Seq(Ops) /\ Yield \in Seq(Ops) /\ preempt \in Seq(Ops) /\ preempt \o Yield \in Seq(Ops)
  BY <1>2, <1>5 DEF Tick, Yield, Cons
<1>9. ASSUME NEW x \in Seq(Ops), NEW y \in Seq(Ops), NEW z \in Seq(Ops)
      PROVE  (x \o y) \o z = x \o (y \o z)
  BY SMTT(40)
<1>. DEFINE Nested(x, y, z) == x \o y \o z \o u = x \o (y \o (z \o u))
<1>10. ASSUME NEW a \in Seq(Ops), NEW b \in Seq(Ops), NEW i \in Seq(Ops)
       PROVE  Nested(a, b, i)
  <2>1. a \o b \in Seq(Ops) /\ i \o u \in Seq(Ops)
    OBVIOUS
  <2>2. a \o b \o i \o u = (a \o b) \o (i \o u)
    <3>. DEFINE ab == a \o b
    <3>1. ab \in Seq(Ops)
      BY <2>1, Zenon
    <3>. HIDE DEF ab
    <3>2. ab \o i \o u = ab \o (i \o u)
      BY <1>9, <3>1, Zenon
    <3>. QED
      BY <3>2, Zenon DEF ab
  <2>3. (a \o b) \o (i \o u) = a \o (b \o (i \o u))
    <3>. DEFINE iu == i \o u
    <3>1. iu \in Seq(Ops)
      BY <2>1, Zenon
    <3>. HIDE DEF iu
    <3>2. \A z \in Seq(Ops) : (a \o b) \o z = a \o (b \o z)
      BY <1>9, Zenon
    <3>3. (a \o b) \o iu = a \o (b \o iu)
      BY <3>1, <3>2, Zenon
    <3>. QED
      BY <3>3, Zenon DEF iu
  <2>. QED
    BY <2>2, <2>3, Zenon
<1>. HIDE DEF Nested
<1>11. ASSUME NEW r \in Seq(Ops) PROVE <<>> \o r = r
  OBVIOUS
<1>12. <<>> \in Seq(Ops) /\ <<iret>> \in Seq(Ops)
  BY <1>2
<1>13. ASSUME NEW y \in Seq(Ops), NEW r \in Seq(Ops), y \o Returns(u) = r
       PROVE  <<>> \o y \o <<iret>> \o u = r /\ Tick \o y \o <<iret>> \o u = TickBegins(r)
  <2>1. /\ <<>> \o y \o <<iret>> \o u = <<>> \o (y \o (<<iret>> \o u))
        /\ Tick \o y \o <<iret>> \o u = Tick \o (y \o (<<iret>> \o u))
    <3>1. PICK e \in Seq(Ops) : e = <<>>
      BY <1>12, Zenon
    <3>2. PICK i \in Seq(Ops) : i = <<iret>>
      BY <1>12, Zenon
    <3>3. PICK k \in Seq(Ops) : k = Tick
      BY <1>8, Zenon
    <3>4. Nested(e, y, i) /\ Nested(k, y, i)
      BY <1>10, Zenon
    <3>5. Nested(<<>>, y, <<iret>>) /\ Nested(Tick, y, <<iret>>)
      BY <3>1, <3>2, <3>3, <3>4, Zenon
    <3>. QED
      BY <3>5, Zenon DEF Nested
  <2>2. /\ <<>> \o y \o <<iret>> \o u = <<>> \o r
        /\ Tick \o y \o <<iret>> \o u = Tick \o r
    BY <1>1, <1>13, <2>1, ZenonT(60)
  <2>. QED
    BY <1>6, <1>11, <2>2, ZenonT(60)
<1>14. <<>> \o Returns(u) = Returns(u)
  BY <1>1, <1>11, Zenon
<1>15. preempt \o Returns(u) = PreemptBegins(Returns(u)) /\ PreemptBegins(Returns(u)) \in Seq(Ops)
  BY <1>1, <1>7, Zenon
<1>16. /\ (preempt \o Yield) \o Returns(u) = PreemptBegins(YieldBegins(u))
       /\ PreemptBegins(YieldBegins(u)) \in Seq(Ops)
  <2>1. (preempt \o Yield) \o Returns(u) = preempt \o (Yield \o Returns(u))
    <3>1. PICK a \in Seq(Ops) : a = preempt
      BY <1>8, Zenon
    <3>2. PICK b \in Seq(Ops) : b = Yield
      BY <1>8, Zenon
    <3>3. PICK v \in Seq(Ops) : v = Returns(u)
      BY <1>1, Zenon
    <3>4. \A z \in Seq(Ops) : (a \o b) \o z = a \o (b \o z)
      BY <1>9, Zenon
    <3>5. (a \o b) \o v = a \o (b \o v)
      BY <3>4, Zenon
    <3>. QED
      BY <3>1, <3>2, <3>3, <3>5, Zenon
  <2>. QED
    BY <1>4, <1>7, <2>1, Zenon
<1>17. /\ <<>> \o <<>> \o <<iret>> \o u = Returns(u)
       /\ Tick \o <<>> \o <<iret>> \o u = TickBegins(Returns(u))
  BY <1>1, <1>12, <1>13, <1>14, Zenon
<1>18. ASSUME NEW y \in TrapEnds
       PROVE  \E r \in Handlers(u) : r \in Seq(Ops) /\ y \in Seq(Ops) /\ y \o Returns(u) = r
  <2>1. CASE y = <<>>
    BY <1>1, <1>12, <1>14, <2>1, Zenon DEF Handlers
  <2>2. CASE y = Yield
    BY <1>4, <1>8, <2>2, Zenon DEF Handlers
  <2>3. CASE y = preempt
    BY <1>8, <1>15, <2>3, Zenon DEF Handlers
  <2>4. CASE y = preempt \o Yield
    BY <1>8, <1>16, <2>4, Zenon DEF Handlers
  <2>. QED
    BY <2>1, <2>2, <2>3, <2>4, Zenon DEF TrapEnds
<1>19. ASSUME NEW y \in TrapEnds
       PROVE  \E r \in Handlers(u) :
                <<>> \o y \o <<iret>> \o u = r /\ Tick \o y \o <<iret>> \o u = TickBegins(r)
  BY <1>13, <1>18, Zenon
<1>. QED
  BY <1>17, <1>19, Zenon
-----------------------------------------------------------------------------
(* The steps. *)

LEMMA CountLocks ==
  ASSUME NEW h \in SUBSET Locks
  PROVE  /\ Cardinality(h) \in Nat /\ (Cardinality(h) = 0 <=> h = None)
         /\ Cardinality(Table) = 1 /\ Cardinality(None) = 0
         /\ \A l \in Locks \ h : Cardinality(h \cup {l}) = Cardinality(h) + 1
         /\ \A l \in h : Cardinality(h \ {l}) = Cardinality(h) - 1 /\ Cardinality(h) > 0
<1>1. IsFiniteSet(h)
  <2>1. Locks = {"ptable"} \cup {"ticks"}
    BY Zenon DEF Locks
  <2>2. IsFiniteSet(Locks)
    BY <2>1, FS_Singleton, FS_Union, Zenon
  <2>. QED
    BY <2>2, FS_Subset, Zenon
<1>2. Cardinality(h) \in Nat /\ (Cardinality(h) = 0 <=> h = {})
  BY <1>1, FS_CardinalityType, FS_EmptySet, Zenon
<1>3. Cardinality(Table) = 1 /\ Cardinality(None) = 0
  BY FS_Singleton, FS_EmptySet, Zenon DEF Table, None
<1>4. ASSUME NEW l \in Locks \ h PROVE Cardinality(h \cup {l}) = Cardinality(h) + 1
  BY <1>1, FS_AddElement, Zenon
<1>5. ASSUME NEW l \in h PROVE Cardinality(h \ {l}) = Cardinality(h) - 1
  BY <1>1, FS_RemoveElement, Zenon
<1>6. \A l \in h : Cardinality(h) > 0
  BY <1>2
<1>. QED
  BY <1>2, <1>3, <1>4, <1>5, <1>6, Zenon DEF None

\* Only an iret changes whether one is ahead.
LEMMA TailKeeps ==
  ASSUME NEW s \in Seq(Ops), s # <<>>, ~At(s, "iret")
  PROVE  /\ HasOp(Tail(s), iret) <=> HasOp(s, iret)
         /\ HasOp(Tail(s), trapret) <=> HasOp(s, trapret)
<1>1. Head(s) # iret /\ Head(s) # trapret
  BY OpsFacts, Zenon DEF At
<1>. QED
  BY <1>1, ConsAll, Zenon

\* A step of CPU c in the context it runs, which it keeps.
LocalStep(c) ==
  /\ cur' = cur /\ kept' = kept
  /\ code' = [code EXCEPT ![cur[c]] = code'[cur[c]]]
  /\ \A d \in Cpus \ {c} : /\ Held(d)' = Held(d) /\ ncli'[d] = ncli[d]
                           /\ IF_'[d] = IF_[d] /\ intena'[d] = intena[d]

LEMMA LocalKeeps ==
  ASSUME SlInv, NEW c \in Cpus, LocalStep(c), SlTypeOK', CpuOK(c)', FlagOK(c)',
         ~At(code'[cur[c]], "resume")
  PROVE  SlInv'
<1>. USE SpinLockAssumption
<1>0. SlTypeOK /\ CpuOK(c) /\ cur[c] \in Contexts
  BY Zenon DEF SlInv, SlTypeOK
<1>1. \A y \in Contexts : y # cur[c] => code'[y] = code[y]
  BY <1>0, Zenon DEF LocalStep, SlTypeOK
<1>2. ASSUME NEW d \in Cpus, d # c PROVE CpuOK(d)' /\ FlagOK(d)'
  <2>1. CpuOK(d) /\ FlagOK(d) /\ cur[d] # cur[c] /\ cur[d] \in Contexts
    BY <1>2, Zenon DEF SlInv, SlTypeOK
  <2>2. code'[cur'[d]] = code[cur[d]] /\ cur'[d] = cur[d]
    BY <1>1, <2>1, Zenon DEF LocalStep
  <2>3. d # cur[c] /\ d \in Contexts
    BY <1>0, <1>2, Zenon DEF CpuOK, Contexts
  <2>4. code'[d] = code[d]
    BY <1>1, <2>3, Zenon
  <2>5. Held(d)' = Held(d) /\ ncli'[d] = ncli[d] /\ IF_'[d] = IF_[d] /\ intena'[d] = intena[d]
    BY <1>2, Zenon DEF LocalStep
  <2>6. CpuOK(d)'
    BY <2>1, <2>2, <2>4, <2>5, Zenon DEF CpuOK, TableOf
  <2>7. FlagOK(d)'
    BY <2>1, <2>2, <2>5, Zenon DEF FlagOK
  <2>. QED
    BY <2>6, <2>7, Zenon
<1>3. ASSUME NEW p \in SlProcs PROVE KeptOK(p)' /\ WaitingOK(p)'
  <2>0. KeptOK(p) /\ WaitingOK(p) /\ p \in Contexts
    BY Zenon DEF SlInv, Contexts
  <2>1. CASE p = cur[c]
    <3>1. ~Waiting(p)'
      BY <2>1, Zenon DEF Waiting, LocalStep
    <3>. QED
      BY <2>1, <3>1, Zenon DEF KeptOK, WaitingOK
  <2>2. CASE p # cur[c]
    <3>1. code'[p] = code[p] /\ kept'[p] = kept[p]
      BY <1>1, <2>0, <2>2, Zenon DEF LocalStep
    <3>2. Waiting(p)' => Waiting(p)
      BY Zenon DEF Waiting, LocalStep
    <3>. QED
      BY <2>0, <3>1, <3>2, Zenon DEF KeptOK, WaitingOK
  <2>. QED
    BY <2>1, <2>2, Zenon
<1>4. \A d, e \in Cpus : cur'[d] = cur'[e] => d = e
  BY Zenon DEF LocalStep, SlInv
<1>. QED
  BY <1>2, <1>3, <1>4, Zenon DEF SlInv

\* What holds where CPU c is.
LEMMA AtEntry ==
  ASSUME SlInv, NEW c \in Cpus
  PROVE  /\ SlTypeOK /\ CpuOK(c) /\ FlagOK(c) /\ cur[c] \in Contexts
         /\ Held(c) \in SUBSET Locks
         /\ StepsTo(Held(c), code[cur[c]], TableOf(cur[c]))
         /\ code[cur[c]] \in Seq(Ops)
<1>1. SlTypeOK /\ CpuOK(c) /\ FlagOK(c) /\ cur[c] \in Contexts
  BY Zenon DEF SlInv, SlTypeOK
<1>2. StepsTo(Held(c), code[cur[c]], TableOf(cur[c]))
  BY <1>1, TableSteps, Zenon DEF CpuOK
<1>. QED
  BY <1>1, <1>2, Zenon DEF SlTypeOK, Held
LEMMA AcquireKeeps ==
  ASSUME SlInv, NEW c \in Cpus, Acquire(c)
  PROVE  SlInv'
<1>. DEFINE x == cur[c]
            s == code[x]
            l == LockAt(s)
            t == Cons(spin(l), Tail(s))
<1>0. /\ SlTypeOK /\ CpuOK(c) /\ FlagOK(c) /\ x \in Contexts /\ Held(c) \in SUBSET Locks
      /\ StepsTo(Held(c), s, TableOf(x)) /\ s \in Seq(Ops)
  BY AtEntry, Zenon
<1>1. s # <<>> /\ At(s, "acquire") /\ ~At(s, "spin") /\ ~At(s, "resume") /\ ~At(s, "iret")
  BY Zenon DEF Acquire, Next1, At
<1>2. l \in Locks \ Held(c) /\ <<Held(c), t>> \in TableOf(x)
  BY <1>0, <1>1, Zenon DEF StepsTo
<1>3. Tail(s) \in Seq(Ops) /\ spin(l) \in Ops
  BY <1>0, <1>1, <1>2, ConsAll, OpsFacts, Zenon
<1>4. t \in Seq(Ops) /\ At(t, "spin") /\ ~At(t, "resume")
  <2>1. spin(l)[1] = "spin"
    BY <1>2, OpsFacts, Zenon
  <2>. QED
    BY <1>3, <2>1, ConsFacts, AtCons, Zenon
<1>5. (HasOp(t, iret) <=> HasOp(s, iret)) /\ (HasOp(t, trapret) <=> HasOp(s, trapret))
  <2>1. spin(l) # iret /\ spin(l) # trapret
    BY <1>2, OpsDiffer, Zenon
  <2>2. (HasOp(t, iret) <=> HasOp(Tail(s), iret)) /\ (HasOp(t, trapret) <=> HasOp(Tail(s), trapret))
    BY <1>3, <2>1, HasOpCons, Zenon
  <2>. QED
    BY <1>0, <1>1, <2>2, TailKeeps, Zenon
<1>6. code' = [code EXCEPT ![x] = t] /\ cur' = cur /\ kept' = kept /\ lkcpu' = lkcpu
  BY Zenon DEF Acquire, Becomes, LockOf, LockAt, Cons, spin
<1>. HIDE DEF t, s
<1>7. code'[x] = t /\ code' \in [Contexts -> Seq(Ops)] /\ \A d : Held(d)' = Held(d)
  BY <1>0, <1>4, <1>6, Zenon DEF SlTypeOK, Held
<1>8. /\ ncli' = [ncli EXCEPT ![c] = ncli[c] + 1] /\ IF_' = [IF_ EXCEPT ![c] = FALSE]
      /\ intena' = IF ncli[c] = 0 THEN [intena EXCEPT ![c] = IF_[c]] ELSE intena
  BY Zenon DEF Acquire, Notes
<1>9. /\ ncli[c] \in Nat /\ ncli'[c] = ncli[c] + 1 /\ ~IF_'[c]
      /\ intena'[c] = (IF ncli[c] = 0 THEN IF_[c] ELSE intena[c])
  BY <1>0, <1>8, Zenon DEF SlTypeOK
<1>10. SlTypeOK'
  BY <1>0, <1>6, <1>7, <1>8 DEF SlTypeOK
<1>11. LocalStep(c)
  BY <1>0, <1>6, <1>7, <1>8, Zenon DEF LocalStep, SlTypeOK
<1>12. CpuOK(c)'
  <2>1. ncli[c] = Cardinality(Held(c))
    BY <1>0, <1>1, CountLocks DEF CpuOK, s
  <2>2. cur[c] # c => cur[c] \in SlProcs /\ code'[c] = <<>>
    BY <1>0, <1>6 DEF CpuOK, SlTypeOK
  <2>. QED
    BY <1>2, <1>4, <1>6, <1>7, <1>9, <2>1, <2>2, Zenon DEF CpuOK, TableOf
<1>13. FlagOK(c)'
  <2>1. HasOp(t, iret) => ~intena'[c]
    BY <1>0, <1>1, <1>5, <1>9 DEF FlagOK, s
  <2>2. x \in SlProcs /\ ~HasOp(t, iret) /\ ~HasOp(t, trapret) => intena'[c]
    BY <1>0, <1>1, <1>5, <1>9 DEF FlagOK, s
  <2>. QED
    BY <1>6, <1>7, <1>9, <2>1, <2>2 DEF FlagOK
<1>. QED
  BY <1>4, <1>7, <1>10, <1>11, <1>12, <1>13, LocalKeeps, Zenon
\* A step that ends the operation at the front.
LEMMA EndsFront ==
  ASSUME SlInv, NEW c \in Cpus, code[cur[c]] # <<>>, GoesOn(c)
  PROVE  /\ code' = [code EXCEPT ![cur[c]] = Tail(code[cur[c]])]
         /\ code'[cur[c]] = Tail(code[cur[c]]) /\ code' \in [Contexts -> Seq(Ops)]
         /\ ~At(Tail(code[cur[c]]), "spin") /\ ~At(Tail(code[cur[c]]), "resume")
         /\ cur[c] # c => cur[c] \in SlProcs /\ code'[c] = <<>>
<1>. DEFINE x == cur[c]
            s == code[x]
<1>0. /\ SlTypeOK /\ CpuOK(c) /\ x \in Contexts /\ StepsTo(Held(c), s, TableOf(x)) /\ s \in Seq(Ops)
  BY AtEntry, Zenon
<1>1. ~At(Tail(s), "spin") /\ ~At(Tail(s), "resume") /\ Tail(s) \in Seq(Ops)
  BY <1>0, ConsAll, Zenon DEF StepsTo
<1>2. code' = [code EXCEPT ![x] = Tail(s)]
  BY Zenon DEF GoesOn
<1>. HIDE DEF s
<1>3. code'[x] = Tail(s) /\ code' \in [Contexts -> Seq(Ops)]
  BY <1>0, <1>1, <1>2, Zenon DEF SlTypeOK
<1>4. x # c => x \in SlProcs /\ code'[c] = <<>>
  BY <1>0, <1>2 DEF CpuOK, SlTypeOK
<1>. QED
  BY <1>1, <1>2, <1>3, <1>4, Zenon DEF s

LEMMA SpinKeeps ==
  ASSUME SlInv, NEW c \in Cpus, Spin(c)
  PROVE  SlInv'
<1>. DEFINE x == cur[c]
            s == code[x]
            l == LockAt(s)
            h == Held(c) \cup {l}
<1>0. /\ SlTypeOK /\ CpuOK(c) /\ FlagOK(c) /\ x \in Contexts /\ Held(c) \in SUBSET Locks
      /\ StepsTo(Held(c), s, TableOf(x)) /\ s \in Seq(Ops)
  BY AtEntry, Zenon
<1>1. s # <<>> /\ At(s, "spin") /\ ~At(s, "resume") /\ ~At(s, "iret")
  BY Zenon DEF Spin, Next1, At
<1>2. l \in Locks \ Held(c) /\ <<h, Tail(s)>> \in TableOf(x)
  BY <1>0, <1>1, Zenon DEF StepsTo
<1>3. /\ code' = [code EXCEPT ![x] = Tail(s)] /\ code'[x] = Tail(s) /\ code' \in [Contexts -> Seq(Ops)]
      /\ ~At(Tail(s), "spin") /\ ~At(Tail(s), "resume") /\ (x # c => x \in SlProcs /\ code'[c] = <<>>)
  BY <1>1, EndsFront, Zenon DEF Spin
<1>4. (HasOp(Tail(s), iret) <=> HasOp(s, iret)) /\ (HasOp(Tail(s), trapret) <=> HasOp(s, trapret))
  BY <1>0, <1>1, TailKeeps, Zenon
<1>5. /\ lkcpu' = [lkcpu EXCEPT ![l] = c] /\ lkcpu[l] = Free
      /\ IF_' = IF_ /\ ncli' = ncli /\ intena' = intena /\ cur' = cur /\ kept' = kept
  BY Zenon DEF Spin, LockOf, LockAt
<1>. HIDE DEF s, l
<1>6. Held(c)' = h /\ \A d \in Cpus \ {c} : Held(d)' = Held(d)
  BY <1>0, <1>2, <1>5, SpinLockAssumption DEF Held, SlTypeOK
<1>7. SlTypeOK'
  BY <1>0, <1>2, <1>3, <1>5, Zenon DEF SlTypeOK
<1>8. LocalStep(c)
  BY <1>3, <1>5, <1>6, Zenon DEF LocalStep
<1>9. ncli[c] = Cardinality(h) /\ ncli[c] > 0 /\ ~IF_[c]
  <2>1. ncli[c] = Cardinality(Held(c)) + 1
    BY <1>0, <1>1, Zenon DEF CpuOK, s
  <2>2. Cardinality(Held(c)) \in Nat /\ Cardinality(h) = Cardinality(Held(c)) + 1
    BY <1>0, <1>2, CountLocks, Zenon
  <2>. QED
    BY <1>0, <2>1, <2>2 DEF CpuOK
<1>. HIDE DEF h
<1>10. CpuOK(c)'
  <2>1. Cardinality(h) + 0 = Cardinality(h)
    BY <1>0, <1>9 DEF SlTypeOK
  <2>. QED
    BY <1>2, <1>3, <1>5, <1>6, <1>9, <2>1, Zenon DEF CpuOK, TableOf
<1>11. FlagOK(c)'
  BY <1>0, <1>1, <1>3, <1>4, <1>5, <1>9, Zenon DEF FlagOK, s
<1>. QED
  BY <1>3, <1>7, <1>8, <1>10, <1>11, LocalKeeps, Zenon

LEMMA ReleaseKeeps ==
  ASSUME SlInv, NEW c \in Cpus, Release(c)
  PROVE  SlInv'
<1>. DEFINE x == cur[c]
            s == code[x]
            l == LockAt(s)
            h == Held(c) \ {l}
<1>0. /\ SlTypeOK /\ CpuOK(c) /\ FlagOK(c) /\ x \in Contexts /\ Held(c) \in SUBSET Locks
      /\ StepsTo(Held(c), s, TableOf(x)) /\ s \in Seq(Ops)
  BY AtEntry, Zenon
<1>1. s # <<>> /\ At(s, "release") /\ ~At(s, "spin") /\ ~At(s, "resume") /\ ~At(s, "iret")
  BY Zenon DEF Release, Next1, At
<1>2. l \in Held(c) /\ <<h, Tail(s)>> \in TableOf(x)
  BY <1>0, <1>1, Zenon DEF StepsTo
<1>3. /\ code' = [code EXCEPT ![x] = Tail(s)] /\ code'[x] = Tail(s) /\ code' \in [Contexts -> Seq(Ops)]
      /\ ~At(Tail(s), "spin") /\ ~At(Tail(s), "resume") /\ (x # c => x \in SlProcs /\ code'[c] = <<>>)
  BY <1>1, EndsFront, Zenon DEF Release
<1>4. (HasOp(Tail(s), iret) <=> HasOp(s, iret)) /\ (HasOp(Tail(s), trapret) <=> HasOp(s, trapret))
  BY <1>0, <1>1, TailKeeps, Zenon
<1>5. /\ lkcpu' = [lkcpu EXCEPT ![l] = Free] /\ ncli' = [ncli EXCEPT ![c] = ncli[c] - 1]
      /\ IF_' = IF Sti(c) THEN [IF_ EXCEPT ![c] = TRUE] ELSE IF_
      /\ intena' = intena /\ cur' = cur /\ kept' = kept
  BY Zenon DEF Release, LockOf, LockAt
<1>. HIDE DEF s, l
<1>6. Held(c)' = h /\ \A d \in Cpus \ {c} : Held(d)' = Held(d)
  BY <1>0, <1>2, <1>5, SpinLockAssumption, Zenon DEF Held, SlTypeOK
<1>7. /\ ncli[c] = Cardinality(Held(c)) /\ ncli[c] > 0 /\ ncli[c] - 1 = Cardinality(h)
      /\ ncli[c] \in Nat /\ ~IF_[c]
  <2>1. ncli[c] = Cardinality(Held(c)) + 0
    BY <1>0, <1>1, Zenon DEF CpuOK, s
  <2>2. /\ Cardinality(Held(c)) \in Nat /\ Cardinality(Held(c)) > 0
        /\ Cardinality(h) = Cardinality(Held(c)) - 1
    BY <1>0, <1>2, CountLocks, Zenon
  <2>. QED
    BY <1>0, <2>1, <2>2 DEF CpuOK
<1>. HIDE DEF h
<1>8. ncli'[c] = ncli[c] - 1 /\ IF_'[c] = (ncli[c] - 1 = 0 /\ intena[c])
  BY <1>0, <1>5, <1>7, Zenon DEF SlTypeOK, Sti
<1>9. SlTypeOK'
  BY <1>0, <1>2, <1>3, <1>5, <1>7 DEF SlTypeOK, Held
<1>10. LocalStep(c)
  BY <1>0, <1>3, <1>5, <1>6, Zenon DEF LocalStep, SlTypeOK
<1>11. CpuOK(c)'
  <2>1. Cardinality(h) + 0 = Cardinality(h)
    BY <1>7
  <2>. QED
    BY <1>2, <1>3, <1>5, <1>6, <1>7, <1>8, <2>1, Zenon DEF CpuOK, TableOf
<1>12. FlagOK(c)'
  <2>1. HasOp(s, iret) => ~intena[c]
    BY <1>0, <1>1, <1>7, Zenon DEF FlagOK, s
  <2>2. x \in SlProcs /\ ~HasOp(s, iret) /\ ~HasOp(s, trapret) => intena[c]
    BY <1>0, <1>1, <1>7, Zenon DEF FlagOK, s
  <2>. QED
    BY <1>3, <1>4, <1>5, <1>8, <2>1, <2>2, Zenon DEF FlagOK
<1>. QED
  BY <1>3, <1>9, <1>10, <1>11, <1>12, LocalKeeps, Zenon
LEMMA ResumeKeeps ==
  ASSUME SlInv, NEW c \in Cpus, Resume(c)
  PROVE  SlInv'
<1>. DEFINE x == cur[c]
            s == code[x]
<1>0. /\ SlTypeOK /\ CpuOK(c) /\ FlagOK(c) /\ x \in Contexts /\ Held(c) \in SUBSET Locks
      /\ StepsTo(Held(c), s, TableOf(x)) /\ s \in Seq(Ops)
  BY AtEntry, Zenon
<1>1. s # <<>> /\ At(s, "resume") /\ ~At(s, "spin") /\ ~At(s, "iret")
  BY Zenon DEF Resume, Next1, At
<1>2. Held(c) = Table /\ <<Held(c), Tail(s)>> \in TableOf(x)
  BY <1>0, <1>1, Zenon DEF StepsTo
<1>3. x \in SlProcs /\ kept[x] = ~HasOp(s, iret) /\ kept[x] \in BOOLEAN
  <2>1. x \in SlProcs
    BY <1>0, <1>1, LoopTableKind, Zenon DEF CpuOK, TableOf
  <2>. QED
    BY <1>0, <1>1, <2>1, Zenon DEF SlInv, KeptOK, SlTypeOK
<1>4. /\ code' = [code EXCEPT ![x] = Tail(s)] /\ code'[x] = Tail(s) /\ code' \in [Contexts -> Seq(Ops)]
      /\ ~At(Tail(s), "spin") /\ ~At(Tail(s), "resume") /\ (x # c => x \in SlProcs /\ code'[c] = <<>>)
  BY <1>1, EndsFront, Zenon DEF Resume
<1>5. (HasOp(Tail(s), iret) <=> HasOp(s, iret)) /\ (HasOp(Tail(s), trapret) <=> HasOp(s, trapret))
  BY <1>0, <1>1, TailKeeps, Zenon
<1>6. /\ intena' = [intena EXCEPT ![c] = kept[x]]
      /\ lkcpu' = lkcpu /\ IF_' = IF_ /\ ncli' = ncli /\ cur' = cur /\ kept' = kept
  BY Zenon DEF Resume, Restored
<1>. HIDE DEF s
<1>7. \A d : Held(d)' = Held(d)
  BY <1>6, Zenon DEF Held
<1>8. intena'[c] = ~HasOp(s, iret) /\ \A d \in Cpus \ {c} : intena'[d] = intena[d]
  BY <1>0, <1>3, <1>6, Zenon DEF SlTypeOK
<1>9. SlTypeOK'
  BY <1>0, <1>3, <1>4, <1>6, Zenon DEF SlTypeOK
<1>10. LocalStep(c)
  BY <1>4, <1>6, <1>7, <1>8, Zenon DEF LocalStep
<1>11. ncli[c] = Cardinality(Held(c)) + 0 /\ ncli[c] = 1 /\ ~IF_[c]
  <2>1. ncli[c] = Cardinality(Held(c)) + 0
    BY <1>0, <1>1, Zenon DEF CpuOK, s
  <2>2. Cardinality(Held(c)) = 1
    BY <1>0, <1>2, CountLocks, Zenon
  <2>. QED
    BY <1>0, <2>1, <2>2 DEF CpuOK
<1>12. CpuOK(c)'
  BY <1>2, <1>4, <1>6, <1>7, <1>11, Zenon DEF CpuOK, TableOf
<1>13. FlagOK(c)'
  <2>1. code'[cur'[c]] = Tail(s) /\ ~IF_'[c] /\ ncli'[c] = 1
    BY <1>4, <1>6, <1>11, Zenon
  <2>2. HasOp(Tail(s), iret) => ~intena'[c]
    BY <1>5, <1>8, Zenon
  <2>3. ~HasOp(Tail(s), iret) => intena'[c]
    BY <1>5, <1>8, Zenon
  <2>. QED
    BY <2>1, <2>2, <2>3 DEF FlagOK
<1>. QED
  BY <1>4, <1>9, <1>10, <1>12, <1>13, LocalKeeps, Zenon

\* A step to code t that leaves the locks and ncli alone.
LEMMA BeginsKeeps ==
  ASSUME SlInv, NEW c \in Cpus, NEW t \in Seq(Ops),
         code' = [code EXCEPT ![cur[c]] = t],
         UNCHANGED <<lkcpu, ncli, intena, cur, kept>>,
         IF_' \in [Cpus -> BOOLEAN], \A d \in Cpus \ {c} : IF_'[d] = IF_[d],
         ~At(code[cur[c]], "spin"), ~At(t, "spin"), ~At(t, "resume"),
         <<Held(c), t>> \in TableOf(cur[c]),
         IF_'[c] => ncli[c] = 0,
         HasOp(t, iret) => ~IF_'[c] /\ ncli[c] = 0,
         cur[c] \in SlProcs /\ ~HasOp(t, iret) /\ ~HasOp(t, trapret) => IF_'[c]
  PROVE  SlInv'
<1>. DEFINE x == cur[c]
            s == code[x]
<1>0. /\ SlTypeOK /\ CpuOK(c) /\ FlagOK(c) /\ x \in Contexts
  BY AtEntry, Zenon
<1>1. code'[x] = t /\ code' \in [Contexts -> Seq(Ops)] /\ (x # c => x \in SlProcs /\ code'[c] = <<>>)
  BY <1>0 DEF SlTypeOK, CpuOK
<1>2. \A d : Held(d)' = Held(d)
  BY Zenon DEF Held
<1>3. SlTypeOK'
  BY <1>0, <1>1, Zenon DEF SlTypeOK
<1>4. LocalStep(c)
  BY <1>1, <1>2, Zenon DEF LocalStep
<1>5. ncli[c] = Cardinality(Held(c)) + 0
  BY <1>0, Zenon DEF CpuOK
<1>6. CpuOK(c)'
  BY <1>1, <1>2, <1>5, Zenon DEF CpuOK, TableOf
<1>7. ncli[c] \in Nat
  BY <1>0, Zenon DEF SlTypeOK
<1>8. FlagOK(c)'
  BY <1>1, <1>7 DEF FlagOK
<1>. QED
  BY <1>1, <1>3, <1>4, <1>6, <1>8, LocalKeeps, Zenon

LEMMA IretKeeps ==
  ASSUME SlInv, NEW c \in Cpus, Iret(c)
  PROVE  SlInv'
<1>. DEFINE x == cur[c]
            s == code[x]
<1>0. /\ SlTypeOK /\ CpuOK(c) /\ FlagOK(c) /\ x \in Contexts /\ Held(c) \in SUBSET Locks
      /\ StepsTo(Held(c), s, TableOf(x)) /\ s \in Seq(Ops)
  BY AtEntry, Zenon
<1>1. s # <<>> /\ At(s, "iret") /\ ~At(s, "spin")
  BY Zenon DEF Iret, Next1, At
<1>2. Held(c) = None /\ <<Held(c), Tail(s)>> \in TableOf(x) /\ ~HasOp(Tail(s), iret)
  BY <1>0, <1>1, Zenon DEF StepsTo
<1>3. /\ code' = [code EXCEPT ![x] = Tail(s)] /\ ~At(Tail(s), "spin") /\ ~At(Tail(s), "resume")
      /\ Tail(s) \in Seq(Ops)
  BY <1>0, <1>1, EndsFront, ConsAll, Zenon DEF Iret
<1>4. ncli[c] = 0
  BY <1>0, <1>1, <1>2, CountLocks DEF CpuOK
<1>5. IF_' = [IF_ EXCEPT ![c] = TRUE] /\ UNCHANGED <<lkcpu, ncli, intena, cur, kept>>
  BY Zenon DEF Iret
<1>6. IF_' \in [Cpus -> BOOLEAN] /\ IF_'[c] = TRUE /\ \A d \in Cpus \ {c} : IF_'[d] = IF_[d]
  BY <1>0, <1>5, Zenon DEF SlTypeOK
<1>. HIDE DEF s
<1>. QED
  BY <1>1, <1>2, <1>3, <1>4, <1>5, <1>6, BeginsKeeps, Zenon DEF s

LEMMA SchedulerKeeps ==
  ASSUME SlInv, NEW c \in Cpus, SchedulerLoop(c) \/ SchedulerEnd(c)
  PROVE  SlInv'
<1>0. /\ SlTypeOK /\ CpuOK(c) /\ FlagOK(c) /\ Held(c) \in SUBSET Locks
  BY AtEntry, Zenon
<1>1. cur[c] = c /\ code[c] = <<>> /\ c \notin SlProcs
  BY SpinLockAssumption, Zenon DEF SchedulerLoop, SchedulerEnd
<1>2. Held(c) \in {None, Table} /\ TableOf(c) = LoopTable
  BY <1>0, <1>1, LoopTableKind, Zenon DEF CpuOK, TableOf
<1>3. ~At(code[c], "spin") /\ ncli[c] = Cardinality(Held(c))
  <2>1. ~At(code[c], "spin")
    BY <1>1, NothingToDo, Zenon
  <2>. QED
    BY <1>0, <1>1, <2>1, CountLocks DEF CpuOK
<1>4. <<>> \in Seq(Ops) /\ acquire("ptable") \in Ops /\ release("ptable") \in Ops
  BY NothingToDo, OpsFacts, HeldFacts, Zenon
<1>5. /\ acquire("ptable")[1] = "acquire" /\ release("ptable")[1] = "release"
      /\ acquire("ptable") # iret /\ release("ptable") # iret
  BY OpsFacts, HeldFacts, OpsDiffer, Zenon
<1>6. CASE SchedulerLoop(c)
  <2>1. Held(c) = None
    BY <1>2, <1>6, HeldFacts DEF SchedulerLoop, Held, Table
  <2>2. ncli[c] = 0
    BY <1>0, <1>3, <2>1, CountLocks, Zenon
  <2>3. /\ code' = [code EXCEPT ![c] = LoopBegins] /\ UNCHANGED <<lkcpu, ncli, intena, cur, kept>>
        /\ IF_' = [IF_ EXCEPT ![c] = TRUE]
    BY <1>4, <1>6, Tuples, Zenon DEF SchedulerLoop, LoopBegins
  <2>4. IF_' \in [Cpus -> BOOLEAN] /\ IF_'[c] = TRUE /\ \A d \in Cpus \ {c} : IF_'[d] = IF_[d]
    BY <1>0, <2>3, Zenon DEF SlTypeOK
  <2>5. /\ LoopBegins \in Seq(Ops) /\ ~At(LoopBegins, "spin") /\ ~At(LoopBegins, "resume")
        /\ ~HasOp(LoopBegins, iret) /\ <<Held(c), LoopBegins>> \in LoopTable
    BY <2>1, LoopBasesKind, Zenon DEF LoopBases, Rest
  <2>. QED
    BY <1>1, <1>2, <1>3, <2>2, <2>3, <2>4, <2>5, BeginsKeeps, Zenon
<1>7. CASE SchedulerEnd(c)
  <2>1. Held(c) = Table
    BY <1>2, <1>7, HeldFacts, Zenon DEF SchedulerEnd, Held, None
  <2>2. ncli[c] = 1 /\ ~IF_[c]
    BY <1>0, <1>3, <2>1, CountLocks DEF CpuOK
  <2>3. /\ code' = [code EXCEPT ![c] = LoopEnds] /\ UNCHANGED <<lkcpu, ncli, intena, cur, kept>>
        /\ IF_' = IF_
    BY <1>4, <1>7, Tuples, Zenon DEF SchedulerEnd, LoopEnds
  <2>4. IF_' \in [Cpus -> BOOLEAN] /\ ~IF_'[c] /\ \A d \in Cpus \ {c} : IF_'[d] = IF_[d]
    BY <1>0, <2>2, <2>3, Zenon DEF SlTypeOK
  <2>5. LoopEnds \in Seq(Ops) /\ ~At(LoopEnds, "spin") /\ ~At(LoopEnds, "resume")
    BY <1>4, <1>5, ConsFacts, AtCons, Zenon DEF LoopEnds
  <2>6. ~HasOp(LoopEnds, iret)
    <3>1. ~HasOp(<<>>, iret)
      BY NothingToDo, Zenon
    <3>. QED
      BY <1>4, <1>5, <3>1, HasOpCons, Zenon DEF LoopEnds
  <2>7. <<Held(c), LoopEnds>> \in LoopTable
    BY <2>1, Zenon DEF LoopTable, LoopEnds
  <2>. QED
    BY <1>1, <1>2, <1>3, <2>3, <2>4, <2>5, <2>6, <2>7, BeginsKeeps, Zenon
<1>. QED
  BY <1>6, <1>7, Zenon
LEMMA SyscallKeeps ==
  ASSUME SlInv, NEW c \in Cpus, Syscall(c)
  PROVE  SlInv'
<1>0. /\ SlTypeOK /\ CpuOK(c) /\ FlagOK(c) /\ Held(c) \in SUBSET Locks
  BY AtEntry, Zenon
<1>1. cur[c] \in SlProcs /\ code[cur[c]] = <<>> /\ TableOf(cur[c]) = ProcTable
  BY Zenon DEF Syscall, TableOf
<1>2. Held(c) = None
  BY <1>0, <1>1, ProcTableKind, Zenon DEF CpuOK
<1>3. ~At(code[cur[c]], "spin") /\ ~HasOp(code[cur[c]], iret) /\ ~HasOp(code[cur[c]], trapret)
  BY <1>1, NothingToDo, Zenon
<1>4. ncli[c] = 0 /\ IF_[c]
  <2>1. ncli[c] = 0
    BY <1>0, <1>2, <1>3, CountLocks DEF CpuOK
  <2>. QED
    BY <1>0, <1>1, <1>3, <2>1, Zenon DEF FlagOK
<1>5. /\ code' = [code EXCEPT ![cur[c]] = SysBegins] /\ UNCHANGED <<lkcpu, ncli, intena, cur, kept>>
      /\ IF_' = IF_
  BY CodeShapes, Zenon DEF Syscall
<1>6. IF_' \in [Cpus -> BOOLEAN] /\ IF_'[c] /\ \A d \in Cpus \ {c} : IF_'[d] = IF_[d]
  BY <1>0, <1>4, <1>5, Zenon DEF SlTypeOK
<1>7. /\ SysBegins \in Seq(Ops) /\ ~At(SysBegins, "spin") /\ ~At(SysBegins, "resume")
      /\ ~HasOp(SysBegins, iret) /\ <<Held(c), SysBegins>> \in ProcTable
  BY <1>2, ProcBasesKind, Zenon DEF ProcBases, Rest
<1>. QED
  BY <1>1, <1>3, <1>4, <1>5, <1>6, <1>7, BeginsKeeps, Zenon

\* An interrupt finds the context at a base, and puts the handler in front of it.
LEMMA TimerKeeps ==
  ASSUME SlInv, NEW c \in Cpus, Timer(c)
  PROVE  SlInv'
<1>. DEFINE x == cur[c]
            s == code[x]
<1>. PICK y \in IF x \in SlProcs THEN TrapEnds ELSE {<<>>} :
       code' = [code EXCEPT ![x] = (IF c = 0 THEN Tick ELSE <<>>) \o y \o <<iret>> \o s]
  BY Zenon DEF Timer
<1>. DEFINE t == (IF c = 0 THEN Tick ELSE <<>>) \o y \o <<iret>> \o s
<1>0. /\ SlTypeOK /\ CpuOK(c) /\ FlagOK(c) /\ Held(c) \in SUBSET Locks /\ s \in Seq(Ops)
  BY AtEntry, Zenon
<1>1. /\ code' = [code EXCEPT ![x] = t] /\ UNCHANGED <<lkcpu, ncli, intena, cur, kept>>
      /\ IF_' = [IF_ EXCEPT ![c] = FALSE] /\ IF_[c]
  BY Zenon DEF Timer
<1>2. IF_' \in [Cpus -> BOOLEAN] /\ ~IF_'[c] /\ \A d \in Cpus \ {c} : IF_'[d] = IF_[d]
  BY <1>0, <1>1, Zenon DEF SlTypeOK
<1>3. ncli[c] = 0 /\ Held(c) = None /\ ~At(s, "spin") /\ ~HasOp(s, iret)
  <2>1. ncli[c] = 0 /\ ~HasOp(s, iret)
    BY <1>0, <1>1, Zenon DEF CpuOK, FlagOK
  <2>2. Cardinality(Held(c)) \in Nat
    BY <1>0, CountLocks, Zenon
  <2>3. Cardinality(Held(c)) = 0 /\ ~At(s, "spin")
    BY <1>0, <2>1, <2>2 DEF CpuOK
  <2>. QED
    BY <1>0, <2>1, <2>3, CountLocks, Zenon
<1>4. <<None, s>> \in TableOf(x)
  BY <1>0, <1>3, Zenon DEF CpuOK
<1>5. Rest(t) /\ HasOp(t, iret) /\ <<None, t>> \in TableOf(x)
  <2>1. CASE x \in SlProcs
    <3>1. s \in ProcBases /\ TableOf(x) = ProcTable
      BY <1>3, <1>4, <2>1, ProcTableKind, Zenon DEF TableOf
    <3>2. PICK r \in Handlers(s) : t = IF c = 0 THEN TickBegins(r) ELSE r
      <4>1. y \in TrapEnds
        BY <2>1, Zenon
      <4>. QED
        BY <1>0, <4>1, HandlerShapes, Zenon
    <3>3. <<None, r>> \in ProcTable /\ <<None, TickBegins(r)>> \in ProcTable
      <4>1. <<None, TickBegins(r)>> \in TickEntries(r)
        BY Zenon DEF TickEntries
      <4>. QED
        BY <3>1, <4>1, HandlersInTable, Zenon
    <3>4. Rest(r) /\ Inside(r)
      BY <3>1, ProcBasesKind, HandlersKind, Zenon
    <3>5. Rest(TickBegins(r)) /\ Inside(TickBegins(r))
      BY <3>4, TickBeginsKind, Zenon
    <3>. HIDE DEF t
    <3>. QED
      BY <3>1, <3>2, <3>3, <3>4, <3>5, Zenon DEF Inside
  <2>2. CASE x \notin SlProcs
    <3>1. s \in LoopBases /\ TableOf(x) = LoopTable
      BY <1>3, <1>4, <2>2, LoopTableKind, Zenon DEF TableOf
    <3>2. t = IF c = 0 THEN TickBegins(Returns(s)) ELSE Returns(s)
      <4>1. y = <<>>
        BY <2>2, Zenon
      <4>. QED
        BY <1>0, <4>1, HandlerShapes, Zenon
    <3>3. <<None, Returns(s)>> \in LoopTable /\ <<None, TickBegins(Returns(s))>> \in LoopTable
      <4>1. <<None, TickBegins(Returns(s))>> \in TickEntries(Returns(s))
        BY Zenon DEF TickEntries
      <4>. QED
        BY <3>1, <4>1, InterruptEntries, Zenon
    <3>4. Rest(Returns(s)) /\ Inside(Returns(s))
      BY <3>1, LoopBasesKind, YieldRests, YieldEntriesKind, Zenon
    <3>5. Rest(TickBegins(Returns(s))) /\ Inside(TickBegins(Returns(s)))
      BY <3>4, TickBeginsKind, Zenon
    <3>. HIDE DEF t
    <3>. QED
      BY <3>1, <3>2, <3>3, <3>4, <3>5, Zenon DEF Inside
  <2>. QED
    BY <2>1, <2>2, Zenon
<1>. HIDE DEF t
<1>6. t \in Seq(Ops) /\ ~At(t, "spin") /\ ~At(t, "resume") /\ <<Held(c), t>> \in TableOf(x)
  BY <1>3, <1>5, Zenon DEF Rest
<1>. QED
  BY <1>1, <1>2, <1>3, <1>5, <1>6, BeginsKeeps, Zenon
\* sched leaves the CPU to its scheduler, which still has ptable.lock.
LEMMA SchedKeeps ==
  ASSUME SlInv, NEW c \in Cpus, Sched(c)
  PROVE  SlInv'
<1>. USE SpinLockAssumption
<1>. DEFINE x == cur[c]
            s == code[x]
            t == Cons(resume, Tail(s))
<1>0. /\ SlTypeOK /\ CpuOK(c) /\ FlagOK(c) /\ x \in Contexts /\ Held(c) \in SUBSET Locks
      /\ StepsTo(Held(c), s, TableOf(x)) /\ s \in Seq(Ops)
  BY AtEntry, Zenon
<1>1. s # <<>> /\ At(s, "sched") /\ ~At(s, "spin") /\ ~At(s, "resume") /\ ~At(s, "iret")
  BY Zenon DEF Sched, Next1, At
<1>2. Held(c) = Table /\ <<Table, t>> \in TableOf(x)
  BY <1>0, <1>1, Zenon DEF StepsTo
<1>3. x \in SlProcs /\ TableOf(x) = ProcTable /\ x # c
  BY <1>0, <1>1, LoopTableKind, Zenon DEF CpuOK, TableOf
<1>4. HasOp(s, iret) \/ ~HasOp(s, trapret)
  BY <1>0, <1>1, <1>3, ProcTableKind, Zenon DEF CpuOK
<1>5. ncli[c] = 1 /\ ~IF_[c]
  BY <1>0, <1>1, <1>2, CountLocks DEF CpuOK
<1>6. (HasOp(s, iret) => ~intena[c]) /\ (~HasOp(s, iret) => intena[c])
  BY <1>0, <1>1, <1>3, <1>4, <1>5 DEF FlagOK
<1>7. Tail(s) \in Seq(Ops) /\ resume \in Ops /\ resume # iret
  BY <1>0, <1>1, ConsAll, OpsFacts, OpsDiffer, Zenon
<1>8. t \in Seq(Ops) /\ At(t, "resume") /\ (HasOp(t, iret) <=> HasOp(s, iret))
  <2>1. t \in Seq(Ops)
    BY <1>7, ConsFacts, Zenon
  <2>2. At(t, "resume")
    <3>1. resume[1] = "resume"
      BY OpsFacts, Zenon
    <3>. QED
      BY <1>7, <3>1, AtCons, Zenon
  <2>3. HasOp(t, iret) <=> HasOp(Tail(s), iret)
    BY <1>7, HasOpCons, Zenon
  <2>. QED
    BY <1>0, <1>1, <2>1, <2>2, <2>3, TailKeeps, Zenon
<1>9. /\ code' = [code EXCEPT ![x] = t] /\ kept' = [kept EXCEPT ![x] = intena[c]]
      /\ cur' = [cur EXCEPT ![c] = c] /\ UNCHANGED <<lkcpu, IF_, ncli, intena>>
  BY Zenon DEF Sched, Becomes, Cons, resume
<1>. HIDE DEF s, t
<1>10. /\ code'[x] = t /\ (\A y \in Contexts : y # x => code'[y] = code[y])
       /\ cur'[c] = c /\ (\A d \in Cpus : d # c => cur'[d] = cur[d])
       /\ kept'[x] = intena[c] /\ (\A p \in SlProcs : p # x => kept'[p] = kept[p])
  BY <1>0, <1>3, <1>9, Zenon DEF SlTypeOK
<1>11. SlTypeOK'
  BY <1>0, <1>3, <1>8, <1>9, Zenon DEF SlTypeOK, Contexts
<1>12. \A d : Held(d)' = Held(d)
  BY <1>9, Zenon DEF Held
<1>13. \A d \in Cpus : d # c => cur[d] # c
  BY <1>0, Zenon DEF SlInv, CpuOK
<1>14. \A d, e \in Cpus : cur'[d] = cur'[e] => d = e
  BY <1>10, <1>13 DEF SlInv
<1>15. CpuOK(c)' /\ FlagOK(c)'
  <2>1. code'[c] = <<>> /\ c \notin SlProcs
    BY <1>0, <1>3, <1>10, Zenon DEF CpuOK, Contexts
  <2>2. ~At(<<>>, "spin") /\ ~HasOp(<<>>, iret)
    BY NothingToDo, Zenon
  <2>3. Cardinality(Held(c)) = 1
    BY <1>0, <1>2, CountLocks, Zenon
  <2>4. <<Held(c), <<>>>> \in LoopTable
    BY <1>2, Zenon DEF LoopTable
  <2>5. CpuOK(c)'
    BY <1>5, <1>9, <1>10, <1>12, <2>1, <2>2, <2>3, <2>4 DEF CpuOK, TableOf
  <2>6. FlagOK(c)'
    BY <1>10, <2>1, <2>2 DEF FlagOK
  <2>. QED
    BY <2>5, <2>6, Zenon
<1>16. ASSUME NEW d \in Cpus, d # c PROVE CpuOK(d)' /\ FlagOK(d)'
  <2>1. CpuOK(d) /\ FlagOK(d) /\ cur[d] # x /\ cur[d] \in Contexts /\ d # x /\ d \in Contexts
    BY <1>0, <1>3, <1>16, Zenon DEF SlInv, SlTypeOK, Contexts
  <2>2. code'[cur'[d]] = code[cur[d]] /\ cur'[d] = cur[d] /\ code'[d] = code[d]
    BY <1>10, <1>16, <2>1, Zenon
  <2>3. CpuOK(d)'
    BY <1>9, <1>12, <2>1, <2>2, Zenon DEF CpuOK, TableOf
  <2>4. FlagOK(d)'
    BY <1>9, <2>1, <2>2, Zenon DEF FlagOK
  <2>. QED
    BY <2>3, <2>4, Zenon
<1>17. ASSUME NEW p \in SlProcs PROVE KeptOK(p)' /\ WaitingOK(p)'
  <2>0. KeptOK(p) /\ WaitingOK(p) /\ p \in Contexts
    BY Zenon DEF SlInv, Contexts
  <2>1. CASE p = x
    <3>1. intena[c] \in BOOLEAN
      BY <1>0, Zenon DEF SlTypeOK
    <3>2. kept'[p] = ~HasOp(code'[p], iret)
      BY <1>6, <1>8, <1>10, <2>1, <3>1, Zenon
    <3>. QED
      BY <1>2, <1>3, <1>8, <1>10, <2>1, <3>2, Zenon DEF KeptOK, WaitingOK
  <2>2. CASE p # x
    <3>1. code'[p] = code[p] /\ kept'[p] = kept[p]
      BY <1>10, <2>0, <2>2, Zenon
    <3>2. Waiting(p)' => Waiting(p)
      BY <1>10, <2>2, Zenon DEF Waiting
    <3>. QED
      BY <2>0, <3>1, <3>2, Zenon DEF KeptOK, WaitingOK
  <2>. QED
    BY <2>1, <2>2, Zenon
<1>. QED
  BY <1>11, <1>14, <1>15, <1>16, <1>17, Zenon DEF SlInv

LEMMA SwtchKeeps ==
  ASSUME SlInv, NEW c \in Cpus, NEW p \in SlProcs, Swtch(c, p)
  PROVE  SlInv'
<1>. USE SpinLockAssumption
<1>0. /\ SlTypeOK /\ CpuOK(c) /\ FlagOK(c) /\ Held(c) \in SUBSET Locks
  BY AtEntry, Zenon
<1>1. cur[c] = c /\ code[c] = <<>> /\ c \notin SlProcs /\ Waiting(p)
  BY Zenon DEF Swtch, Waiting
<1>2. Held(c) = Table
  <2>1. Held(c) \in {None, Table}
    BY <1>0, <1>1, LoopTableKind, Zenon DEF CpuOK, TableOf
  <2>. QED
    BY <2>1, HeldFacts, Zenon DEF Swtch, Held, None
<1>3. ~At(<<>>, "spin")
  BY NothingToDo, Zenon
<1>4. Cardinality(Held(c)) = 1 /\ ncli[c] = 1 /\ ~IF_[c]
  BY <1>0, <1>1, <1>2, <1>3, CountLocks DEF CpuOK
<1>5. cur' = [cur EXCEPT ![c] = p] /\ UNCHANGED <<lkcpu, IF_, ncli, intena, code, kept>>
  BY Zenon DEF Swtch
<1>6. cur'[c] = p /\ (\A d \in Cpus : d # c => cur'[d] = cur[d])
  BY <1>0, <1>5, Zenon DEF SlTypeOK
<1>7. SlTypeOK'
  BY <1>0, <1>5, Zenon DEF SlTypeOK, Contexts
<1>8. \A d : Held(d)' = Held(d)
  BY <1>5, Zenon DEF Held
<1>9. \A d, e \in Cpus : cur'[d] = cur'[e] => d = e
  BY <1>1, <1>6 DEF SlInv, Waiting
<1>10. <<Table, code[p]>> \in ProcTable /\ (At(code[p], "resume") \/ code[p] = ForkBegins)
  BY <1>1, Zenon DEF SlInv, WaitingOK
<1>11. ~At(code[p], "spin")
  <2>1. ~At(ForkBegins, "spin")
    BY CodeRests, Zenon DEF Rest
  <2>. QED
    BY <1>10, <2>1, Zenon DEF At
<1>12. CpuOK(c)' /\ FlagOK(c)'
  <2>1. CpuOK(c)'
    BY <1>1, <1>2, <1>4, <1>5, <1>6, <1>8, <1>10, <1>11 DEF CpuOK, TableOf
  <2>2. FlagOK(c)'
    BY <1>4, <1>5, <1>6, <1>10, ForkCodes DEF FlagOK
  <2>. QED
    BY <2>1, <2>2, Zenon
<1>13. ASSUME NEW d \in Cpus, d # c PROVE CpuOK(d)' /\ FlagOK(d)'
  <2>1. CpuOK(d) /\ FlagOK(d) /\ cur'[d] = cur[d]
    BY <1>6, <1>13, Zenon DEF SlInv
  <2>2. CpuOK(d)'
    BY <1>5, <1>8, <2>1, Zenon DEF CpuOK, TableOf
  <2>3. FlagOK(d)'
    BY <1>5, <2>1, Zenon DEF FlagOK
  <2>. QED
    BY <2>2, <2>3, Zenon
<1>14. ASSUME NEW q \in SlProcs PROVE KeptOK(q)' /\ WaitingOK(q)'
  <2>0. KeptOK(q) /\ WaitingOK(q)
    BY Zenon DEF SlInv
  <2>1. Waiting(q)' => Waiting(q)
    BY <1>1, <1>6, Zenon DEF Waiting
  <2>. QED
    BY <1>5, <2>0, <2>1, Zenon DEF KeptOK, WaitingOK
<1>. QED
  BY <1>7, <1>9, <1>12, <1>13, <1>14, Zenon DEF SlInv
-----------------------------------------------------------------------------
LEMMA SlInitInv == SlInit => SlInv
<1>. SUFFICES ASSUME SlInit PROVE SlInv
  BY Zenon
<1>. USE SpinLockAssumption
<1>1. ForkBegins \in Seq(Ops) /\ <<>> \in Seq(Ops)
  BY ForkCodes, NothingToDo, Zenon
<1>2. \A p \in SlProcs : code[p] = ForkBegins
  BY CodeShapes, Zenon DEF SlInit, Contexts
<1>3. \A c \in Cpus : code[c] = <<>> /\ cur[c] = c /\ c \notin SlProcs
  BY Zenon DEF SlInit, Contexts
<1>4. SlTypeOK
  BY <1>1, CodeShapes, Zenon DEF SlInit, SlTypeOK, Contexts
<1>5. ASSUME NEW c \in Cpus PROVE CpuOK(c) /\ FlagOK(c)
  <2>1. Held(c) = None /\ ncli[c] = 0 /\ IF_[c] = FALSE
    BY Zenon DEF SlInit, Held, None
  <2>2. ~At(<<>>, "spin") /\ ~HasOp(<<>>, iret) /\ Cardinality(None) = 0
    BY NothingToDo, CountLocks, HeldFacts, Zenon
  <2>3. <<None, <<>>>> \in LoopTable
    BY Zenon DEF LoopTable
  <2>. QED
    BY <1>3, <2>1, <2>2, <2>3 DEF CpuOK, FlagOK, TableOf
<1>6. ASSUME NEW p \in SlProcs PROVE KeptOK(p) /\ WaitingOK(p)
  <2>1. ~At(ForkBegins, "resume") /\ <<Table, ForkBegins>> \in ProcTable
    BY CodeRests, Zenon DEF Rest, ProcTable, ForkEntries
  <2>. QED
    BY <1>2, <2>1, Zenon DEF KeptOK, WaitingOK
<1>. QED
  BY <1>3, <1>4, <1>5, <1>6, Zenon DEF SlInv

LEMMA SlNextInv == SlInv /\ [SlNext]_SlVars => SlInv'
<1>. SUFFICES ASSUME SlInv, [SlNext]_SlVars PROVE SlInv'
  BY Zenon
<1>1. ASSUME NEW c \in Cpus, Acquire(c) PROVE SlInv'
  BY <1>1, AcquireKeeps, Zenon
<1>2. ASSUME NEW c \in Cpus, Spin(c) PROVE SlInv'
  BY <1>2, SpinKeeps, Zenon
<1>3. ASSUME NEW c \in Cpus, Release(c) PROVE SlInv'
  BY <1>3, ReleaseKeeps, Zenon
<1>4. ASSUME NEW c \in Cpus, Sched(c) PROVE SlInv'
  BY <1>4, SchedKeeps, Zenon
<1>5. ASSUME NEW c \in Cpus, Resume(c) PROVE SlInv'
  BY <1>5, ResumeKeeps, Zenon
<1>6. ASSUME NEW c \in Cpus, SchedulerLoop(c) \/ SchedulerEnd(c) PROVE SlInv'
  BY <1>6, SchedulerKeeps, Zenon
<1>7. ASSUME NEW c \in Cpus, NEW p \in SlProcs, Swtch(c, p) PROVE SlInv'
  BY <1>7, SwtchKeeps, Zenon
<1>8. ASSUME NEW c \in Cpus, Syscall(c) PROVE SlInv'
  BY <1>8, SyscallKeeps, Zenon
<1>9. ASSUME NEW c \in Cpus, Timer(c) PROVE SlInv'
  BY <1>9, TimerKeeps, Zenon
<1>10. ASSUME NEW c \in Cpus, Iret(c) PROVE SlInv'
  BY <1>10, IretKeeps, Zenon
<1>11. CASE UNCHANGED SlVars
  <2>1. \A c : (Held(c)' = Held(c)) /\ (CpuOK(c)' <=> CpuOK(c)) /\ (FlagOK(c)' <=> FlagOK(c))
    BY <1>11, Zenon DEF SlVars, Held, CpuOK, FlagOK, TableOf
  <2>2. \A p : (KeptOK(p)' <=> KeptOK(p)) /\ (WaitingOK(p)' <=> WaitingOK(p))
    BY <1>11, Zenon DEF SlVars, KeptOK, WaitingOK, Waiting
  <2>3. SlTypeOK' /\ cur' = cur
    BY <1>11, Zenon DEF SlInv, SlTypeOK, SlVars
  <2>. QED
    BY <2>1, <2>2, <2>3, Zenon DEF SlInv
<1>. QED
  BY <1>1, <1>2, <1>3, <1>4, <1>5, <1>6, <1>7, <1>8, <1>9, <1>10, <1>11, Zenon DEF SlNext

\* Every CPU, and every process on none, is always at a place of the tables with the
\* locks of that place, and its interrupt flag is where the place says: in the CPU, in
\* intena of the CPU, or in what sched keeps on the stack.
THEOREM SlInvariant == SlSpec => []SlInv
<1>. QED
  BY SlInitInv, SlNextInv, PTL DEF SlSpec

\* acquire, release and sched never panic: ncli is the number of locks that a CPU holds
\* and waits for, interrupts are off while there are any, no lock is taken twice by a CPU
\* or released by another one, and sched has ptable.lock and no other lock.
THEOREM SlLockPanicsNever == SlSpec => []LockPanicsNever
<1>1. SlInv => LockPanicsNever
  <2>. SUFFICES ASSUME SlInv, NEW c \in Cpus
                PROVE  /\ ncli[c] = Cardinality({l \in Locks : lkcpu[l] = c})
                                      + (IF Next1(c, "spin") THEN 1 ELSE 0)
                       /\ IF_[c] => ncli[c] = 0
                       /\ Next1(c, "acquire") => lkcpu[LockOf(c)] # c
                       /\ Next1(c, "release") => lkcpu[LockOf(c)] = c
                       /\ Next1(c, "sched") => lkcpu["ptable"] = c /\ ncli[c] = 1 /\ ~IF_[c]
    BY Zenon DEF LockPanicsNever
  <2>0. /\ CpuOK(c) /\ Held(c) \in SUBSET Locks
        /\ StepsTo(Held(c), code[cur[c]], TableOf(cur[c]))
    BY AtEntry, Zenon
  <2>1. \A o : Next1(c, o) <=> At(code[cur[c]], o)
    BY Zenon DEF Next1, At
  <2>2. LockOf(c) = LockAt(code[cur[c]])
    BY Zenon DEF LockOf, LockAt
  <2>3. /\ ncli[c] = Cardinality({l \in Locks : lkcpu[l] = c}) + (IF Next1(c, "spin") THEN 1 ELSE 0)
        /\ IF_[c] => ncli[c] = 0
    BY <2>0, <2>1, Zenon DEF CpuOK, Held
  <2>4. Next1(c, "acquire") => lkcpu[LockOf(c)] # c
    BY <2>0, <2>1, <2>2, Zenon DEF StepsTo, Held
  <2>5. Next1(c, "release") => lkcpu[LockOf(c)] = c
    BY <2>0, <2>1, <2>2, Zenon DEF StepsTo, Held
  <2>6. ASSUME Next1(c, "sched") PROVE lkcpu["ptable"] = c /\ ncli[c] = 1 /\ ~IF_[c]
    <3>1. Held(c) = Table
      BY <2>0, <2>1, <2>6, Zenon DEF StepsTo
    <3>2. ~At(code[cur[c]], "spin") /\ Cardinality(Table) = 1
      BY <2>0, <2>6, CountLocks, Zenon DEF Next1, At
    <3>3. ncli[c] = 1 /\ ~IF_[c]
      BY <2>0, <3>1, <3>2 DEF CpuOK
    <3>4. "ptable" \in Held(c)
      BY <3>1, HeldFacts, Zenon
    <3>. QED
      BY <3>3, <3>4, Zenon DEF Held
  <2>. QED
    BY <2>3, <2>4, <2>5, <2>6, Zenon
<1>. QED
  BY <1>1, SlInvariant, PTL

\* A process that holds no lock has its interrupts on outside of a handler and off in
\* one, on whichever CPU it goes on after sched.
THEOREM SlInterruptFlagFollows == SlSpec => []InterruptFlagFollows
<1>1. SlInv => InterruptFlagFollows
  <2>. SUFFICES ASSUME SlInv, NEW c \in Cpus, cur[c] \in SlProcs, ncli[c] = 0,
                       ~HasOp(code[cur[c]], trapret)
                PROVE  IF_[c] = ~InHandler(cur[c])
    BY Zenon DEF InterruptFlagFollows
  <2>1. SlTypeOK /\ FlagOK(c)
    BY AtEntry, Zenon
  <2>2. IF_[c] \in BOOLEAN
    BY <2>1, Zenon DEF SlTypeOK
  <2>3. HasOp(code[cur[c]], iret) => ~IF_[c]
    BY <2>1, Zenon DEF FlagOK
  <2>4. ~HasOp(code[cur[c]], iret) => IF_[c]
    BY <2>1, Zenon DEF FlagOK
  <2>. QED
    BY <2>2, <2>3, <2>4, Zenon DEF InHandler
<1>. QED
  BY <1>1, SlInvariant, PTL
=============================================================================
