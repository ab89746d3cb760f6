--------------------- MODULE ConnectorSupervisorProofs ---------------------
(***************************************************************************)
(* What the supervisor keeps, wherever a signal interrupts it and whatever *)
(* fails: proofs for any number of connectors, manifests and signals.      *)
(***************************************************************************)
EXTENDS ConnectorSupervisor, SequenceTheorems, TLAPS

(* Why it holds.  The handler frames lie on the one frame of run: at and   *)
(* rest say where run itself is and what is left of its loop.              *)

at   == IF stack = <<>> THEN pc ELSE stack[Len(stack)].pc
rest == IF stack = <<>> THEN todo ELSE stack[Len(stack)].todo

Starting == at \in {"start", "launch", "register", "announce"}
InStart  == at \in {"launch", "register", "announce"}

\* stop_all is what runs whenever something was interrupted.
StackInv ==
  /\ pc = "stop" <=> stack # <<>>
  /\ stack # <<>> => stopping
  /\ \A i \in 1..Len(stack) :
       /\ stack[i].pc = "stop" <=> i < Len(stack)
       /\ stack[i].pc \notin {"done", "crashed"}

\* start works on manifests it has discovered, on each of them once.
PassInv ==
  /\ Starting => \A c \in rest : specs[c] # NoSpec
  /\ InStart => cur \in Ids /\ cur \notin rest /\ specs[cur] # NoSpec
  /\ at \in {"launch", "register"} => processes[cur] = 0
  /\ at = "register" => children # <<>> /\ children[Len(children)].id = cur

\* A registered child is one of its connector, and no list of children that
\* a loop works on holds an earlier one of a registered child.
Listed(l, ps) == l \in {"reap", "stop"} => \A p \in ps : processes[children[p].id] \in {0, p}

ListInv ==
  /\ \A c \in Ids : processes[c] # 0 => children[processes[c]].id = c
  /\ Listed(pc, todo) /\ \A i \in 1..Len(stack) : Listed(stack[i].pc, stack[i].todo)

\* StopFails took start away from between Popen and the registration: run
\* ends without a look at that connector again.
Leaked(p) ==
  /\ stopping /\ ~calm /\ at \notin {"terminate", "reap"}
  /\ Starting => children[p].id \notin rest
  /\ InStart => children[p].id # cur

\* A child that runs is the one registered, or about to be, or leaked.
LiveInv ==
  \A p \in DOMAIN children : Up(p) =>
    \/ processes[children[p].id] = p
    \/ at = "register" /\ p = Len(children)
    \/ Leaked(p)

\* A connector is started only when its earlier children are dead.
LastInv == \A p, q \in DOMAIN children : p < q /\ children[p].id = children[q].id => ~Up(p)

\* As long as it is calm, only the sleep is interrupted, and by handlers that
\* stop whatever is registered.
CalmInv ==
  calm =>
    /\ stack # <<>> => at = "sleep"
    /\ pc = "stop" => \A c \in Ids : processes[c] # 0 => processes[c] \in todo
    /\ stopping /\ stack = <<>> => pc \in {"sleep", "loop", "done"} /\ Registered = {}
    /\ \A c \in Ids : file[c] = "running" => processes[c] # 0
    /\ pc = "announce" => processes[cur] # 0
    /\ pc = "done" => stopping

Follows(p) ==
  \/ children[p].spec.restart = "always"
  \/ children[p].spec.restart = "on-failure" /\ children[p].code # 0

\* Before the first signal a connector whose policy does not start it again
\* is put off for ever as soon as it is reaped.
PolicyInv ==
  ~stopping /\ pc # "crashed" =>
    /\ \A c \in Ids : processes[c] # 0 => nextRestart[c] = "now"
    /\ pc \in {"launch", "register"} => nextRestart[cur] = "now"
    /\ pc = "reap" => \A p \in todo : processes[children[p].id] = p
    /\ \A p \in DOMAIN children :
         \/ Follows(p)
         \/ processes[children[p].id] = p
         \/ pc = "register" /\ p = Len(children)
         \/ nextRestart[children[p].id] = "never"

USE SupervisorAssumption

----------------------------------------------------------------------------
(* The children and the frames of the handlers. *)

\* The children of s are those that are, perhaps told, perhaps ended.
Same(s) ==
  /\ s \in Seq(Child) /\ Len(s) = Len(children)
  /\ \A p \in DOMAIN children :
       /\ s[p].id = children[p].id /\ s[p].spec = children[p].spec
       /\ s[p].state = "up" => Up(p)
       /\ ~Up(p) => s[p].code = children[p].code

\* What ends a child leaves the others alone.
LEMMA EndIsSame ==
  ASSUME TypeOK, NEW p \in DOMAIN children, NEW code \in {0, 1, -9, -15}, Up(p)
  PROVE  Same(End(p, code)) /\ End(p, code)[p].state = "dead"
<1> DEFINE new == [children[p] EXCEPT !.state = "dead", !.code = code]
<1>1. /\ children \in Seq(Child) /\ p \in 1..Len(children) /\ children[p] \in Child
      /\ DOMAIN children = 1..Len(children)
  BY DEF TypeOK
<1>2. /\ new \in Child /\ new.id = children[p].id /\ new.spec = children[p].spec
      /\ new.state = "dead"
  BY <1>1 DEF Child
<1>3. /\ End(p, code) \in Seq(Child) /\ Len(End(p, code)) = Len(children)
      /\ \A q \in 1..Len(children) : End(p, code)[q] = IF q = p THEN new ELSE children[q]
  BY <1>1, <1>2, ExceptSeq DEF End
<1>4. QED
  BY <1>1, <1>2, <1>3 DEF Same, Up

\* Stopping a child ends it.
LEMMA StoppedIsSame ==
  ASSUME TypeOK, NEW p \in DOMAIN children
  PROVE  Same(Stopped(p)) /\ Stopped(p)[p].state = "dead"
<1>1. CASE Up(p)
  BY <1>1, EndIsSame DEF Stopped
<1>2. CASE ~Up(p)
  <2>1. children[p] \in Child
    BY DEF TypeOK
  <2>2. QED
    BY <1>2, <2>1 DEF Stopped, Same, TypeOK, Up, Child
<1>3. QED
  BY <1>1, <1>2

\* A SIGTERM ends nothing by itself.
LEMMA ToldIsSame ==
  ASSUME TypeOK, NEW ps
  PROVE  Same(Told(ps))
<1>1. children \in Seq(Child) /\ DOMAIN children = 1..Len(children) /\ Len(children) \in Nat
  BY DEF TypeOK
<1>2. \A p \in 1..Len(children) :
        /\ Told(ps)[p] \in Child
        /\ Told(ps)[p].id = children[p].id /\ Told(ps)[p].spec = children[p].spec
        /\ Told(ps)[p].state = children[p].state /\ Told(ps)[p].code = children[p].code
  <2> SUFFICES ASSUME NEW p \in 1..Len(children)
               PROVE  LET told == Told(ps)[p]
                      IN  /\ told \in Child /\ told.id = children[p].id /\ told.spec = children[p].spec
                          /\ told.state = children[p].state /\ told.code = children[p].code
    OBVIOUS
  <2>1. children[p] \in Child
    BY <1>1
  <2>2. Told(ps)[p] = [children[p] EXCEPT !.termed = TRUE] \/ Told(ps)[p] = children[p]
    BY <1>1 DEF Told
  <2>3. QED
    BY <2>1, <2>2 DEF Child
<1>3. Told(ps) \in Seq(Child) /\ Len(Told(ps)) = Len(children)
  <2>1. Told(ps) \in [1..Len(children) -> Child]
    BY <1>1, <1>2 DEF Told
  <2>2. QED
    BY <1>1, <2>1, SeqDef
<1>4. QED
  BY <1>1, <1>2, <1>3 DEF Same, Up

\* A signal puts a frame on the stack.
LEMMA Push ==
  ASSUME NEW S, NEW s \in Seq(S), NEW f \in S
  PROVE  /\ <<f>> \o s \in Seq(S) /\ Len(<<f>> \o s) = Len(s) + 1
         /\ (<<f>> \o s)[1] = f /\ \A i \in 1..Len(s) : (<<f>> \o s)[i + 1] = s[i]
BY ConcatProperties

\* A handler that returns takes one off.
LEMMA Pop ==
  ASSUME NEW S, NEW s \in Seq(S), s # <<>>
  PROVE  /\ Head(s) = s[1] /\ s[1] \in S /\ Len(s) \in Nat \ {0}
         /\ Tail(s) \in Seq(S) /\ Len(Tail(s)) = Len(s) - 1
         /\ \A i \in 1..(Len(s) - 1) : Tail(s)[i] = s[i + 1]
BY HeadTailProperties

\* Where run is, seen from its own steps and from those of a handler.
LEMMA InRun ==
  ASSUME StackInv, pc # "stop"
  PROVE  stack = <<>> /\ at = pc /\ rest = todo
BY DEF StackInv, at, rest

LEMMA InHandler ==
  ASSUME TypeOK, StackInv, pc = "stop"
  PROVE  /\ stack # <<>> /\ Len(stack) \in Nat \ {0} /\ stack \in Seq(Frame)
         /\ at = stack[Len(stack)].pc /\ rest = stack[Len(stack)].todo
         /\ at \in Pcs \ {"stop", "done", "crashed"} /\ rest \subseteq Over(at)
<1>1. stack # <<>> /\ stack \in Seq(Frame)
  BY DEF StackInv, TypeOK
<1>2. Len(stack) \in Nat \ {0} /\ stack[Len(stack)] \in Frame
  BY <1>1, EmptySeq
<1>3. Len(stack) \in DOMAIN stack
  BY <1>1, <1>2
<1>4. stack[Len(stack)].pc \notin {"stop", "done", "crashed"}
  BY <1>1, <1>2 DEF StackInv
<1>5. QED
  BY <1>1, <1>2, <1>3, <1>4 DEF TypeOK, at, rest, Frame

\* A handler goes on with what it interrupted.
Popped == pc = "stop" /\ stack' = Tail(stack) /\ Goto(Head(stack).pc, Head(stack).todo)

\* The steps of a handler leave run where it is.
LEMMA FramesStay ==
  ASSUME TypeOK, StackInv, Signal \/ StopOne \/ Popped
  PROVE  at' = at /\ rest' = rest
<1>1. CASE Signal
  <2>1. PICK f : f = [pc |-> pc, todo |-> todo]
    OBVIOUS
  <2>2. f \in Frame /\ stack \in Seq(Frame) /\ stack' = <<f>> \o stack
    BY <1>1, <2>1 DEF Signal, Frame, TypeOK, Over
  <2>3. stack' # <<>> /\ Len(stack') = Len(stack) + 1 /\ stack'[1] = f /\ \A i \in 1..Len(stack) : stack'[i + 1] = stack[i]
    BY <2>2, Push, EmptySeq
  <2>4. CASE stack = <<>>
    BY <2>1, <2>3, <2>4 DEF at, rest
  <2>5. CASE stack # <<>>
    <3>1. Len(stack) \in 1..Len(stack)
      BY <2>2, <2>5, EmptySeq
    <3>2. stack'[Len(stack')] = stack[Len(stack)]
      BY <2>3, <3>1
    <3>3. QED
      BY <2>3, <2>5, <3>2 DEF at, rest
  <2>6. QED
    BY <2>4, <2>5
<1>2. CASE StopOne
  <2>1. pc = "stop" /\ stack' = stack
    BY <1>2 DEF StopOne
  <2>2. QED
    BY <2>1 DEF at, rest, StackInv
<1>3. CASE Popped
  <2>1. pc = "stop" /\ stack' = Tail(stack) /\ pc' = Head(stack).pc /\ todo' = Head(stack).todo
    BY <1>3 DEF Popped, Goto
  <2>2. stack # <<>> /\ Len(stack) \in Nat \ {0} /\ stack \in Seq(Frame)
    BY <2>1, InHandler
  <2>3. /\ Head(stack) = stack[1] /\ Len(stack') = Len(stack) - 1 /\ stack' \in Seq(Frame)
        /\ \A i \in 1..(Len(stack) - 1) : stack'[i] = stack[i + 1]
    BY <2>1, <2>2, Pop
  <2>4. CASE Len(stack) = 1
    BY <2>1, <2>2, <2>3, <2>4, EmptySeq DEF at, rest
  <2>5. CASE Len(stack) # 1
    <3>1. stack' # <<>> /\ Len(stack') \in 1..(Len(stack) - 1) /\ Len(stack') + 1 = Len(stack)
      BY <2>2, <2>3, <2>5, EmptySeq
    <3>2. stack'[Len(stack')] = stack[Len(stack)]
      BY <2>3, <3>1
    <3>3. QED
      BY <2>2, <3>1, <3>2 DEF at, rest
  <2>6. QED
    BY <2>4, <2>5
<1>4. QED
  BY <1>1, <1>2, <1>3

\* An exception takes run out of start, or ends it.
Thrown ==
  /\ pc = "stop" /\ stack' = <<>>
  /\ \/ InStart /\ Goto("start", rest)
     \/ Goto("crashed", {})

\* A write that fails in a handler takes away its frame, or all of them.
LEMMA Failing ==
  ASSUME TypeOK, StackInv, StopFails
  PROVE  Popped \/ Thrown
<1>1. pc = "stop" /\ at = stack[Len(stack)].pc /\ rest = stack[Len(stack)].todo
  BY InHandler DEF StopFails
<1>2. QED
  BY <1>1 DEF StopFails, Popped, Thrown, Goto, InStart

----------------------------------------------------------------------------
(* Types. *)

Framed(s) == s \in Seq(Frame) /\ \A i \in DOMAIN s : s[i].todo \subseteq Over(s[i].pc)

\* What a signal pushes and a return pops is framed.
LEMMA PushFramed ==
  ASSUME NEW s, Framed(s), NEW f \in Frame, f.todo \subseteq Over(f.pc)
  PROVE  Framed(<<f>> \o s)
<1>1. /\ <<f>> \o s \in Seq(Frame) /\ Len(<<f>> \o s) = Len(s) + 1 /\ Len(s) \in Nat
      /\ (<<f>> \o s)[1] = f /\ \A i \in 1..Len(s) : (<<f>> \o s)[i + 1] = s[i]
  BY Push DEF Framed
<1>2. DOMAIN s = 1..Len(s) /\ DOMAIN (<<f>> \o s) = 1..(Len(s) + 1)
  BY <1>1 DEF Framed
<1>3. ASSUME NEW i \in 1..(Len(s) + 1) PROVE (<<f>> \o s)[i].todo \subseteq Over((<<f>> \o s)[i].pc)
  <2>1. CASE i = 1
    BY <1>1, <2>1
  <2>2. CASE i # 1
    <3>1. i - 1 \in 1..Len(s) /\ (i - 1) + 1 = i
      BY <1>1, <1>3, <2>2
    <3>2. (<<f>> \o s)[i] = s[i - 1]
      BY <1>1, <3>1
    <3>3. QED
      BY <1>2, <3>1, <3>2 DEF Framed
  <2>3. QED
    BY <2>1, <2>2
<1>4. QED
  BY <1>1, <1>2, <1>3 DEF Framed

LEMMA PopFramed ==
  ASSUME NEW s, Framed(s), s # <<>>
  PROVE  Framed(Tail(s)) /\ Head(s) \in Frame /\ Head(s).todo \subseteq Over(Head(s).pc)
<1>1. /\ Head(s) = s[1] /\ s[1] \in Frame /\ Len(s) \in Nat \ {0}
      /\ Tail(s) \in Seq(Frame) /\ Len(Tail(s)) = Len(s) - 1
      /\ \A i \in 1..(Len(s) - 1) : Tail(s)[i] = s[i + 1]
  BY Pop DEF Framed
<1>2. DOMAIN s = 1..Len(s) /\ DOMAIN Tail(s) = 1..(Len(s) - 1)
  BY <1>1 DEF Framed
<1>3. ASSUME NEW i \in 1..(Len(s) - 1) PROVE Tail(s)[i].todo \subseteq Over(Tail(s)[i].pc)
  <2>1. Tail(s)[i] = s[i + 1] /\ i + 1 \in 1..Len(s)
    BY <1>1
  <2>2. QED
    BY <1>2, <2>1 DEF Framed
<1>4. 1 \in DOMAIN s
  BY <1>1, <1>2
<1>5. QED
  BY <1>1, <1>2, <1>3, <1>4 DEF Framed

\* Children are only added: what named some of them still does.
LEMMA Grows ==
  ASSUME TypeOK, children' \in Seq(Child), Len(children) <= Len(children')
  PROVE  /\ DOMAIN children \subseteq DOMAIN children' /\ Frame \subseteq Frame'
         /\ \A l \in Pcs : Over(l) \subseteq Over(l)'
         /\ processes \in [Ids -> 0..Len(children')]
<1>1. DOMAIN children = 1..Len(children) /\ DOMAIN children' = 1..Len(children')
  BY DEF TypeOK
<1>2. DOMAIN children \subseteq DOMAIN children'
  BY <1>1 DEF TypeOK
<1>3. QED
  BY <1>2 DEF Frame, Over, TypeOK

\* The frames of the handlers keep their types when they stay.
LEMMA FramesTyped ==
  ASSUME TypeOK, children' \in Seq(Child), Len(children) <= Len(children'), UNCHANGED stack
  PROVE  Framed(stack)'
<1>1. stack \in Seq(Frame) /\ Frame \subseteq Frame' /\ \A l \in Pcs : Over(l) \subseteq Over(l)'
  BY Grows DEF TypeOK
<1>2. stack \in Seq(Frame')
  BY <1>1, SeqMonotonic
<1>3. ASSUME NEW i \in DOMAIN stack PROVE stack[i].todo \subseteq Over(stack[i].pc)'
  <2>1. stack[i] \in Frame
    BY <1>1
  <2>2. PICK l \in Pcs : l = stack[i].pc
    BY <2>1 DEF Frame
  <2>3. stack[i].todo \subseteq Over(l)'
    BY <1>1, <2>2 DEF TypeOK
  <2>4. QED
    BY <2>2, <2>3 DEF Over
<1>4. QED
  BY <1>2, <1>3 DEF Framed

LEMMA ChildTyped ==
  ASSUME TypeOK, NEW p \in DOMAIN children
  PROVE  /\ children[p].id \in Ids /\ children[p].spec \in Specs /\ children[p].state \in {"up", "dead"}
         /\ p \in 1..Len(children) /\ RestartOf(p) \in {"later", "never"}
<1>1. children[p] \in Child /\ p \in 1..Len(children)
  BY DEF TypeOK
<1>2. QED
  BY <1>1 DEF Child, RestartOf

LEMMA TroubleTyped ==
  ASSUME TypeOK, Trouble
  PROVE  troubles' \in 0..MaxTroubles
BY DEF TypeOK, Trouble

\* Types are kept by the main loop, the handler and the children.
LEMMA TypeNext ==
  ASSUME TypeOK, StackInv, PassInv, [Next]_vars
  PROVE  TypeOK'
<1> USE DEF Framed
<1>1. ASSUME UNCHANGED <<children, stack>>
      PROVE  /\ (children \in Seq(Child) /\ Framed(stack))'
             /\ \A l : Over(l)' = Over(l)
  BY <1>1, FramesTyped DEF TypeOK, Over
<1>2. CASE UNCHANGED vars
  BY <1>1, <1>2 DEF vars, frame, TypeOK
<1>3. CASE Discover \/ Wake \/ BeginStarts \/ Sleep
  <2>1. Over("reap") = DOMAIN children /\ \A l \in {"start", "sleep", "loop", "done", "terminate"} : Over(l) = Ids
    BY DEF Over
  <2>2. CASE Discover
    BY <1>1, <2>1, <2>2 DEF Discover, Goto, TypeOK, Pcs
  <2>3. CASE Wake \/ BeginStarts \/ Sleep
    BY <1>1, <2>1, <2>3 DEF Wake, BeginStarts, Sleep, Goto, TypeOK, Pcs
  <2>4. QED
    BY <1>3, <2>2, <2>3
<1>4. CASE Reap \/ ReapFails
  <2>1. Over("reap") = DOMAIN children /\ Over("crashed") = Ids
    BY DEF Over
  <2>2. Len(children) \in Nat /\ \A p \in DOMAIN children : children[p].id \in Ids /\ RestartOf(p) \in {"later", "never"}
    BY ChildTyped DEF TypeOK
  <2>3. CASE Reap
    <3>1. PICK p \in DOMAIN children :
            /\ todo' = todo \ {p} /\ todo \subseteq DOMAIN children
            /\ processes' \in {processes, [processes EXCEPT ![children[p].id] = 0]}
            /\ file' \in {file, [file EXCEPT ![children[p].id] = "exited"]}
            /\ nextRestart' \in {nextRestart, [nextRestart EXCEPT ![children[p].id] = RestartOf(p)]}
      BY <2>1, <2>3 DEF Reap, Goto, TypeOK
    <3>2. processes \in [Ids -> 0..Len(children)] /\ 0 \in 0..Len(children)
      BY <2>2 DEF TypeOK
    <3>3. processes' \in [Ids -> 0..Len(children)] /\ children' = children
      BY <2>3, <3>1, <3>2 DEF Reap
    <3>4. /\ file' \in [Ids -> {"absent", "running", "exited", "stopped"}]
          /\ nextRestart' \in [Ids -> {"now", "later", "never"}]
      <4>1. file \in [Ids -> {"absent", "running", "exited", "stopped"}] /\ nextRestart \in [Ids -> {"now", "later", "never"}]
        BY DEF TypeOK
      <4>2. RestartOf(p) \in {"now", "later", "never"}
        BY <2>2
      <4>3. QED
        BY <3>1, <4>1, <4>2
    <3>5. QED
      BY <1>1, <2>1, <2>3, <3>1, <3>3, <3>4 DEF Reap, Goto, TypeOK, Pcs
  <2>4. CASE ReapFails
    <3>1. processes' \in [Ids -> 0..Len(children')]
      <4>1. processes \in [Ids -> 0..Len(children)] /\ 0 \in 0..Len(children)
        BY <2>2 DEF TypeOK
      <4>2. processes' \in [Ids -> 0..Len(children)] /\ children' = children
        <5>1. PICK p \in todo : processes' = [processes EXCEPT ![children[p].id] = 0]
          BY <2>4 DEF ReapFails
        <5>2. QED
          BY <2>4, <4>1, <5>1 DEF ReapFails
      <4>3. QED
        BY <4>2
    <3>2. QED
      BY <1>1, <2>1, <2>4, <3>1, TroubleTyped DEF ReapFails, Goto, TypeOK, Pcs
  <2>5. QED
    BY <1>4, <2>3, <2>4
<1>5. CASE Pick \/ Register \/ Announce \/ StartFails
  <2>1. \A l \in {"start", "launch", "register", "announce"} : Over(l) = Ids
    BY DEF Over
  <2>2. Len(children) \in Nat
    BY DEF TypeOK
  <2>3. CASE Pick
    BY <1>1, <2>1, <2>3 DEF Pick, Goto, TypeOK, Pcs
  <2>4. CASE Register
    <3>1. processes' \in [Ids -> 0..Len(children')]
      <4>1. processes \in [Ids -> 0..Len(children)] /\ Len(children) \in 0..Len(children)
        BY <2>2 DEF TypeOK
      <4>2. processes' \in [Ids -> 0..Len(children)] /\ children' = children
        BY <2>2, <2>4, <4>1 DEF Register
      <4>3. QED
        BY <4>2
    <3>2. QED
      BY <1>1, <2>1, <2>4, <3>1 DEF Register, Goto, TypeOK, Pcs
  <2>5. CASE Announce
    BY <1>1, <2>1, <2>5 DEF Announce, Goto, TypeOK, Pcs
  <2>6. CASE StartFails
    BY <1>1, <2>1, <2>6, TroubleTyped DEF StartFails, Goto, TypeOK, Pcs
  <2>7. QED
    BY <1>5, <2>3, <2>4, <2>5, <2>6
<1>6. CASE EditManifest \/ \E c \in Ids : DelayPasses(c)
  <2>1. CASE EditManifest
    BY <1>1, <2>1, TroubleTyped DEF EditManifest, frame, TypeOK
  <2>2. CASE \E c \in Ids : DelayPasses(c)
    BY <1>1, <2>2 DEF DelayPasses, frame, TypeOK
  <2>3. QED
    BY <1>6, <2>1, <2>2
<1>7. CASE Launch
  <2>1. PICK k : k = [id |-> cur, spec |-> specs[cur], state |-> "up", code |-> 0, termed |-> FALSE]
    OBVIOUS
  <2>2. k \in Child
    BY <1>7, <2>1, InRun DEF Launch, PassInv, InStart, TypeOK, Child
  <2>3. children' = Append(children, k) /\ children' \in Seq(Child) /\ Len(children') = Len(children) + 1
    BY <1>7, <2>1, <2>2, AppendProperties DEF Launch, TypeOK
  <2>4. Over("launch") = Ids /\ Over("register")' = Ids
    BY DEF Over
  <2>5. QED
    BY <1>7, <2>3, <2>4, Grows, FramesTyped DEF Launch, Goto, TypeOK, Pcs
<1>8. ASSUME Terminate \/ StopOne \/ Exit \/ \E p \in DOMAIN children : ExitTermed(p)
      PROVE  TypeOK'
  <2>1. Same(children')
    <3>1. CASE Terminate
      BY <3>1, ToldIsSame DEF Terminate
    <3>2. CASE StopOne
      BY <3>2, StoppedIsSame DEF StopOne, TypeOK, Over
    <3>3. CASE Exit
      BY <3>3, EndIsSame DEF Exit
    <3>4. CASE \E p \in DOMAIN children : ExitTermed(p)
      BY <3>4, EndIsSame DEF ExitTermed
    <3>5. QED
      BY <1>8, <3>1, <3>2, <3>3, <3>4
  <2>2. /\ children' \in Seq(Child) /\ Len(children') = Len(children)
        /\ DOMAIN children' = DOMAIN children /\ DOMAIN children = 1..Len(children)
    BY <2>1 DEF Same, TypeOK
  <2>3. /\ \A l : Over(l)' = Over(l)
        /\ Over("reap") = DOMAIN children /\ Over("stop") = DOMAIN children
    BY <2>2 DEF Over
  <2>4. UNCHANGED stack => Framed(stack)'
    BY <2>2, FramesTyped
  <2>5. CASE Terminate
    <3>1. {processes[c] : c \in Registered} \subseteq DOMAIN children
      BY <2>2 DEF Registered, TypeOK
    <3>2. QED
      BY <2>2, <2>3, <2>4, <2>5, <3>1 DEF Terminate, Goto, TypeOK, Pcs
  <2>6. CASE StopOne
    <3>1. \A p \in DOMAIN children : children[p].id \in Ids
      BY ChildTyped
    <3>2. QED
      BY <2>2, <2>3, <2>4, <2>6, <3>1 DEF StopOne, Goto, TypeOK, Pcs
  <2>7. CASE Exit
    BY <2>2, <2>3, <2>4, <2>7, TroubleTyped DEF Exit, frame, TypeOK
  <2>8. CASE \E p \in DOMAIN children : ExitTermed(p)
    BY <2>2, <2>3, <2>4, <2>8 DEF ExitTermed, frame, TypeOK
  <2>9. QED
    BY <1>8, <2>5, <2>6, <2>7, <2>8
<1>9. ASSUME Signal \/ Return \/ StopFails
      PROVE  TypeOK'
  <2>1. Framed(stack) /\ Over("stop") = DOMAIN children /\ DOMAIN children = 1..Len(children) /\ Over("crashed") = Ids
    BY DEF TypeOK, Over
  <2>2. CASE Signal
    <3>1. PICK f : f = [pc |-> pc, todo |-> todo]
      OBVIOUS
    <3>2. f \in Frame /\ f.todo \subseteq Over(f.pc)
      BY <3>1 DEF Frame, TypeOK, Over
    <3>3. stack' = <<f>> \o stack /\ Framed(stack')
      BY <2>1, <2>2, <3>1, <3>2, PushFramed DEF Signal
    <3>4. {processes[c] : c \in Registered} \subseteq DOMAIN children
      BY <2>1 DEF Registered, TypeOK
    <3>5. children' = children /\ (\A l : Over(l)' = Over(l)) /\ Frame' = Frame
      BY <2>2 DEF Signal, Over, Frame
    <3>6. QED
      BY <2>1, <2>2, <3>3, <3>4, <3>5, TroubleTyped DEF Signal, Goto, TypeOK, Pcs
  <2>3. ASSUME pc = "stop" PROVE Framed(Tail(stack)) /\ Head(stack) \in Frame /\ Head(stack).todo \subseteq Over(Head(stack).pc)
    BY <2>1, <2>3, PopFramed, InHandler
  <2>4. CASE Return
    <3>1. PICK f \in Frame : f = Head(stack) /\ f.todo \subseteq Over(f.pc) /\ Framed(Tail(stack))
      BY <2>3, <2>4 DEF Return
    <3>2. children' = children /\ (\A l : Over(l)' = Over(l)) /\ Frame' = Frame
      BY <2>4 DEF Return, Over, Frame
    <3>3. pc' = f.pc /\ todo' = f.todo /\ pc' \in Pcs /\ stack' = Tail(stack)
      BY <2>4, <3>1 DEF Return, Goto, Frame
    <3>4. QED
      BY <2>4, <3>1, <3>2, <3>3 DEF Return, TypeOK
  <2>5. CASE StopFails
    <3>1. PICK p \in DOMAIN children :
            children' = Stopped(p) /\ processes' = [processes EXCEPT ![children[p].id] = 0]
      BY <2>1, <2>5 DEF StopFails, TypeOK
    <3>2. Same(children')
      BY <3>1, StoppedIsSame
    <3>3. children' \in Seq(Child) /\ Len(children') = Len(children) /\ DOMAIN children' = DOMAIN children /\ Len(children) \in Nat
      BY <2>1, <3>2 DEF Same, TypeOK
    <3>4. (\A l : Over(l)' = Over(l)) /\ Frame' = Frame
      BY <3>3 DEF Over, Frame
    <3>5. processes' \in [Ids -> 0..Len(children')]
      <4>1. processes \in [Ids -> 0..Len(children)] /\ 0 \in 0..Len(children)
        BY <3>3 DEF TypeOK
      <4>2. QED
        BY <3>1, <3>3, <4>1
    <3>6. pc = "stop" /\ Framed(<<>>)
      BY <2>5 DEF StopFails
    <3>7. PICK f \in Frame : f = Head(stack) /\ f.todo \subseteq Over(f.pc) /\ Framed(Tail(stack))
      BY <2>3, <3>6
    <3>8. stack[Len(stack)].pc \in {"launch", "register", "announce"} => stack[Len(stack)].todo \subseteq Over("start")
      BY <3>6, InHandler DEF Over
    <3>9. Framed(stack') /\ pc' \in Pcs /\ todo' \subseteq Over(pc')
      BY <2>1, <2>5, <3>6, <3>7, <3>8 DEF StopFails, Goto, Pcs
    <3>10. Framed(stack)' /\ (todo \subseteq Over(pc))'
      BY <3>3, <3>4, <3>9 DEF Over
    <3>11. QED
      BY <2>5, <3>3, <3>5, <3>9, <3>10, TroubleTyped DEF StopFails, TypeOK
  <2>6. QED
    BY <1>9, <2>2, <2>4, <2>5
<1>10. QED
  BY <1>2, <1>3, <1>4, <1>5, <1>6, <1>7, <1>8, <1>9 DEF Next, Run

----------------------------------------------------------------------------
(* The frames, and where run is. *)

\* The steps of run, and those of everybody else.
Moves == Discover \/ Terminate \/ Reap \/ ReapFails \/ BeginStarts \/ Pick \/ Launch \/ Register
         \/ Announce \/ StartFails \/ Sleep \/ Wake
Stays == Exit \/ EditManifest \/ (\E p \in DOMAIN children : ExitTermed(p)) \/ (\E c \in Ids : DelayPasses(c))
         \/ UNCHANGED vars

LEMMA MovesAlone ==
  ASSUME Moves
  PROVE  pc # "stop" /\ pc' # "stop" /\ UNCHANGED <<stack, stopping>>
<1>1. CASE Discover \/ Terminate \/ Reap \/ ReapFails \/ BeginStarts \/ Pick
  BY <1>1 DEF Discover, Terminate, Reap, ReapFails, BeginStarts, Pick, Goto
<1>2. CASE Launch \/ Register \/ Announce \/ StartFails \/ Sleep \/ Wake
  BY <1>2 DEF Launch, Register, Announce, StartFails, Sleep, Wake, Goto
<1>3. QED
  BY <1>1, <1>2 DEF Moves

LEMMA StaysStill ==
  ASSUME Stays
  PROVE  UNCHANGED <<frame, processes, specs, file, stopping, calm>>
BY DEF Stays, Exit, EditManifest, ExitTermed, DelayPasses, vars, frame

\* Every frame above the one of run is in stop_all.
LEMMA StackNext ==
  ASSUME TypeOK, StackInv, [Next]_vars
  PROVE  StackInv'
<1>1. CASE Moves
  BY <1>1, MovesAlone, InRun DEF StackInv
<1>2. CASE Stays
  BY <1>2, StaysStill DEF StackInv, frame
<1>3. CASE Signal /\ ~Ended
  <2>1. PICK f : f = [pc |-> pc, todo |-> todo]
    OBVIOUS
  <2>2. f \in Frame /\ stack \in Seq(Frame) /\ stack' = <<f>> \o stack /\ pc' = "stop" /\ stopping' = TRUE
    BY <1>3, <2>1 DEF Signal, Goto, Frame, TypeOK, Over
  <2>3. /\ stack' \in Seq(Frame) /\ stack' # <<>> /\ Len(stack') = Len(stack) + 1 /\ Len(stack) \in Nat
        /\ stack'[1] = f /\ \A i \in 1..Len(stack) : stack'[i + 1] = stack[i]
    BY <2>2, Push, EmptySeq
  <2>4. ASSUME NEW i \in 1..Len(stack')
        PROVE  (stack'[i].pc = "stop" <=> i < Len(stack')) /\ stack'[i].pc \notin {"done", "crashed"}
    <3>1. CASE i = 1
      <4>1. pc = "stop" <=> Len(stack) # 0
        BY <2>2, EmptySeq DEF StackInv
      <4>2. QED
        BY <1>3, <2>1, <2>3, <3>1, <4>1 DEF Ended
    <3>2. CASE i # 1
      <4>1. i - 1 \in 1..Len(stack) /\ stack'[i] = stack[i - 1]
        BY <2>3, <3>2
      <4>2. QED
        BY <2>3, <4>1 DEF StackInv
    <3>3. QED
      BY <3>1, <3>2
  <2>5. QED
    BY <2>2, <2>3, <2>4 DEF StackInv
<1>4. CASE StopOne
  BY <1>4 DEF StackInv, StopOne, Goto
<1>5. ASSUME Popped, UNCHANGED stopping PROVE StackInv'
  <2>1. /\ stack # <<>> /\ Len(stack) \in Nat \ {0} /\ stack \in Seq(Frame)
    BY <1>5, InHandler DEF Popped
  <2>2. /\ Head(stack) = stack[1] /\ Len(stack') = Len(stack) - 1 /\ stack' \in Seq(Frame)
        /\ \A i \in 1..(Len(stack) - 1) : stack'[i] = stack[i + 1]
    BY <1>5, <2>1, Pop DEF Popped
  <2>3. ASSUME NEW i \in 1..Len(stack')
        PROVE  (stack'[i].pc = "stop" <=> i < Len(stack')) /\ stack'[i].pc \notin {"done", "crashed"}
    <3>1. i + 1 \in 1..Len(stack) /\ stack'[i] = stack[i + 1]
      BY <2>1, <2>2
    <3>2. QED
      BY <2>1, <2>2, <3>1 DEF StackInv
  <2>4. pc' = stack[1].pc /\ (stack[1].pc = "stop" <=> 1 < Len(stack))
    BY <1>5, <2>1, <2>2 DEF Popped, Goto, StackInv
  <2>5. stack' # <<>> <=> 1 < Len(stack)
    BY <2>1, <2>2, EmptySeq
  <2>6. stopping'
    BY <1>5, <2>1 DEF StackInv
  <2>7. QED
    BY <2>3, <2>4, <2>5, <2>6 DEF StackInv
<1>6. CASE Thrown
  BY <1>6 DEF Thrown, Goto, StackInv
<1>7. QED
  <2>1. Return => Popped /\ UNCHANGED stopping
    BY DEF Return, Popped
  <2>2. StopFails => (Popped \/ Thrown) /\ UNCHANGED stopping
    BY Failing DEF StopFails
  <2>3. QED
    BY <1>1, <1>2, <1>3, <1>4, <1>5, <1>6, <2>1, <2>2 DEF Next, Run, Moves, Stays

\* Steps of run begin and end without a handler.
LEMMA MovesSteps ==
  ASSUME StackInv, Moves
  PROVE  at = pc /\ rest = todo /\ at' = pc' /\ rest' = todo' /\ stack = <<>> /\ stack' = <<>>
BY MovesAlone, InRun DEF at, rest

\* Handlers and the environment leave what start works on alone.
Beside == Signal \/ StopOne \/ Return \/ StopFails

LEMMA BesideSteps ==
  ASSUME TypeOK, StackInv, Beside
  PROVE  /\ UNCHANGED <<cur, specs, nextRestart, manifest>> /\ Same(children') /\ ((at' = at /\ rest' = rest) \/ Thrown)
         /\ \A c \in Ids : processes'[c] \in {processes[c], 0}
<1>1. CASE Signal
  BY <1>1, FramesStay DEF Signal, Same, TypeOK, Up
<1>2. CASE StopOne
  <2>1. at' = at /\ rest' = rest
    BY <1>2, FramesStay
  <2>2. Same(children')
    BY <1>2, StoppedIsSame DEF StopOne, TypeOK, Over
  <2>3. QED
    BY <1>2, <2>1, <2>2 DEF StopOne, TypeOK
<1>3. CASE Return
  BY <1>3, FramesStay DEF Return, Popped, Same, TypeOK, Up
<1>4. CASE StopFails
  <2>1. (at' = at /\ rest' = rest) \/ Thrown
    BY <1>4, Failing, FramesStay
  <2>2. Same(children')
    BY <1>4, StoppedIsSame DEF StopFails, TypeOK, Over
  <2>3. QED
    BY <1>4, <2>1, <2>2 DEF StopFails, TypeOK
<1>5. QED
  BY <1>1, <1>2, <1>3, <1>4 DEF Beside

LEMMA StaysSteps ==
  ASSUME TypeOK, Stays
  PROVE  at' = at /\ rest' = rest /\ Same(children')
<1>1. at' = at /\ rest' = rest
  BY StaysStill DEF at, rest, frame
<1>2. CASE UNCHANGED children
  BY <1>1, <1>2 DEF Same, TypeOK, Up
<1>3. CASE Exit \/ \E p \in DOMAIN children : ExitTermed(p)
  <2>1. PICK p \in DOMAIN children, code \in {0, 1, -9, -15} : Up(p) /\ children' = End(p, code)
    BY <1>3 DEF Exit, ExitTermed
  <2>2. QED
    BY <1>1, <2>1, EndIsSame
<1>4. QED
  BY <1>1, <1>2, <1>3 DEF Stays, EditManifest, DelayPasses, vars

\* Every step is one of these.
LEMMA Kinds ==
  ASSUME [Next]_vars
  PROVE  Moves \/ Beside \/ Stays
BY DEF Next, Run, Moves, Beside, Stays

\* A pass goes on with the manifests it had discovered, wherever interrupted.
LEMMA PassNext ==
  ASSUME TypeOK, StackInv, PassInv, [Next]_vars
  PROVE  PassInv'
<1> USE DEF Starting, InStart
<1>1. ASSUME at' = at, rest' = rest, Same(children'), UNCHANGED <<cur, specs>>,
             \A c \in Ids : processes'[c] \in {processes[c], 0}
      PROVE  PassInv'
  <2>1. at = "register" => children' # <<>> /\ children'[Len(children')].id = cur
    <3>1. ASSUME children # <<>> PROVE Len(children) \in DOMAIN children /\ Len(children') # 0
      BY <1>1, <3>1, EmptySeq DEF Same, TypeOK
    <3>2. QED
      BY <1>1, <3>1, EmptySeq DEF Same, PassInv
  <2>2. QED
    BY <1>1, <2>1 DEF PassInv
<1>2. CASE Thrown /\ Beside
  <2>1. at' = pc' /\ rest' = todo'
    BY <1>2 DEF Thrown, at, rest
  <2>2. UNCHANGED specs
    BY <1>2, BesideSteps
  <2>3. QED
    BY <1>2, <2>1, <2>2 DEF Thrown, Goto, PassInv
<1>3. CASE Stays
  BY <1>1, <1>3, StaysSteps, StaysStill DEF frame
<1>4. CASE Moves
  <2>1. at = pc /\ rest = todo /\ at' = pc' /\ rest' = todo'
    BY <1>4, MovesSteps
  <2>2. CASE Discover \/ Terminate \/ Reap \/ ReapFails \/ Sleep \/ Wake
    BY <2>1, <2>2 DEF Discover, Terminate, Reap, ReapFails, Sleep, Wake, Goto, PassInv
  <2>3. CASE BeginStarts
    BY <2>1, <2>3 DEF BeginStarts, Goto, PassInv
  <2>4. CASE Pick
    BY <2>1, <2>4 DEF Pick, Goto, PassInv, Startable, TypeOK, Over
  <2>5. CASE Launch
    <3>1. PICK k : k = [id |-> cur, spec |-> specs[cur], state |-> "up", code |-> 0, termed |-> FALSE]
      OBVIOUS
    <3>2. k \in Child
      BY <2>1, <2>5, <3>1 DEF Launch, PassInv, TypeOK, Child
    <3>3. children' = Append(children, k) /\ children \in Seq(Child)
      BY <2>5, <3>1 DEF Launch, TypeOK
    <3>4. children' # <<>> /\ children'[Len(children')] = k
      BY <3>2, <3>3, AppendProperties
    <3>5. QED
      BY <2>1, <2>5, <3>1, <3>4 DEF Launch, Goto, PassInv
  <2>6. CASE Register
    BY <2>1, <2>6 DEF Register, Goto, PassInv
  <2>7. CASE Announce \/ StartFails
    BY <2>1, <2>7 DEF Announce, StartFails, Goto, PassInv
  <2>8. QED
    BY <1>4, <2>2, <2>3, <2>4, <2>5, <2>6, <2>7 DEF Moves
<1>5. QED
  BY <1>1, <1>2, <1>3, <1>4, BesideSteps, Kinds

----------------------------------------------------------------------------
(* The children that are registered, listed and run. *)

\* The children of s are those of this step, and perhaps one more.
LEMMA Launched ==
  ASSUME TypeOK, StackInv, PassInv, Launch
  PROVE  /\ Len(children') = Len(children) + 1 /\ Len(children) \in Nat
         /\ DOMAIN children' = 1..(Len(children) + 1) /\ DOMAIN children = 1..Len(children)
         /\ \A p \in DOMAIN children : children'[p] = children[p]
         /\ children'[Len(children) + 1].id = cur /\ children'[Len(children) + 1].state = "up"
         /\ cur \in Ids /\ processes[cur] = 0
<1>1. at = "launch"
  BY InRun DEF Launch
<1>2. cur \in Ids /\ processes[cur] = 0 /\ specs[cur] \in Specs
  BY <1>1 DEF PassInv, InStart, TypeOK
<1>3. PICK k : k = [id |-> cur, spec |-> specs[cur], state |-> "up", code |-> 0, termed |-> FALSE]
  OBVIOUS
<1>4. k \in Child
  BY <1>2, <1>3 DEF Child
<1>5. children' = Append(children, k) /\ children \in Seq(Child)
  BY <1>3 DEF Launch, TypeOK
<1>6. /\ children' \in Seq(Child) /\ Len(children') = Len(children) + 1
      /\ \A p \in 1..Len(children) : children'[p] = children[p]
      /\ children'[Len(children) + 1] = k
  BY <1>4, <1>5, AppendProperties
<1>7. QED
  BY <1>2, <1>3, <1>5, <1>6

\* What was a child is one, of the same connector.
LEMMA ChildrenStay ==
  ASSUME TypeOK, StackInv, PassInv, [Next]_vars, NEW p \in DOMAIN children
  PROVE  /\ p \in DOMAIN children' /\ children'[p].id = children[p].id /\ children'[p].spec = children[p].spec
         /\ Up(p)' => Up(p)
         /\ ~Up(p) => children'[p].code = children[p].code
<1>1. CASE Launch
  BY <1>1, Launched DEF Up
<1>2. CASE Same(children')
  BY <1>2 DEF Same, Up, TypeOK
<1>3. CASE Terminate
  BY <1>2, <1>3, ToldIsSame DEF Terminate
<1>4. CASE UNCHANGED children
  BY <1>4 DEF Up
<1>5. Moves => Launch \/ Terminate \/ UNCHANGED children
  BY DEF Moves, Discover, Reap, ReapFails, BeginStarts, Pick, Register, Announce, StartFails, Sleep, Wake
<1>6. QED
  BY <1>1, <1>2, <1>3, <1>4, <1>5, Kinds, BesideSteps, StaysSteps

\* Only start registers.
LEMMA ProcessesFall ==
  ASSUME TypeOK, StackInv, [Next]_vars, ~Register, NEW c \in Ids
  PROVE  processes'[c] \in {processes[c], 0}
<1>1. CASE Reap \/ ReapFails
  BY <1>1 DEF Reap, ReapFails, TypeOK
<1>2. Moves => Register \/ Reap \/ ReapFails \/ UNCHANGED processes
  BY DEF Moves, Discover, Terminate, BeginStarts, Pick, Launch, Announce, StartFails, Sleep, Wake
<1>3. QED
  BY <1>1, <1>2, Kinds, BesideSteps, StaysStill

\* A frame was there, or is what a signal interrupts.
LEMMA FramesFrom ==
  ASSUME TypeOK, StackInv, [Next]_vars, NEW i \in 1..Len(stack')
  PROVE  (\E j \in 1..Len(stack) : stack'[i] = stack[j]) \/ stack'[i] = [pc |-> pc, todo |-> todo]
<1>1. CASE UNCHANGED stack
  BY <1>1
<1>2. CASE Signal
  <2>1. PICK f : f = [pc |-> pc, todo |-> todo]
    OBVIOUS
  <2>2. f \in Frame /\ stack \in Seq(Frame) /\ stack' = <<f>> \o stack
    BY <1>2, <2>1 DEF Signal, Frame, TypeOK, Over
  <2>3. /\ Len(stack') = Len(stack) + 1 /\ Len(stack) \in Nat
        /\ stack'[1] = f /\ \A j \in 1..Len(stack) : stack'[j + 1] = stack[j]
    BY <2>2, Push
  <2>4. CASE i = 1
    BY <2>1, <2>3, <2>4
  <2>5. CASE i # 1
    <3>1. i - 1 \in 1..Len(stack) /\ (i - 1) + 1 = i
      BY <2>3, <2>5
    <3>2. QED
      BY <2>3, <3>1
  <2>6. QED
    BY <2>4, <2>5
<1>3. CASE Popped
  <2>1. stack # <<>> /\ stack \in Seq(Frame) /\ stack' = Tail(stack)
    BY <1>3, InHandler DEF Popped
  <2>2. /\ Len(stack') = Len(stack) - 1 /\ Len(stack) \in Nat
        /\ \A j \in 1..(Len(stack) - 1) : stack'[j] = stack[j + 1]
    BY <2>1, Pop
  <2>3. QED
    BY <2>2
<1>4. CASE Thrown
  BY <1>4, EmptySeq DEF Thrown
<1>5. Return => Popped
  BY DEF Return, Popped
<1>6. StopOne => UNCHANGED stack
  BY DEF StopOne
<1>7. QED
  BY <1>1, <1>2, <1>3, <1>4, <1>5, <1>6, Kinds, MovesAlone, StaysStill, Failing DEF Beside, frame

\* A list stays one while nothing is registered.
LEMMA ListedStays ==
  ASSUME TypeOK, StackInv, PassInv, [Next]_vars, ~Register,
         NEW l, NEW ps, ps \subseteq Over(l), Listed(l, ps)
  PROVE  Listed(l, ps)'
<1> SUFFICES ASSUME l \in {"reap", "stop"}, NEW p \in ps
             PROVE  processes'[children'[p].id] \in {0, p}
  BY DEF Listed
<1>1. p \in DOMAIN children /\ children'[p].id = children[p].id /\ children[p].id \in Ids
  BY ChildrenStay, ChildTyped DEF Over
<1>2. QED
  BY <1>1, ProcessesFall DEF Listed

\* All that is registered is a list.
LEMMA RegisteredListed ==
  ASSUME TypeOK, ListInv, NEW l
  PROVE  Listed(l, {processes[c] : c \in Registered})
BY DEF Listed, ListInv, Registered

\* No list that a loop works on is behind the registered children.
LEMMA ListNext ==
  ASSUME TypeOK, StackInv, PassInv, ListInv, [Next]_vars
  PROVE  ListInv'
<1>1. CASE Register
  <2>1. /\ cur \in Ids /\ children[Len(children)].id = cur /\ UNCHANGED <<children, stack>> /\ stack = <<>>
        /\ processes' = [processes EXCEPT ![cur] = Len(children)] /\ pc' = "announce"
    BY <1>1, InRun DEF Register, PassInv, InStart, Goto
  <2>2. QED
    BY <2>1, EmptySeq DEF ListInv, Listed, TypeOK
<1>2. CASE ~Register
  <2>1. \A c \in Ids : processes'[c] # 0 => children'[processes'[c]].id = c
    <3>1. SUFFICES ASSUME NEW c \in Ids, processes'[c] # 0 PROVE children'[processes'[c]].id = c
      OBVIOUS
    <3>2. processes'[c] = processes[c]
      BY <1>2, <3>1, ProcessesFall
    <3>3. PICK p \in DOMAIN children : p = processes[c] /\ children[p].id = c
      BY <3>1, <3>2 DEF TypeOK, ListInv
    <3>4. children'[p].id = c
      BY <3>3, ChildrenStay
    <3>5. QED
      BY <3>2, <3>3, <3>4
  <2>2. ASSUME NEW l, NEW ps, ps \subseteq Over(l), Listed(l, ps) PROVE Listed(l, ps)'
    BY <1>2, <2>2, ListedStays
  <2>3. Listed(pc, todo)' /\ todo \subseteq Over(pc)
    <3>1. todo \subseteq Over(pc)
      BY DEF TypeOK
    <3>2. Listed(pc, todo) /\ \A ps : ps \subseteq todo => Listed(pc, ps) /\ ps \subseteq Over(pc)
      BY <3>1 DEF ListInv, Listed
    <3>3. CASE pc' = pc /\ todo' \subseteq todo
      BY <2>2, <3>2, <3>3 DEF Listed
    <3>4. CASE pc' \notin {"reap", "stop"}
      BY <3>1, <3>4 DEF Listed
    <3>5. CASE Terminate \/ Signal
      <4>1. PICK ps : ps = {processes[c] : c \in Registered}
        OBVIOUS
      <4>2. ps \subseteq DOMAIN children
        BY <4>1 DEF Registered, TypeOK
      <4>3. pc' \in {"reap", "stop"} /\ todo' = ps
        BY <3>5, <4>1 DEF Terminate, Signal, Goto
      <4>4. Listed("reap", ps)'
        BY <2>2, <4>1, <4>2, RegisteredListed DEF Over
      <4>5. QED
        BY <3>1, <4>3, <4>4 DEF Listed
    <3>6. CASE Popped
      <4>1. stack # <<>> /\ stack \in Seq(Frame)
        BY <3>6, InHandler DEF Popped
      <4>2. Head(stack) = stack[1] /\ 1 \in DOMAIN stack /\ 1 \in 1..Len(stack)
        BY <4>1, Pop
      <4>3. PICK l, ps : l = stack[1].pc /\ ps = stack[1].todo
        OBVIOUS
      <4>4. Listed(l, ps) /\ ps \subseteq Over(l) /\ pc' = l /\ todo' = ps
        BY <3>6, <4>2, <4>3 DEF Popped, Goto, ListInv, TypeOK
      <4>5. Listed(l, ps)'
        BY <2>2, <4>4
      <4>6. QED
        BY <3>1, <4>4, <4>5 DEF Listed
    <3>7. Moves => (pc' = pc /\ todo' \subseteq todo) \/ pc' \notin {"reap", "stop"} \/ Terminate
      BY DEF Moves, Discover, Reap, ReapFails, BeginStarts, Pick, Launch, Register, Announce, StartFails, Sleep, Wake, Goto
    <3>8. Beside => (pc' = pc /\ todo' \subseteq todo) \/ pc' \notin {"reap", "stop"} \/ Signal \/ Popped
      BY Failing DEF Beside, StopOne, Return, Popped, Thrown, Goto
    <3>9. QED
      BY <3>1, <3>3, <3>4, <3>5, <3>6, <3>7, <3>8, Kinds, StaysStill DEF frame
  <2>4. ASSUME NEW i \in 1..Len(stack') PROVE Listed(stack[i].pc, stack[i].todo)'
    <3>1. PICK l, ps : l = stack'[i].pc /\ ps = stack'[i].todo
      OBVIOUS
    <3>2. Listed(l, ps) /\ ps \subseteq Over(l)
      <4>1. CASE stack'[i] = [pc |-> pc, todo |-> todo]
        BY <2>3, <3>1, <4>1 DEF ListInv
      <4>2. CASE \E j \in 1..Len(stack) : stack'[i] = stack[j]
        <5>1. PICK j \in 1..Len(stack) : stack'[i] = stack[j]
          BY <4>2
        <5>2. j \in DOMAIN stack
          BY DEF TypeOK
        <5>3. QED
          BY <3>1, <5>1, <5>2 DEF ListInv, TypeOK
      <4>3. QED
        BY <4>1, <4>2, FramesFrom
    <3>3. Listed(l, ps)'
      BY <2>2, <3>2
    <3>4. QED
      BY <3>1, <3>3 DEF Listed
  <2>5. QED
    BY <2>1, <2>3, <2>4 DEF ListInv
<1>3. QED
  BY <1>1, <1>2

\* A child that a handler or reap removes is dead by then, or was.
LEMMA Removed ==
  ASSUME TypeOK, StackInv, PassInv, ListInv, [Next]_vars, ~Register,
         NEW p \in DOMAIN children, processes[children[p].id] = p, processes'[children[p].id] # p
  PROVE  ~Up(p)'
<1>1. children[p].id \in Ids /\ p # 0 /\ p \in 1..Len(children)
  BY ChildTyped
<1>2. CASE Reap \/ ReapFails
  <2>1. PICK q \in todo : ~Up(q) /\ processes' = [processes EXCEPT ![children[q].id] = 0]
    BY <1>1, <1>2 DEF Reap, ReapFails
  <2>2. processes[children[q].id] \in {0, q} /\ q \in DOMAIN children
    BY <1>2, <2>1 DEF Reap, ReapFails, ListInv, Listed, TypeOK, Over
  <2>3. p = q
    BY <1>1, <2>1, <2>2 DEF TypeOK
  <2>4. QED
    BY <2>1, <2>3, ChildrenStay
<1>3. CASE StopOne \/ StopFails
  <2>1. PICK q \in todo : children' = Stopped(q) /\ processes' = [processes EXCEPT ![children[q].id] = 0]
    BY <1>3 DEF StopOne, StopFails
  <2>2. processes[children[q].id] \in {0, q} /\ q \in DOMAIN children
    BY <1>3 DEF StopOne, StopFails, ListInv, Listed, TypeOK, Over
  <2>3. p = q
    BY <1>1, <2>1, <2>2 DEF TypeOK
  <2>4. QED
    BY <2>1, <2>2, <2>3, StoppedIsSame DEF Up
<1>4. Moves => Register \/ Reap \/ ReapFails \/ UNCHANGED processes
  BY DEF Moves, Discover, Terminate, BeginStarts, Pick, Launch, Announce, StartFails, Sleep, Wake
<1>5. Beside => StopOne \/ StopFails \/ UNCHANGED processes
  BY DEF Beside, Signal, Return
<1>6. QED
  BY <1>2, <1>3, <1>4, <1>5, Kinds, StaysStill

\* A connector is started again only when its last child is dead.
LEMMA LastNext ==
  ASSUME TypeOK, StackInv, PassInv, ListInv, LiveInv, LastInv, [Next]_vars
  PROVE  LastInv'
<1>1. CASE Launch
  <2>1. ASSUME NEW p \in DOMAIN children, children[p].id = cur PROVE ~Up(p)
    <3>1. processes[cur] = 0 /\ at = "launch" /\ p # 0
      BY <1>1, Launched, InRun, ChildTyped DEF Launch
    <3>2. QED
      BY <2>1, <3>1 DEF LiveInv, Leaked, InStart
  <2>2. QED
    BY <1>1, <2>1, Launched DEF LastInv, Up
<1>2. CASE Same(children') \/ UNCHANGED children
  <2>1. DOMAIN children' = DOMAIN children
    BY <1>2 DEF Same, TypeOK
  <2>2. QED
    BY <2>1, ChildrenStay DEF LastInv
<1>3. Moves => Launch \/ Terminate \/ UNCHANGED children
  BY DEF Moves, Discover, Reap, ReapFails, BeginStarts, Pick, Register, Announce, StartFails, Sleep, Wake
<1>4. Terminate => Same(children')
  BY ToldIsSame DEF Terminate
<1>5. QED
  BY <1>1, <1>2, <1>3, <1>4, Kinds, BesideSteps, StaysSteps

\* A child that runs is registered, about to be, or leaked.
LEMMA LiveNext ==
  ASSUME TypeOK, StackInv, PassInv, ListInv, LiveInv, [Next]_vars
  PROVE  LiveInv'
<1> USE DEF Starting, InStart
<1>1. CASE Launch
  <2>1. at = "launch" /\ at' = "register" /\ UNCHANGED <<processes, cur, stopping, calm>> /\ rest' = rest
    BY <1>1, MovesSteps DEF Launch, Goto, Moves
  <2>2. ASSUME NEW p \in DOMAIN children, Up(p) PROVE processes[children[p].id] = p \/ Leaked(p)
    BY <2>1, <2>2 DEF LiveInv
  <2>3. QED
    BY <1>1, <2>1, <2>2, Launched DEF LiveInv, Leaked, Up
<1>2. CASE Register
  <2>1. /\ at = "register" /\ at' = "announce" /\ UNCHANGED <<children, cur, stopping, calm>> /\ rest' = rest
        /\ processes' = [processes EXCEPT ![cur] = Len(children)]
    BY <1>2, MovesSteps DEF Register, Goto, Moves
  <2>2. processes[cur] = 0 /\ cur \in Ids /\ children[Len(children)].id = cur
    BY <2>1 DEF PassInv
  <2>3. \A p \in DOMAIN children : p # 0
    BY ChildTyped
  <2>4. QED
    BY <2>1, <2>2, <2>3 DEF LiveInv, Leaked, Up, TypeOK
<1>3. ASSUME ~Launch, ~Register PROVE LiveInv'
  <2>1. DOMAIN children' = DOMAIN children /\ Len(children') = Len(children)
    <3>1. Moves => Launch \/ Terminate \/ UNCHANGED children
      BY DEF Moves, Discover, Reap, ReapFails, BeginStarts, Pick, Register, Announce, StartFails, Sleep, Wake
    <3>2. Terminate => Same(children')
      BY ToldIsSame DEF Terminate
    <3>3. Same(children') \/ UNCHANGED children
      BY <1>3, <3>1, <3>2, Kinds, BesideSteps, StaysSteps
    <3>4. QED
      BY <3>3 DEF Same, TypeOK
  <2>2. SUFFICES ASSUME NEW p \in DOMAIN children, Up(p)'
                 PROVE  \/ processes'[children[p].id] = p
                        \/ at' = "register" /\ p = Len(children)
                        \/ Leaked(p)'
    BY <2>1, ChildrenStay DEF LiveInv
  <2>3. Up(p) /\ children'[p].id = children[p].id
    BY <2>2, ChildrenStay
  <2>4. CASE processes[children[p].id] = p
    BY <1>3, <2>2, <2>4, Removed
  <2>5. CASE at = "register" /\ p = Len(children)
    <3>1. children[p].id = cur /\ cur \notin rest
      BY <2>5 DEF PassInv
    <3>2. CASE Moves
      <4>1. pc = "register"
        BY <2>5, <3>2, MovesSteps
      <4>2. QED
        BY <1>3, <3>2, <4>1 DEF Moves, Discover, Terminate, Reap, ReapFails, BeginStarts, Pick, Announce, StartFails, Sleep, Wake
    <3>3. CASE Thrown /\ StopFails
      <4>1. stopping' /\ ~calm' /\ ((at' = "start" /\ rest' = rest) \/ at' = "crashed")
        BY <3>3 DEF Thrown, Goto, StopFails, at, rest, StackInv
      <4>2. QED
        BY <2>3, <3>1, <4>1 DEF Leaked
    <3>4. CASE at' = at
      BY <2>5, <3>4
    <3>5. QED
      BY <3>2, <3>3, <3>4, Kinds, BesideSteps, StaysSteps, Failing, FramesStay DEF Beside, Return, Popped
  <2>6. CASE Leaked(p)
    <3>1. CASE Moves
      <4>1. at = pc /\ rest = todo /\ at' = pc' /\ rest' = todo' /\ UNCHANGED stopping
        BY <3>1, MovesSteps, MovesAlone
      <4>2. pc' \notin {"terminate", "reap"} /\ ~calm'
        BY <2>6, <3>1, <4>1 DEF Leaked, Moves, Discover, Terminate, Reap, ReapFails, BeginStarts, Pick, Launch, Register, Announce, StartFails, Sleep, Wake, Goto
      <4>3. CASE Pick
        BY <2>3, <2>6, <4>1, <4>2, <4>3 DEF Leaked, Pick, Goto
      <4>4. CASE ~Pick
        BY <1>3, <2>3, <2>6, <3>1, <4>1, <4>2, <4>4 DEF Leaked, Moves, Discover, Terminate, Reap, ReapFails, BeginStarts, Announce, StartFails, Sleep, Wake, Goto
      <4>5. QED
        BY <4>3, <4>4
    <3>2. CASE Beside
      <4>1. stopping' /\ ~calm' /\ UNCHANGED cur
        <5>1. stopping /\ ~calm
          BY <2>6 DEF Leaked
        <5>2. CASE Signal
          BY <5>1, <5>2 DEF Signal
        <5>3. CASE StopOne
          BY <5>1, <5>3 DEF StopOne
        <5>4. CASE Return
          BY <5>1, <5>4 DEF Return
        <5>5. CASE StopFails
          BY <5>1, <5>5 DEF StopFails
        <5>6. QED
          BY <3>2, <5>2, <5>3, <5>4, <5>5 DEF Beside
      <4>2. CASE Thrown
        <5>1. at' = pc' /\ rest' = todo'
          BY <4>2 DEF Thrown, at, rest
        <5>2. QED
          BY <2>3, <2>6, <4>1, <4>2, <5>1 DEF Leaked, Thrown, Goto
      <4>3. QED
        BY <2>3, <2>6, <3>2, <4>1, <4>2, BesideSteps DEF Leaked
    <3>3. CASE Stays
      BY <2>3, <2>6, <3>3, StaysSteps, StaysStill DEF Leaked, frame
    <3>4. QED
      BY <3>1, <3>2, <3>3, Kinds
  <2>7. QED
    BY <2>3, <2>4, <2>5, <2>6 DEF LiveInv
<1>4. QED
  BY <1>1, <1>2, <1>3

----------------------------------------------------------------------------
(* A calm end, and the restart policy. *)

\* As long as it is calm a stop ends all that is registered.
LEMMA CalmNext ==
  ASSUME TypeOK, StackInv, PassInv, ListInv, CalmInv, [Next]_vars
  PROVE  CalmInv'
<1> USE DEF Registered
<1>1. CASE Moves
  <2>1. /\ stack = <<>> /\ stack' = <<>> /\ pc # "stop" /\ pc' # "stop" /\ UNCHANGED stopping
    BY <1>1, MovesSteps, MovesAlone
  <2>2. CASE Discover \/ Wake
    BY <2>1, <2>2 DEF Discover, Wake, Goto, CalmInv
  <2>3. CASE Terminate \/ BeginStarts \/ Pick \/ Launch
    BY <2>1, <2>3 DEF Terminate, BeginStarts, Pick, Launch, Goto, CalmInv
  <2>4. CASE Sleep
    BY <2>1, <2>4 DEF Sleep, Goto, CalmInv
  <2>5. CASE Reap
    BY <2>1, <2>5 DEF Reap, Goto, CalmInv, TypeOK
  <2>6. CASE ReapFails \/ StartFails
    BY <2>6 DEF ReapFails, StartFails, CalmInv
  <2>7. CASE Register
    <3>1. cur \in Ids /\ children # <<>> /\ Len(children) # 0
      BY <2>7, InRun, EmptySeq DEF Register, PassInv, InStart, TypeOK
    <3>2. QED
      BY <2>1, <2>7, <3>1 DEF Register, Goto, CalmInv, TypeOK
  <2>8. CASE Announce
    BY <2>1, <2>8 DEF Announce, Goto, CalmInv, TypeOK
  <2>9. QED
    BY <1>1, <2>2, <2>3, <2>4, <2>5, <2>6, <2>7, <2>8 DEF Moves
<1>2. CASE Stays
  BY <1>2, StaysSteps, StaysStill DEF CalmInv, frame
<1>3. CASE Signal
  <2>1. at' = at /\ stack' # <<>> /\ pc' = "stop" /\ UNCHANGED <<processes, file>> /\ todo' = {processes[c] : c \in Registered}
    <3>1. at' = at /\ pc' = "stop" /\ UNCHANGED <<processes, file>> /\ todo' = {processes[c] : c \in Registered}
      BY <1>3, FramesStay DEF Signal, Goto
    <3>2. QED
      BY <3>1, StackNext DEF StackInv
  <2>2. calm' => calm /\ (pc = "sleep" \/ pc = "stop")
    BY <1>3 DEF Signal
  <2>3. calm' => at = "sleep"
    BY <2>2, InRun DEF CalmInv, StackInv
  <2>4. QED
    BY <2>1, <2>2, <2>3 DEF CalmInv
<1>4. CASE StopOne
  <2>1. at' = at /\ pc = "stop" /\ pc' = "stop" /\ UNCHANGED <<stack, calm>> /\ stack # <<>>
    BY <1>4, FramesStay DEF StopOne, Goto, StackInv
  <2>2. PICK p \in todo :
          /\ processes' = [processes EXCEPT ![children[p].id] = 0]
          /\ file' = [file EXCEPT ![children[p].id] = "stopped"] /\ todo' = todo \ {p}
    BY <1>4 DEF StopOne, Goto
  <2>3. \A c \in Ids : processes'[c] # 0 => c # children[p].id /\ processes'[c] = processes[c]
    BY <2>2 DEF TypeOK
  <2>4. ASSUME calm, NEW c \in Ids, processes'[c] # 0 PROVE processes'[c] \in todo'
    <3>1. processes[c] \in todo /\ children[processes[c]].id = c
      BY <2>1, <2>3, <2>4 DEF CalmInv, ListInv
    <3>2. QED
      BY <2>2, <2>3, <2>4, <3>1
  <2>5. ASSUME calm, NEW c \in Ids, file'[c] = "running" PROVE processes'[c] # 0
    <3>1. c # children[p].id /\ file[c] = "running"
      BY <2>2, <2>5 DEF TypeOK
    <3>2. QED
      BY <2>2, <2>5, <3>1 DEF CalmInv, TypeOK
  <2>6. QED
    BY <2>1, <2>4, <2>5 DEF CalmInv
<1>5. CASE Return
  <2>1. at' = at /\ stack # <<>> /\ todo = {} /\ pc = "stop" /\ UNCHANGED <<processes, file, calm>>
    BY <1>5, FramesStay DEF Return, Popped, StackInv
  <2>2. calm => at = "sleep" /\ \A c \in Ids : processes[c] = 0 /\ file[c] # "running"
    BY <2>1 DEF CalmInv
  <2>3. stack' = <<>> => at' = pc'
    BY DEF at
  <2>4. stack' # <<>> => pc' = "stop"
    BY StackNext DEF StackInv
  <2>5. QED
    BY <2>1, <2>2, <2>3, <2>4 DEF CalmInv
<1>6. CASE StopFails
  BY <1>6 DEF StopFails, CalmInv
<1>7. QED
  BY <1>1, <1>2, <1>3, <1>4, <1>5, <1>6, Kinds DEF Beside

\* Stopping is for good.
LEMMA StoppingStays ==
  ASSUME StackInv, [Next]_vars, ~stopping'
  PROVE  ~stopping /\ stack = <<>> /\ pc # "stop" /\ ~Beside
<1>1. ~Signal
  BY DEF Signal
<1>2. Moves \/ Stays \/ StopOne \/ Return \/ StopFails
  BY <1>1, Kinds DEF Beside
<1>3. ~stopping
  <2>1. CASE StopOne
    BY <2>1 DEF StopOne
  <2>2. CASE Return
    BY <2>2 DEF Return
  <2>3. CASE StopFails
    BY <2>3 DEF StopFails
  <2>4. QED
    BY <1>2, <2>1, <2>2, <2>3, MovesAlone, StaysStill
<1>4. QED
  BY <1>1, <1>3 DEF StackInv, Beside, StopOne, Return, StopFails

\* Who is not to be restarted is put off for ever.
LEMMA PolicyNext ==
  ASSUME TypeOK, StackInv, PassInv, ListInv, LiveInv, PolicyInv, [Next]_vars
  PROVE  PolicyInv'
<1> SUFFICES ASSUME ~stopping', pc' # "crashed" PROVE PolicyInv'
  BY DEF PolicyInv
<1>1. ~stopping /\ stack = <<>> /\ pc # "stop" /\ at = pc /\ rest = todo /\ (Moves \/ Stays)
  BY StoppingStays, InRun, Kinds
<1>2. pc # "crashed"
  BY <1>1, StaysStill DEF Moves, Discover, Terminate, Reap, ReapFails, BeginStarts, Pick, Launch, Register, Announce, StartFails, Sleep, Wake, frame
<1>3. \A p \in DOMAIN children : p \in 1..Len(children) /\ p # 0 /\ children[p].id \in Ids
  BY ChildTyped
\* A child that runs is registered, so only a dead one can be put off.
<1>4. ASSUME NEW p \in DOMAIN children, processes[children[p].id] # p, ~(pc = "register" /\ p = Len(children))
      PROVE  /\ Follows(p) \/ nextRestart[children[p].id] = "never"
             /\ p \in DOMAIN children' /\ children'[p].id = children[p].id /\ (Follows(p) => Follows(p)')
  <2>1. ~Up(p)
    BY <1>1, <1>4 DEF LiveInv, Leaked
  <2>2. QED
    BY <1>1, <1>2, <1>4, <2>1, ChildrenStay DEF PolicyInv, Follows
<1>5. DOMAIN children = 1..Len(children) /\ (~Launch => DOMAIN children' = DOMAIN children)
  <2>1. Moves => Launch \/ Terminate \/ UNCHANGED children
    BY DEF Moves, Discover, Reap, ReapFails, BeginStarts, Pick, Register, Announce, StartFails, Sleep, Wake
  <2>2. ~Launch => Same(children') \/ UNCHANGED children
    BY <1>1, <2>1, StaysSteps, ToldIsSame DEF Terminate
  <2>3. QED
    BY <2>2 DEF Same, TypeOK
<1>6. CASE UNCHANGED <<processes, nextRestart>> /\ ~Launch /\ pc # "register"
  <2>1. ASSUME NEW p \in DOMAIN children PROVE
          \/ Follows(p)'
          \/ processes[children[p].id] = p /\ children'[p].id = children[p].id
          \/ nextRestart[children[p].id] = "never" /\ children'[p].id = children[p].id
    BY <1>4, <1>6, ChildrenStay
  <2>2. pc' # "register"
    BY <1>1, <1>6, StaysStill DEF Moves, Discover, Terminate, Reap, ReapFails, BeginStarts, Pick, Launch, Register, Announce, StartFails, Sleep, Wake, Goto, frame
  <2>3. pc' = "launch" => nextRestart[cur'] = "now"
    <3>1. CASE Pick
      BY <3>1 DEF Pick, Goto, Startable
    <3>2. CASE Stays
      BY <1>1, <1>2, <3>2, StaysStill DEF PolicyInv, frame
    <3>3. QED
      BY <1>1, <1>6, <3>1, <3>2 DEF Moves, Discover, Terminate, Reap, ReapFails, BeginStarts, Launch, Register, Announce, StartFails, Sleep, Wake, Goto
  <2>4. pc' = "reap" => \A p \in todo' : processes[children[p].id] = p /\ p \in DOMAIN children
    <3>1. CASE Terminate
      BY <3>1 DEF Terminate, Goto, ListInv, Registered, TypeOK
    <3>2. CASE Stays \/ Reap
      BY <1>1, <1>2, <3>2, StaysStill DEF PolicyInv, frame, Reap, Goto, TypeOK, Over
    <3>3. QED
      BY <1>1, <1>6, <3>1, <3>2 DEF Moves, Discover, ReapFails, BeginStarts, Pick, Launch, Register, Announce, StartFails, Sleep, Wake, Goto
  <2>5. \A c \in Ids : processes[c] # 0 => nextRestart[c] = "now"
    BY <1>1, <1>2 DEF PolicyInv
  <2>6. \A p \in DOMAIN children : children'[p].id = children[p].id
    BY ChildrenStay
  <2>7. QED
    BY <1>5, <1>6, <2>1, <2>2, <2>3, <2>4, <2>5, <2>6 DEF PolicyInv
<1>7. CASE Reap
  <2>1. PICK p \in todo : Goto("reap", todo \ {p}) /\
          IF Up(p) THEN UNCHANGED <<processes, file, nextRestart>>
          ELSE /\ processes' = [processes EXCEPT ![children[p].id] = 0]
               /\ nextRestart' = [nextRestart EXCEPT ![children[p].id] = RestartOf(p)]
    BY <1>7 DEF Reap
  <2>2. UNCHANGED children /\ pc = "reap" /\ pc' = "reap" /\ p \in DOMAIN children
    BY <1>7, <2>1 DEF Reap, Goto, TypeOK, Over
  <2>3. CASE Up(p)
    BY <1>6, <2>1, <2>2, <2>3 DEF Launch
  <2>4. CASE ~Up(p)
    <3>1. PICK c \in Ids : c = children[p].id /\ processes[c] = p /\ p # 0 /\ nextRestart[c] = "now"
      BY <1>1, <1>2, <1>3, <2>1, <2>2 DEF PolicyInv
    <3>2. processes' = [processes EXCEPT ![c] = 0] /\ nextRestart' = [nextRestart EXCEPT ![c] = RestartOf(p)]
      BY <2>1, <2>4, <3>1
    <3>3. \A o \in Ids : o # c => processes'[o] = processes[o] /\ nextRestart'[o] = nextRestart[o]
      BY <3>2 DEF TypeOK
    <3>4. processes'[c] = 0 /\ nextRestart'[c] = RestartOf(p)
      BY <3>1, <3>2 DEF TypeOK
    <3>5. Follows(p) \/ RestartOf(p) = "never"
      BY DEF Follows, RestartOf
    <3>6. \A q \in DOMAIN children : Follows(q) <=> Follows(q)'
      BY <2>2 DEF Follows
    <3>7. ASSUME NEW q \in DOMAIN children
          PROVE  Follows(q) \/ processes'[children[q].id] = q \/ nextRestart'[children[q].id] = "never"
      <4>1. CASE children[q].id = c /\ q # p
        BY <1>4, <2>2, <3>1, <4>1
      <4>2. CASE children[q].id # c
        BY <1>3, <1>4, <2>2, <3>3, <4>2
      <4>3. CASE q = p
        BY <3>1, <3>4, <3>5, <4>3
      <4>4. QED
        BY <4>1, <4>2, <4>3
    <3>8. ASSUME NEW q \in todo, q # p PROVE processes'[children[q].id] = q
      <4>1. processes[children[q].id] = q /\ children[q].id \in Ids
        BY <1>1, <1>2, <1>3, <2>2 DEF PolicyInv, TypeOK, Over
      <4>2. QED
        BY <3>1, <3>3, <3>8, <4>1
    <3>9. \A o \in Ids : processes'[o] # 0 => nextRestart'[o] = "now"
      BY <1>1, <1>2, <3>3, <3>4 DEF PolicyInv
    <3>10. todo' = todo \ {p}
      BY <2>1 DEF Goto
    <3>11. QED
      BY <2>2, <3>6, <3>7, <3>8, <3>9, <3>10 DEF PolicyInv
  <2>5. QED
    BY <2>3, <2>4
<1>8. CASE Launch
  <2>1. pc = "launch" /\ pc' = "register" /\ UNCHANGED <<processes, nextRestart, cur>>
    BY <1>8 DEF Launch, Goto
  <2>2. ASSUME NEW p \in DOMAIN children PROVE Follows(p)' \/ processes[children[p].id] = p \/ nextRestart[children[p].id] = "never"
    BY <1>4, <2>1
  <2>3. QED
    BY <1>1, <1>2, <1>8, <2>1, <2>2, Launched DEF PolicyInv
<1>9. CASE Register
  <2>1. /\ pc = "register" /\ pc' = "announce" /\ UNCHANGED <<children, nextRestart, cur>>
        /\ processes' = [processes EXCEPT ![cur] = Len(children)]
    BY <1>9 DEF Register, Goto
  <2>2. cur \in Ids /\ children[Len(children)].id = cur /\ nextRestart[cur] = "now" /\ processes[cur] = 0
    BY <1>1, <1>2, <2>1 DEF PassInv, InStart, PolicyInv
  <2>3. processes'[cur] = Len(children) /\ \A c \in Ids \ {cur} : processes'[c] = processes[c]
    BY <2>1, <2>2 DEF TypeOK
  <2>4. ASSUME NEW p \in DOMAIN children
        PROVE  Follows(p)' \/ processes'[children[p].id] = p \/ nextRestart[children[p].id] = "never"
    <3>1. CASE p = Len(children)
      BY <2>2, <2>3, <3>1
    <3>2. CASE p # Len(children) /\ processes[children[p].id] # p
      BY <1>4, <3>2
    <3>3. CASE processes[children[p].id] = p
      BY <1>3, <2>2, <2>3, <3>3
    <3>4. QED
      BY <3>1, <3>2, <3>3
  <2>5. QED
    BY <1>1, <1>2, <2>1, <2>2, <2>3, <2>4 DEF PolicyInv
<1>10. CASE Stays
  <2>1. UNCHANGED <<processes, pc, todo, cur>> /\ DOMAIN children' = DOMAIN children /\ Len(children') = Len(children)
    BY <1>10, StaysStill, StaysSteps DEF frame, Same, TypeOK
  <2>2. \A c \in Ids : nextRestart'[c] = nextRestart[c] \/ (nextRestart[c] = "later" /\ nextRestart'[c] = "now")
    <3>1. CASE UNCHANGED nextRestart
      BY <3>1
    <3>2. CASE \E c \in Ids : DelayPasses(c)
      BY <3>2 DEF DelayPasses, TypeOK
    <3>3. QED
      BY <1>10, <3>1, <3>2 DEF Stays, Exit, EditManifest, ExitTermed, vars
  <2>3. ASSUME NEW p \in DOMAIN children
        PROVE  /\ children'[p].id = children[p].id
               /\ Follows(p)' \/ processes[children[p].id] = p \/ (pc = "register" /\ p = Len(children)) \/ nextRestart'[children[p].id] = "never"
    BY <1>3, <1>4, <2>2, ChildrenStay
  <2>4. pc \in {"launch", "register"} => cur \in Ids /\ nextRestart[cur] = "now"
    BY <1>1, <1>2 DEF PassInv, InStart, PolicyInv
  <2>5. pc = "reap" => \A p \in todo : p \in DOMAIN children /\ processes[children[p].id] = p
    BY <1>1, <1>2 DEF PolicyInv, TypeOK, Over
  <2>6. QED
    BY <1>1, <1>2, <2>1, <2>2, <2>3, <2>4, <2>5 DEF PolicyInv
<1>11. QED
  <2>1. Moves => Launch \/ Register \/ Reap \/ ReapFails \/ (UNCHANGED <<processes, nextRestart>> /\ pc # "register")
    BY DEF Moves, Discover, Terminate, BeginStarts, Pick, Announce, StartFails, Sleep, Wake
  <2>2. ~ReapFails
    BY DEF ReapFails, Goto
  <2>3. QED
    BY <1>1, <1>6, <1>7, <1>8, <1>9, <1>10, <2>1, <2>2

\* A child is started by the policy of the one before it.
LEMMA FollowNext ==
  ASSUME TypeOK, StackInv, PassInv, LastInv, PolicyInv, RestartsFollowPolicy, [Next]_vars
  PROVE  RestartsFollowPolicy'
<1> SUFFICES ASSUME NEW p \in DOMAIN children', NEW q \in DOMAIN children', p < q,
                    children'[p].id = children'[q].id, ~stopping'
             PROVE  Follows(p)'
  BY DEF RestartsFollowPolicy, Follows
<1>1. ~stopping /\ stack = <<>> /\ pc # "stop" /\ (Moves \/ Stays)
  BY StoppingStays, Kinds
<1>2. CASE p \in DOMAIN children /\ q \in DOMAIN children
  <2>1. children[p].id = children[q].id /\ ~Up(p)
    BY <1>2, ChildrenStay DEF LastInv
  <2>2. Follows(p)
    BY <1>1, <1>2, <2>1 DEF RestartsFollowPolicy, Follows
  <2>3. QED
    BY <1>2, <2>1, <2>2, ChildrenStay DEF Follows
<1>3. CASE Launch
  <2>1. /\ DOMAIN children' = 1..(Len(children) + 1) /\ DOMAIN children = 1..Len(children) /\ Len(children) \in Nat
        /\ children'[Len(children) + 1].id = cur /\ cur \in Ids /\ processes[cur] = 0
        /\ \A c \in DOMAIN children : children'[c] = children[c]
    BY <1>3, Launched
  <2>2. CASE q \in DOMAIN children
    BY <1>2, <2>1, <2>2
  <2>3. CASE q = Len(children) + 1
    <3>1. p \in DOMAIN children /\ children'[p] = children[p] /\ children[p].id = cur /\ p # 0
      BY <2>1, <2>3
    <3>2. pc = "launch" /\ nextRestart[cur] = "now"
      BY <1>1, <1>3 DEF Launch, PolicyInv
    <3>3. Follows(p)
      BY <1>1, <2>1, <3>1, <3>2 DEF PolicyInv
    <3>4. QED
      BY <3>1, <3>3 DEF Follows
  <2>4. QED
    BY <2>1, <2>2, <2>3
<1>4. CASE ~Launch
  <2>1. Moves => Launch \/ Terminate \/ UNCHANGED children
    BY DEF Moves, Discover, Reap, ReapFails, BeginStarts, Pick, Register, Announce, StartFails, Sleep, Wake
  <2>2. Same(children') \/ UNCHANGED children
    BY <1>1, <1>4, <2>1, StaysSteps, ToldIsSame DEF Terminate
  <2>3. DOMAIN children' = DOMAIN children
    BY <2>2 DEF Same, TypeOK
  <2>4. QED
    BY <1>2, <2>3
<1>5. QED
  BY <1>3, <1>4

----------------------------------------------------------------------------
(* What the supervisor keeps. *)

SupervisorInv ==
  /\ TypeOK /\ StackInv /\ PassInv /\ ListInv /\ LiveInv /\ LastInv /\ CalmInv /\ PolicyInv
  /\ RestartsFollowPolicy

\* The invariant holds at the start.
LEMMA SupervisorInit == Init => SupervisorInv
<1> SUFFICES ASSUME Init PROVE SupervisorInv
  OBVIOUS
<1>1. TypeOK
  <2>1. children \in Seq(Child) /\ stack \in Seq(Frame) /\ DOMAIN stack = {} /\ Len(children) = 0
    BY EmptySeq DEF Init
  <2>2. manifest \in [Ids -> Specs \cup {NoSpec}] /\ specs \in [Ids -> Specs \cup {NoSpec}] /\ troubles \in 0..MaxTroubles
    BY DEF Init
  <2>3. /\ processes \in [Ids -> 0..Len(children)] /\ nextRestart \in [Ids -> {"now", "later", "never"}]
        /\ file \in [Ids -> {"absent", "running", "exited", "stopped"}]
    BY <2>1 DEF Init
  <2>4. QED
    BY <2>1, <2>2, <2>3 DEF Init, TypeOK, Pcs, Over
<1>2. StackInv /\ PassInv /\ ListInv /\ LiveInv /\ LastInv
  BY EmptySeq DEF Init, StackInv, PassInv, ListInv, Listed, LiveInv, LastInv, at, rest, Starting, InStart
<1>3. CalmInv /\ PolicyInv /\ RestartsFollowPolicy
  BY EmptySeq DEF Init, CalmInv, PolicyInv, RestartsFollowPolicy, Registered
<1>4. QED
  BY <1>1, <1>2, <1>3 DEF SupervisorInv

\* It holds always.
LEMMA SupervisorHolds == Spec => []SupervisorInv
<1>1. SupervisorInv /\ [Next]_vars => SupervisorInv'
  BY TypeNext, StackNext, PassNext, ListNext, LiveNext, LastNext, CalmNext, PolicyNext, FollowNext DEF SupervisorInv
<1>2. QED
  BY <1>1, SupervisorInit, PTL DEF Spec

\* Every variable keeps its type, also through signals in signal handlers and
\* writes of supervisor.json that fail: for any connectors and manifests.
THEOREM SupervisorIsTyped == Spec => []TypeOK
<1>1. SupervisorInv => TypeOK
  BY DEF SupervisorInv
<1>2. QED
  BY <1>1, SupervisorHolds, PTL

\* No connector runs twice, whatever interrupts start and reap; as long as it
\* is calm no running connector escapes supervision, and the end is clean.
THEOREM SupervisionHolds == Spec => []Supervised
<1>1. SupervisorInv => OneChildPerConnector
  <2> SUFFICES ASSUME SupervisorInv, NEW p \in DOMAIN children, NEW q \in DOMAIN children,
                      p # q, Up(p), Up(q), children[p].id = children[q].id
               PROVE  FALSE
    BY DEF OneChildPerConnector
  <2>1. p < q \/ q < p
    BY ChildTyped DEF SupervisorInv, TypeOK
  <2>2. QED
    BY <2>1 DEF SupervisorInv, LastInv
<1>2. SupervisorInv => RunningIsSupervised
  <2> SUFFICES ASSUME SupervisorInv, calm, NEW p \in DOMAIN children, Up(p)
               PROVE  processes[children[p].id] = p \/ (pc = "register" /\ p = Len(children))
    BY DEF RunningIsSupervised
  <2>1. ~Leaked(p) /\ (processes[children[p].id] = p \/ (at = "register" /\ p = Len(children)))
    BY DEF SupervisorInv, LiveInv, Leaked
  <2>2. at = "register" => pc = "register"
    BY DEF SupervisorInv, CalmInv, at
  <2>3. QED
    BY <2>1, <2>2
<1>3. SupervisorInv => CalmStopIsClean
  <2> SUFFICES ASSUME SupervisorInv, pc = "done", calm
               PROVE  \A c \in Ids : file[c] # "running" /\ \A p \in DOMAIN children : ~Up(p)
    BY DEF CalmStopIsClean
  <2>1. stack = <<>> /\ at = "done" /\ stopping /\ \A c \in Ids : processes[c] = 0
    BY InRun DEF SupervisorInv, CalmInv, StackInv, Registered
  <2>2. \A c \in Ids : file[c] # "running"
    BY <2>1 DEF SupervisorInv, CalmInv
  <2>3. ASSUME NEW p \in DOMAIN children PROVE ~Up(p)
    <3>1. children[p].id \in Ids /\ p \in 1..Len(children)
      BY ChildTyped DEF SupervisorInv
    <3>2. processes[children[p].id] # p
      BY <2>1, <3>1
    <3>3. QED
      BY <2>1, <3>2 DEF SupervisorInv, LiveInv, Leaked
  <2>4. QED
    BY <2>2, <2>3
<1>4. QED
  BY <1>1, <1>2, <1>3, SupervisorHolds, PTL DEF Supervised

\* Before the first signal a connector is started again only if the manifest
\* its last child was started with asks for it.
THEOREM RestartsAreByPolicy == Spec => []RestartsFollowPolicy
<1>1. SupervisorInv => RestartsFollowPolicy
  BY DEF SupervisorInv
<1>2. QED
  BY <1>1, SupervisorHolds, PTL
=============================================================================
