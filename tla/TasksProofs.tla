------------------------------- MODULE TasksProofs -------------------------------
(***************************************************************************)
(* What holds of Tasks for every finite number of orders and of scheduled  *)
(* tasks, and every number and kind of faults.                             *)
(***************************************************************************)
EXTENDS Tasks, FiniteSetTheorems, SequenceTheorems, TLAPS

-----------------------------------------------------------------------------
(* The invariants.                                                         *)

\* The messages of a task, and of the agent's list.
OrderOf(t) == [kind |-> "order", task |-> t]
AckOf(t) == [kind |-> "ack", task |-> t]
OkOf(t) == [kind |-> "ok", task |-> t]
BusyOf(t) == [kind |-> "busy", task |-> t]
EventOf(o) == [kind |-> "event", outcome |-> o]
ListingOf(known) == [kind |-> "listing", known |-> known]

\* What is on the wires: orders, acknowledgements, answers, lists of tasks.
Ordered == {t \in Orders : OrderOf(t) \in ToSet(toAgent)}
Acknowledged == {t \in Tasks : AckOf(t) \in ToSet(toAgent)}
Accepted == {t \in Orders : OkOf(t) \in ToSet(toPanel)}
Refused == {t \in Orders : BusyOf(t) \in ToSet(toPanel)}
Known == [Tasks -> {"none", "running"} \cup Final]
Listed == {known \in Known : ListingOf(known) \in ToSet(toPanel)}

\* The outcomes that the agent has told, or is telling.
Told == outbox \cup seen \cup {o \in Outcomes : EventOf(o) \in ToSet(toPanel)}

\* The tasks that the agent runs, or is about to.
Launched == starting \cup (active \ ending)

\* The tasks that the agent has not begun.
Ahead == {t \in Orders : row[t] = "none"} \cup Ordered \cup due \cup marking

\* An order is on the wire once.
Unrepeated(s) == \A i, j \in 1..Len(s) : s[i] = s[j] /\ s[i].kind = "order" => i = j
Single == Unrepeated(toAgent)

\* An order is sent for a row; an occurrence of the scheduler that has not begun has none.
Rowed ==
    /\ \A t \in Ordered : row[t] # "none"
    /\ \A t \in due \cup marking : row[t] = "none"
    /\ due \cap marking = {}

\* The agent holds nothing of a task it has not begun, and nothing was said of it.
Untouched ==
    \A t \in Ahead :
        /\ journal[t].st = "none" /\ disk[t].st = "none" /\ ran[t] = "none"
        /\ t \notin starting \cup active \cup recovering \cup answering
        /\ t \notin Accepted \cup Refused
        /\ \A o \in Told : o.task # t
        /\ \A known \in Listed : known[t] = "none"

\* The tasks of an agent that is down are gone, and so are its messages.
Down ==
    ~up => /\ phase = "offline" /\ toPanel = <<>>
           /\ starting = {} /\ active = {} /\ recovering = {} /\ marking = {}

\* A task the agent runs has a running record, which is that of this run.
Running ==
    /\ starting \cap active = {}
    /\ (starting \cup active) \cap recovering = {}
    /\ \A t \in Launched : journal[t].st = "running" /\ ran[t] = "none"
    /\ \A t \in active \ ending : disk[t].st # "none"
    /\ \A t \in ending : journal[t].st # "running"

\* These go together.
Core == TypeOK /\ Single /\ Rowed /\ Untouched /\ Down /\ Running

\* A success, or a cancellation, is told by nobody before the executor reached it.
IsReal(t, st) == st \in {"done", "cancelled"} => ran[t] = st
Real ==
    /\ \A t \in Tasks : IsReal(t, row[t]) /\ IsReal(t, journal[t].st) /\ IsReal(t, disk[t].st)
    /\ \A o \in Told : IsReal(o.task, o.verdict)
    /\ \A known \in Listed : \A t \in Tasks : IsReal(t, known[t])

\* The panel acknowledges what it has settled, and the agent forgets what is acknowledged.
Acked ==
    /\ \A t \in Acknowledged : row[t] \in Final
    /\ \A t \in Tasks : journal[t].st # "none" /\ journal[t].acked => row[t] \in Final
    /\ \A t \in Tasks : disk[t].st # "none" /\ disk[t].acked => row[t] \in Final
    /\ \A t \in Tasks : ran[t] # "none" /\ disk[t].st = "none" => row[t] \in Final
    /\ ForgottenIsSettled

\* A task that is refused, or of which an outcome is told, does not run any more.
Over ==
    /\ \A o \in Told : o.task \notin starting \cup active
    /\ \A known \in Listed : \A t \in Launched : known[t] \notin Final
    /\ \A t \in Refused : journal[t].st = "none"

\* The panel awaits the answer of every order it sent, but for those it closed.
Awaited == Ordered \subseteq asking \cup disowned

\* A list that ignores a task that was ordered or begun is read before the answer to the order.
Overtaken ==
    \A i \in 1..Len(toPanel) : \A t \in Orders \ disowned :
        toPanel[i].kind = "listing" /\ toPanel[i].known[t] = "none"
                /\ (t \in Ordered \/ journal[t].st # "none") =>
            t \in asking /\ \A j \in 1..(i - 1) : toPanel[j] # OkOf(t)

\* An order that is sent or runs has an active row, unless its row was closed before its answer,
\* and is the only one.
Owned ==
    /\ \A t \in Orders \ disowned : t \in Ordered \cup Launched => row[t] \in Active
    /\ \A t, u \in Orders : row[t] \in Active /\ row[u] \in Active => t = u

\* No order runs while another one is ending.
Alone ==
    disowned = {} =>
        \A t \in ending \cap Orders : \A u \in Orders \cap (starting \cup active) : u = t

\* The list is asked once in a session, and read at most once.
Lacks(s, kind) == \A i \in 1..Len(s) : s[i].kind # kind
HasOne(s, kind) == \A i, j \in 1..Len(s) : s[i].kind = kind /\ s[j].kind = kind => i = j
ListedOnce ==
    /\ phase \in {"offline", "up"} => Lacks(toAgent, "list") /\ Lacks(toPanel, "listing")
    /\ HasOne(toAgent, "list") /\ HasOne(toPanel, "listing")
    /\ Lacks(toAgent, "list") \/ Lacks(toPanel, "listing")

\* Without a crash of the agent, its journal never takes back what it told.
Kept ==
    "crash" \notin ToSet(faults) =>
        /\ up /\ recovering = {}
        /\ \A t \in Tasks \ disowned : row[t] \in Final => journal[t].st \in {"none", row[t]}
        /\ \A t \in Scheduled : row[t] \in Active => journal[t].st # "none"
        /\ \A t \in Scheduled : t \in Launched => row[t] \notin Final
        /\ \A o \in Told : journal[o.task].st \in {"none", o.verdict}
        /\ \A known \in Listed : \A t \in Tasks :
               /\ known[t] \in Final => journal[t].st \in {"none", known[t]}
               /\ known[t] # "none" => journal[t].st # "none" \/ row[t] \in Final
               /\ known[t] = "none" /\ t \in Scheduled => row[t] \notin Active

-----------------------------------------------------------------------------
(* Channels, and the messages on them.                                     *)

\* What a channel holds after its head is read or a message is added.
LEMMA Carried ==
    ASSUME NEW M, NEW s \in Seq(M)
    PROVE  /\ ToSet(s) \subseteq M
           /\ \A m : m \in ToSet(s) <=> \E i \in 1..Len(s) : s[i] = m
           /\ s # <<>> => /\ Head(s) \in ToSet(s) /\ Tail(s) \in Seq(M)
                          /\ ToSet(Tail(s)) \subseteq ToSet(s)
           /\ \A m \in M : /\ Append(s, m) \in Seq(M)
                           /\ ToSet(Append(s, m)) = ToSet(s) \cup {m}
           /\ \A u \in Seq(M) : /\ s \o u \in Seq(M)
                                /\ ToSet(s \o u) = ToSet(s) \cup ToSet(u)
<1>1. \A m : m \in ToSet(s) <=> \E i \in 1..Len(s) : s[i] = m
  BY DEF ToSet
<1>2. ToSet(s) \subseteq M
  BY <1>1
<1>3. s # <<>> => /\ Head(s) \in ToSet(s) /\ Tail(s) \in Seq(M)
                  /\ ToSet(Tail(s)) \subseteq ToSet(s)
  <2> SUFFICES ASSUME s # <<>> PROVE /\ Head(s) \in ToSet(s) /\ Tail(s) \in Seq(M)
                                     /\ ToSet(Tail(s)) \subseteq ToSet(s)
    OBVIOUS
  <2>1. Len(s) \in Nat \ {0} /\ Head(s) = s[1]
    OBVIOUS
  <2>2. Head(s) \in ToSet(s)
    BY <1>1, <2>1
  <2>3. /\ Tail(s) \in Seq(M) /\ Len(Tail(s)) = Len(s) - 1
        /\ \A i \in 1..Len(Tail(s)) : Tail(s)[i] = s[i + 1]
    BY HeadTailProperties
  <2>4. ToSet(Tail(s)) \subseteq ToSet(s)
    <3> SUFFICES ASSUME NEW i \in 1..Len(Tail(s)) PROVE Tail(s)[i] \in ToSet(s)
      BY <2>3 DEF ToSet
    <3>1. i + 1 \in 1..Len(s) /\ Tail(s)[i] = s[i + 1]
      BY <2>1, <2>3
    <3> QED
      BY <1>1, <3>1
  <2> QED
    BY <2>2, <2>3, <2>4
<1>4. ASSUME NEW m \in M
      PROVE  Append(s, m) \in Seq(M) /\ ToSet(Append(s, m)) = ToSet(s) \cup {m}
  <2>1. /\ Append(s, m) \in Seq(M) /\ Len(Append(s, m)) = Len(s) + 1
        /\ \A i \in 1..Len(s) : Append(s, m)[i] = s[i]
        /\ Append(s, m)[Len(s) + 1] = m
    BY AppendProperties
  <2>2. \A x : x \in ToSet(Append(s, m)) <=>
            \E i \in 1..(Len(s) + 1) : Append(s, m)[i] = x
    BY <2>1 DEF ToSet
  <2> QED
    BY <1>1, <2>1, <2>2
<1>5. ASSUME NEW u \in Seq(M)
      PROVE  s \o u \in Seq(M) /\ ToSet(s \o u) = ToSet(s) \cup ToSet(u)
  <2>1. /\ s \o u \in Seq(M) /\ Len(s \o u) = Len(s) + Len(u)
        /\ \A i \in 1..(Len(s) + Len(u)) :
               (s \o u)[i] = IF i <= Len(s) THEN s[i] ELSE u[i - Len(s)]
    BY ConcatProperties
  <2>2. \A x : x \in ToSet(s \o u) <=>
            \E i \in 1..(Len(s) + Len(u)) : (s \o u)[i] = x
    BY <2>1 DEF ToSet
  <2>3. \A x : x \in ToSet(u) <=> \E i \in 1..Len(u) : u[i] = x
    BY DEF ToSet
  <2>4. ToSet(s \o u) \subseteq ToSet(s) \cup ToSet(u)
    <3> SUFFICES ASSUME NEW i \in 1..(Len(s) + Len(u))
                 PROVE  (s \o u)[i] \in ToSet(s) \cup ToSet(u)
      BY <2>2
    <3>1. CASE i <= Len(s)
      BY <1>1, <2>1, <3>1
    <3>2. CASE ~(i <= Len(s))
      <4>1. i - Len(s) \in 1..Len(u) /\ (s \o u)[i] = u[i - Len(s)]
        BY <2>1, <3>2
      <4> QED
        BY <2>3, <4>1
    <3> QED
      BY <3>1, <3>2
  <2>5. ToSet(s) \subseteq ToSet(s \o u)
    BY <1>1, <2>1, <2>2
  <2>6. ToSet(u) \subseteq ToSet(s \o u)
    <3> SUFFICES ASSUME NEW i \in 1..Len(u) PROVE u[i] \in ToSet(s \o u)
      BY <2>3
    <3>1. i + Len(s) \in 1..(Len(s) + Len(u)) /\ (s \o u)[i + Len(s)] = u[i]
      BY <2>1
    <3> QED
      BY <2>2, <3>1
  <2> QED
    BY <2>1, <2>4, <2>5, <2>6
<1> QED
  BY <1>1, <1>2, <1>3, <1>4, <1>5

\* The messages are what they are made of.
LEMMA Messages ==
    /\ \A m \in ToAgent :
           /\ m.kind \in {"order", "cancel", "ack", "list"}
           /\ m.kind = "order" => m.task \in Orders /\ m = OrderOf(m.task)
           /\ m.kind = "ack" => m.task \in Tasks /\ m = AckOf(m.task)
           /\ m.kind = "cancel" => m.task \in Tasks
    /\ \A m \in ToPanel :
           /\ m.kind \in {"ok", "busy", "progress", "event", "listing"}
           /\ m.kind = "ok" => m.task \in Orders /\ m = OkOf(m.task)
           /\ m.kind = "busy" => m.task \in Orders /\ m = BusyOf(m.task)
           /\ m.kind = "progress" => m.task \in Tasks
           /\ m.kind = "event" => m.outcome \in Outcomes /\ m = EventOf(m.outcome)
           /\ m.kind = "listing" => m.known \in Known /\ m = ListingOf(m.known)
    /\ \A t \in Orders : OrderOf(t) \in ToAgent /\ OkOf(t) \in ToPanel /\ BusyOf(t) \in ToPanel
    /\ \A t \in Tasks : AckOf(t) \in ToAgent
    /\ \A t \in Tasks : [kind |-> "cancel", task |-> t] \in ToAgent
    /\ [kind |-> "list"] \in ToAgent
    /\ \A t \in Tasks : [kind |-> "progress", task |-> t] \in ToPanel
    /\ \A o \in Outcomes : EventOf(o) \in ToPanel
    /\ \A known \in Known : ListingOf(known) \in ToPanel
  BY DEF ToAgent, ToPanel, Tasks, OrderOf, AckOf, OkOf, BusyOf, EventOf, ListingOf, Known

\* An outcome is made of a task and a verdict.
LEMMA Outcome ==
    /\ \A o \in Outcomes : o.task \in Tasks /\ o.verdict \in Final
    /\ \A t \in Tasks, v \in Final :
           LET o == [task |-> t, verdict |-> v] IN
               o \in Outcomes /\ o.task = t /\ o.verdict = v
  BY DEF Outcomes

\* There are finitely many tasks and outcomes.
LEMMA Finite == IsFiniteSet(Tasks) /\ IsFiniteSet(Outcomes)
<1>1. IsFiniteSet(Tasks)
  BY TasksAssumption, FS_Union DEF Tasks
<1>2. IsFiniteSet(Final)
  <2>1. IsFiniteSet({"done"}) /\ IsFiniteSet({"failed"}) /\ IsFiniteSet({"cancelled"})
    BY FS_Singleton
  <2>2. IsFiniteSet({"done"} \cup {"failed"})
    BY <2>1, FS_Union
  <2>3. IsFiniteSet(({"done"} \cup {"failed"}) \cup {"cancelled"})
    BY <2>1, <2>2, FS_Union
  <2>4. Final = ({"done"} \cup {"failed"}) \cup {"cancelled"}
    BY DEF Final
  <2> QED
    BY <2>3, <2>4
<1>3. IsFiniteSet(Outcomes)
  <2> DEFINE f == [o \in Outcomes |-> <<o.task, o.verdict>>]
  <2>1. f \in Injection(Outcomes, Tasks \X Final)
    <3>1. f \in [Outcomes -> Tasks \X Final]
      BY DEF Outcomes
    <3>2. \A o, p \in Outcomes : f[o] = f[p] => o = p
      BY DEF Outcomes
    <3> QED
      BY <3>1, <3>2 DEF Injection, IsInjective
  <2>2. IsFiniteSet(Tasks \X Final)
    BY <1>1, <1>2, FS_Product
  <2> QED
    BY <2>1, <2>2, FS_Injection
<1> QED
  BY <1>1, <1>3

\* The elements of a finite set, one after the other.
LEMMA Enumerated ==
    ASSUME NEW S, IsFiniteSet(S)
    PROVE  /\ Cardinality(S) \in Nat
           /\ SetToSeq(S) \in [1..Cardinality(S) -> S]
           /\ SetToSeq(S) \in Seq(S) /\ Len(SetToSeq(S)) = Cardinality(S)
<1>1. Cardinality(S) \in Nat /\ ExistsBijection(1..Cardinality(S), S)
  BY FS_CardinalityType
<1>2. \E f \in [1..Cardinality(S) -> S] : IsInjective(f)
  BY <1>1 DEF ExistsBijection, Bijection, Injection
<1>3. SetToSeq(S) \in [1..Cardinality(S) -> S]
  BY <1>2 DEF SetToSeq
<1> QED
  BY <1>1, <1>3

\* Acknowledgements of a set of tasks.
LEMMA Acks ==
    ASSUME NEW ts \in SUBSET Tasks
    PROVE  /\ AckAll(ts) \in Seq(ToAgent)
           /\ \A m \in ToSet(AckAll(ts)) : \E t \in ts : m = AckOf(t)
<1>1. IsFiniteSet(ts)
  BY Finite, FS_Subset
<1>2. Cardinality(ts) \in Nat /\ SetToSeq(ts) \in [1..Cardinality(ts) -> ts]
  BY <1>1, Enumerated
<1>3. \A i \in 1..Cardinality(ts) : AckAll(ts)[i] = AckOf(SetToSeq(ts)[i])
          /\ SetToSeq(ts)[i] \in ts
  BY <1>2 DEF AckAll, AckOf
<1>4. AckAll(ts) \in [1..Cardinality(ts) -> ToAgent]
  BY <1>2, <1>3, Messages DEF AckAll
<1>5. AckAll(ts) \in Seq(ToAgent) /\ DOMAIN AckAll(ts) = 1..Cardinality(ts)
  BY <1>2, <1>4
<1> QED
  BY <1>3, <1>5 DEF ToSet

\* The outcomes that are sent again when a session is established.
LEMMA Resent ==
    ASSUME TypeOK, Connect
    PROVE  /\ toPanel' \in Seq(ToPanel)
           /\ \A m \in ToSet(toPanel') : \E o \in outbox : m = EventOf(o)
<1>1. outbox \subseteq Outcomes /\ IsFiniteSet(outbox)
  BY Finite, FS_Subset DEF TypeOK, EventOK
<1> DEFINE os == SetToSeq(outbox)
<1>2. Len(os) \in Nat /\ \A i \in 1..Len(os) : os[i] \in outbox
  BY <1>1, Enumerated
<1>3. toPanel' = [i \in 1..Len(os) |-> [kind |-> "event", outcome |-> os[i]]]
  BY DEF Connect
<1> HIDE DEF os
<1>4. \A i \in 1..Len(os) : toPanel'[i] = EventOf(os[i])
  BY <1>3 DEF EventOf
<1>5. toPanel' \in [1..Len(os) -> ToPanel]
  BY <1>1, <1>2, <1>3, <1>4, Messages
<1>6. toPanel' \in Seq(ToPanel) /\ DOMAIN toPanel' = 1..Len(os)
  BY <1>2, <1>5
<1> QED
  BY <1>2, <1>4, <1>6 DEF ToSet

\* The channels, after a message is read or sent.
LEMMA Channels ==
    ASSUME TypeOK
    PROVE  /\ toAgent # <<>> =>
                  /\ Head(toAgent) \in ToAgent /\ Head(toAgent) \in ToSet(toAgent)
                  /\ Tail(toAgent) \in Seq(ToAgent)
                  /\ ToSet(Tail(toAgent)) \subseteq ToSet(toAgent)
           /\ toPanel # <<>> =>
                  /\ Head(toPanel) \in ToPanel /\ Head(toPanel) \in ToSet(toPanel)
                  /\ Tail(toPanel) \in Seq(ToPanel)
                  /\ ToSet(Tail(toPanel)) \subseteq ToSet(toPanel)
           /\ ToSet(<<>>) = {}
           /\ \A m \in ToAgent : SendAgent(<<m>>) =>
                  /\ toAgent' \in Seq(ToAgent)
                  /\ ToSet(toAgent') \subseteq ToSet(toAgent) \cup {m}
           /\ \A m \in ToPanel : Append(toPanel, m) \in Seq(ToPanel)
                  /\ ToSet(Append(toPanel, m)) \subseteq ToSet(toPanel) \cup {m}
           /\ \A m \in ToPanel : SendPanel(m) =>
                  /\ toPanel' \in Seq(ToPanel)
                  /\ ToSet(toPanel') \subseteq ToSet(toPanel) \cup {m}
<1>1. toAgent \in Seq(ToAgent) /\ toPanel \in Seq(ToPanel)
  BY DEF TypeOK, WireOK
<1>2. ToSet(<<>>) = {}
  BY DEF ToSet
<1>3. toAgent # <<>> =>
          /\ Head(toAgent) \in ToAgent /\ Head(toAgent) \in ToSet(toAgent)
          /\ Tail(toAgent) \in Seq(ToAgent)
          /\ ToSet(Tail(toAgent)) \subseteq ToSet(toAgent)
  BY <1>1, Carried
<1>4. toPanel # <<>> =>
          /\ Head(toPanel) \in ToPanel /\ Head(toPanel) \in ToSet(toPanel)
          /\ Tail(toPanel) \in Seq(ToPanel)
          /\ ToSet(Tail(toPanel)) \subseteq ToSet(toPanel)
  BY <1>1, Carried
<1>5. ASSUME NEW m \in ToAgent, SendAgent(<<m>>)
      PROVE  toAgent' \in Seq(ToAgent) /\ ToSet(toAgent') \subseteq ToSet(toAgent) \cup {m}
  <2>1. <<m>> \in Seq(ToAgent) /\ ToSet(<<m>>) = {m}
    BY DEF ToSet
  <2>2. \A u \in Seq(ToAgent) : /\ toAgent \o u \in Seq(ToAgent)
                               /\ ToSet(toAgent \o u) = ToSet(toAgent) \cup ToSet(u)
    BY <1>1, Carried
  <2>3. toAgent' = toAgent \o <<m>> \/ toAgent' = <<>>
    BY <1>5 DEF SendAgent
  <2>4. <<>> \in Seq(ToAgent)
    OBVIOUS
  <2> QED
    BY <1>2, <2>1, <2>2, <2>3, <2>4
<1>6. \A m \in ToPanel : /\ Append(toPanel, m) \in Seq(ToPanel)
                         /\ ToSet(Append(toPanel, m)) = ToSet(toPanel) \cup {m}
  BY <1>1, Carried
<1>7. ASSUME NEW m \in ToPanel, SendPanel(m)
      PROVE  toPanel' \in Seq(ToPanel) /\ ToSet(toPanel') \subseteq ToSet(toPanel) \cup {m}
  <2>1. toPanel' = Append(toPanel, m) \/ toPanel' = <<>>
    BY <1>7 DEF SendPanel
  <2>2. <<>> \in Seq(ToPanel)
    OBVIOUS
  <2> QED
    BY <1>2, <1>6, <2>1, <2>2
<1> QED
  BY <1>2, <1>3, <1>4, <1>5, <1>6, <1>7

\* A message that is sent is added, or lost.
LEMMA Sending ==
    ASSUME TypeOK, NEW m, SendPanel(m)
    PROVE  ToSet(toPanel') \subseteq ToSet(toPanel) \cup {m}
<1>1. toPanel \in Seq(ToPanel \cup {m}) /\ m \in ToPanel \cup {m}
  BY DEF TypeOK, WireOK
<1>2. ToSet(Append(toPanel, m)) = ToSet(toPanel) \cup {m}
  BY <1>1, Carried
<1> QED
  BY <1>2, Channels DEF SendPanel

\* A step adds nothing to what is said.
Silent ==
    /\ Ordered' \subseteq Ordered /\ Acknowledged' \subseteq Acknowledged
    /\ Accepted' \subseteq Accepted /\ Refused' \subseteq Refused
    /\ Listed' \subseteq Listed /\ Told' \subseteq Told

\* What is said depends on what the channels hold, and grows with it.
LEMMA Monotone ==
    /\ ToSet(toAgent') \subseteq ToSet(toAgent) =>
           Ordered' \subseteq Ordered /\ Acknowledged' \subseteq Acknowledged
    /\ ToSet(toPanel') \subseteq ToSet(toPanel) =>
           /\ Accepted' \subseteq Accepted /\ Refused' \subseteq Refused
           /\ Listed' \subseteq Listed
           /\ outbox' \subseteq outbox /\ seen' \subseteq seen => Told' \subseteq Told
<1>1. ToSet(toAgent') \subseteq ToSet(toAgent) => Ordered' \subseteq Ordered
  BY DEF Ordered
<1>2. ToSet(toAgent') \subseteq ToSet(toAgent) => Acknowledged' \subseteq Acknowledged
  BY DEF Acknowledged
<1>3. ToSet(toPanel') \subseteq ToSet(toPanel) =>
          Accepted' \subseteq Accepted /\ Refused' \subseteq Refused
  BY DEF Accepted, Refused
<1>4. ToSet(toPanel') \subseteq ToSet(toPanel) => Listed' \subseteq Listed
  BY DEF Listed
<1>5. ToSet(toPanel') \subseteq ToSet(toPanel) /\ outbox' \subseteq outbox /\ seen' \subseteq seen
          => Told' \subseteq Told
  BY DEF Told
<1> QED
  BY <1>1, <1>2, <1>3, <1>4, <1>5

\* What a message tells of itself.
LEMMA Kinds ==
    /\ \A x : OrderOf(x).kind = "order" /\ OrderOf(x).task = x
    /\ \A x : AckOf(x).kind = "ack" /\ AckOf(x).task = x
    /\ \A x : OkOf(x).kind = "ok" /\ OkOf(x).task = x
    /\ \A x : BusyOf(x).kind = "busy" /\ BusyOf(x).task = x
    /\ \A x : EventOf(x).kind = "event" /\ EventOf(x).outcome = x
    /\ \A x : ListingOf(x).kind = "listing" /\ ListingOf(x).known = x
  BY DEF OrderOf, AckOf, OkOf, BusyOf, EventOf, ListingOf

\* One message more adds what it says, and nothing else.
LEMMA OneMore ==
    /\ \A m : ToSet(toAgent') \subseteq ToSet(toAgent) \cup {m} =>
           /\ m.kind # "order" => Ordered' \subseteq Ordered
           /\ m.kind # "ack" => Acknowledged' \subseteq Acknowledged
           /\ Ordered' \subseteq Ordered \cup {m.task}
           /\ Acknowledged' \subseteq Acknowledged \cup {m.task}
    /\ \A m : ToSet(toPanel') \subseteq ToSet(toPanel) \cup {m} =>
           /\ m.kind # "ok" => Accepted' \subseteq Accepted
           /\ m.kind # "busy" => Refused' \subseteq Refused
           /\ m.kind # "listing" => Listed' \subseteq Listed
           /\ m.kind # "event" /\ outbox' = outbox /\ seen' = seen => Told' \subseteq Told
           /\ Accepted' \subseteq Accepted \cup {m.task}
           /\ Refused' \subseteq Refused \cup {m.task}
           /\ Listed' \subseteq Listed \cup {m.known}
           /\ outbox' = outbox \cup {m.outcome} /\ seen' = seen
                  => Told' \subseteq Told \cup {m.outcome}
<1>1. ASSUME NEW m, ToSet(toAgent') \subseteq ToSet(toAgent) \cup {m}
      PROVE  /\ m.kind # "order" => Ordered' \subseteq Ordered
             /\ m.kind # "ack" => Acknowledged' \subseteq Acknowledged
             /\ Ordered' \subseteq Ordered \cup {m.task}
             /\ Acknowledged' \subseteq Acknowledged \cup {m.task}
  BY <1>1, Kinds DEF Ordered, Acknowledged
<1>2. ASSUME NEW m, ToSet(toPanel') \subseteq ToSet(toPanel) \cup {m}
      PROVE  /\ m.kind # "ok" => Accepted' \subseteq Accepted
             /\ m.kind # "busy" => Refused' \subseteq Refused
             /\ m.kind # "listing" => Listed' \subseteq Listed
             /\ m.kind # "event" /\ outbox' = outbox /\ seen' = seen => Told' \subseteq Told
             /\ Accepted' \subseteq Accepted \cup {m.task}
             /\ Refused' \subseteq Refused \cup {m.task}
             /\ Listed' \subseteq Listed \cup {m.known}
             /\ outbox' = outbox \cup {m.outcome} /\ seen' = seen
                    => Told' \subseteq Told \cup {m.outcome}
  <2>1. /\ m.kind # "ok" => Accepted' \subseteq Accepted
        /\ m.kind # "busy" => Refused' \subseteq Refused
        /\ Accepted' \subseteq Accepted \cup {m.task}
        /\ Refused' \subseteq Refused \cup {m.task}
    BY <1>2, Kinds DEF Accepted, Refused
  <2>2. /\ m.kind # "listing" => Listed' \subseteq Listed
        /\ Listed' \subseteq Listed \cup {m.known}
    BY <1>2, Kinds DEF Listed
  <2>3. /\ m.kind # "event" /\ outbox' = outbox /\ seen' = seen => Told' \subseteq Told
        /\ outbox' = outbox \cup {m.outcome} /\ seen' = seen =>
               Told' \subseteq Told \cup {m.outcome}
    BY <1>2, Kinds DEF Told
  <2> QED
    BY <2>1, <2>2, <2>3
<1> QED
  BY <1>1, <1>2

\* Most steps say nothing that was not said before.
LEMMA Traffic ==
    ASSUME TypeOK
    PROVE  /\ \A t \in Tasks : Cancel(t) \/ Progress(t) \/ Finish(t) \/ Recover(t) => Silent
           /\ \A t \in Scheduled : Tick(t) \/ StartScheduled(t) => Silent
           /\ TakeReply \/ TakeProgress \/ TakeEvent \/ AskList => Silent
           /\ WriteJournal \/ TakeCancel \/ TakeAck \/ PersistEvents => Silent
           /\ Connect \/ AgentBoot \/ (\E o \in outbox : AckEvent(o)) => Silent
           /\ Cut \/ AgentCrash \/ PanelRestart => Silent
           /\ ListTimeout \/ (\E t \in asking : OrderTimeout(t)) => Silent
<1>1. UNCHANGED <<toAgent, toPanel, outbox, seen>> => Silent
  BY Monotone DEF Silent
<1>2. /\ \A t \in Tasks : Finish(t) \/ Recover(t) => Silent
      /\ \A t \in Scheduled : Tick(t) \/ StartScheduled(t) => Silent
      /\ WriteJournal \/ PersistEvents \/ AgentBoot => Silent
      /\ ListTimeout \/ (\E t \in asking : OrderTimeout(t)) => Silent
  BY <1>1 DEF Finish, Recover, Tick, StartScheduled, WriteJournal, PersistEvents, AgentBoot,
     ListTimeout, OrderTimeout, panelVars, wireVars, eventVars, agentVars
<1>3. ASSUME NEW t \in Tasks, Cancel(t) PROVE Silent
  <2>1. LET m == [kind |-> "cancel", task |-> t] IN
            SendAgent(<<m>>) /\ m \in ToAgent /\ m.kind = "cancel"
    BY <1>3, Messages DEF Cancel
  <2>2. UNCHANGED <<toPanel, outbox, seen>>
    BY <1>3 DEF Cancel, panelVars, agentVars, eventVars
  <2> QED
    BY <2>1, <2>2, Channels, OneMore, Monotone DEF Silent
<1>4. ASSUME NEW t \in Tasks, Progress(t) PROVE Silent
  <2>1. LET m == [kind |-> "progress", task |-> t] IN
            SendPanel(m) /\ m \in ToPanel /\ m.kind = "progress"
    BY <1>4, Messages DEF Progress
  <2>2. UNCHANGED <<toAgent, outbox, seen>>
    BY <1>4 DEF Progress, panelVars, agentVars, eventVars
  <2> QED
    BY <2>1, <2>2, Channels, OneMore, Monotone DEF Silent
<1>5. CASE TakeReply \/ TakeProgress
  <2>1. toPanel # <<>> /\ toPanel' = Tail(toPanel) /\ UNCHANGED <<toAgent, outbox, seen>>
    BY <1>5 DEF TakeReply, TakeProgress, HeadIs, agentVars, eventVars
  <2> QED
    BY <2>1, Channels, Monotone DEF Silent
<1>6. CASE TakeEvent
  <2> DEFINE o == Head(toPanel).outcome
  <2>1. toPanel # <<>> /\ Head(toPanel).kind = "event"
    BY <1>6 DEF TakeEvent, HeadIs
  <2>2. toPanel' = Tail(toPanel) /\ seen' = seen \cup {o} /\ UNCHANGED <<toAgent, outbox>>
    BY <1>6 DEF TakeEvent, agentVars, eventVars
  <2>3. o \in Outcomes /\ EventOf(o) \in ToSet(toPanel)
    BY <2>1, Channels, Messages
  <2>4. ToSet(toPanel') \subseteq ToSet(toPanel)
    BY <2>1, <2>2, Channels
  <2>5. Told' \subseteq Told
    BY <2>2, <2>3, <2>4 DEF Told
  <2> QED
    BY <2>2, <2>4, <2>5, Monotone DEF Silent
<1>7. CASE AskList
  <2>1. SendAgent(<<[kind |-> "list"]>>) /\ UNCHANGED <<toPanel, outbox, seen>>
    BY <1>7 DEF AskList, agentVars, eventVars
  <2>2. ToSet(toAgent') \subseteq ToSet(toAgent) \cup {[kind |-> "list"]}
    BY <2>1, Channels, Messages
  <2>3. [kind |-> "list"].kind = "list"
    OBVIOUS
  <2> QED
    BY <2>1, <2>2, <2>3, OneMore, Monotone DEF Silent
<1>8. CASE TakeCancel \/ TakeAck
  <2>1. toAgent # <<>> /\ toAgent' = Tail(toAgent) /\ UNCHANGED <<toPanel, outbox, seen>>
    BY <1>8 DEF TakeCancel, TakeAck, HeadIs, panelVars, eventVars
  <2> QED
    BY <2>1, Channels, Monotone DEF Silent
<1>9. CASE Connect
  <2>1. UNCHANGED <<toAgent, outbox, seen>>
    BY <1>9 DEF Connect, agentVars, eventVars
  <2>2. \A m \in ToSet(toPanel') : \E o \in outbox : m = EventOf(o)
    BY <1>9, Resent
  <2>3. Accepted' = {} /\ Refused' = {} /\ Listed' = {}
    BY <2>2, Kinds DEF Accepted, Refused, Listed
  <2>4. Told' \subseteq Told
    BY <2>1, <2>2, Kinds DEF Told
  <2> QED
    BY <2>1, <2>3, <2>4, Monotone DEF Silent
<1>10. ASSUME NEW o \in outbox, AckEvent(o) PROVE Silent
  BY <1>10, Monotone DEF AckEvent, Silent, wireVars, panelVars
<1>11. CASE Cut \/ AgentCrash \/ PanelRestart
  <2>1. toAgent' = <<>> /\ toPanel' = <<>> /\ outbox' \subseteq outbox /\ seen' = seen
    BY <1>11 DEF Cut, AgentCrash, PanelRestart, Close, Unplugged, TypeOK, EventOK, eventVars
  <2>2. ToSet(toAgent') = {} /\ ToSet(toPanel') = {}
    BY <2>1, Channels
  <2> QED
    BY <2>1, <2>2, Monotone DEF Silent
<1> QED
  BY <1>2, <1>3, <1>4, <1>5, <1>6, <1>7, <1>8, <1>9, <1>10, <1>11

\* An order is sent.
LEMMA OrderSays ==
    ASSUME TypeOK, NEW t \in Orders, Order(t)
    PROVE  /\ Ordered' \subseteq Ordered \cup {t} /\ Acknowledged' \subseteq Acknowledged
           /\ Accepted' \subseteq Accepted /\ Refused' \subseteq Refused
           /\ Listed' \subseteq Listed /\ Told' \subseteq Told
<1>1. SendAgent(<<OrderOf(t)>>) /\ UNCHANGED <<toPanel, outbox, seen>>
  BY DEF Order, OrderOf, agentVars, eventVars
<1>2. ToSet(toAgent') \subseteq ToSet(toAgent) \cup {OrderOf(t)}
  BY <1>1, Channels, Messages
<1> QED
  BY <1>1, <1>2, OneMore, Monotone, Kinds

\* What is applied is acknowledged.
LEMMA ApplySays ==
    ASSUME TypeOK, NEW o \in applying, Apply(o)
    PROVE  /\ Ordered' \subseteq Ordered
           /\ Acknowledged' \subseteq Acknowledged \cup {o.task}
           /\ Accepted' \subseteq Accepted /\ Refused' \subseteq Refused
           /\ Listed' \subseteq Listed /\ Told' \subseteq Told
<1>1. o.task \in Tasks /\ toAgent \in Seq(ToAgent)
  BY Outcome DEF TypeOK, PanelOK, WireOK
<1>2. SendAgent(AckAll({o.task})) /\ UNCHANGED <<toPanel, outbox, seen>>
  BY DEF Apply, agentVars, eventVars
<1>3. /\ AckAll({o.task}) \in Seq(ToAgent)
      /\ \A m \in ToSet(AckAll({o.task})) : m = AckOf(o.task)
  BY <1>1, Acks
<1>4. ToSet(toAgent') \subseteq ToSet(toAgent) \cup {AckOf(o.task)}
  <2>1. ToSet(toAgent \o AckAll({o.task})) = ToSet(toAgent) \cup ToSet(AckAll({o.task}))
    BY <1>1, <1>3, Carried
  <2>2. toAgent' = toAgent \o AckAll({o.task}) \/ toAgent' = <<>>
    BY <1>2 DEF SendAgent
  <2> QED
    BY <1>3, <2>1, <2>2, Channels
<1> QED
  BY <1>2, <1>4, OneMore, Monotone, Kinds

\* What the list settles is acknowledged.
LEMMA ReconcileSays ==
    ASSUME TypeOK, Reconcile
    PROVE  /\ Ordered' \subseteq Ordered
           /\ Acknowledged' \subseteq Acknowledged \cup {t \in Tasks : row'[t] \in Final}
           /\ Accepted' \subseteq Accepted /\ Refused' \subseteq Refused
           /\ Listed' \subseteq Listed /\ Told' \subseteq Told
           /\ Head(toPanel).known \in Listed
<1> DEFINE ts == {t \in Tasks : row[t] \notin Final /\ row'[t] \in Final}
<1>1. /\ SendAgent(AckAll(ts)) /\ UNCHANGED <<outbox, seen>>
      /\ toPanel # <<>> /\ Head(toPanel).kind = "listing" /\ toPanel' = Tail(toPanel)
  BY DEF Reconcile, HeadIs, agentVars, eventVars
<1>2. /\ AckAll(ts) \in Seq(ToAgent)
      /\ \A m \in ToSet(AckAll(ts)) : \E t \in ts : m = AckOf(t)
  BY Acks
<1>3. toAgent \in Seq(ToAgent)
  BY DEF TypeOK, WireOK
<1>4. \A m \in ToSet(toAgent') : m \in ToSet(toAgent) \/ \E t \in ts : m = AckOf(t)
  BY <1>1, <1>2, <1>3, Carried, Channels DEF SendAgent
<1>5. Ordered' \subseteq Ordered
  BY <1>4, Kinds DEF Ordered
<1>6. Acknowledged' \subseteq Acknowledged \cup {t \in Tasks : row'[t] \in Final}
  BY <1>4, Kinds DEF Acknowledged
<1>7. Head(toPanel).known \in Listed
  BY <1>1, Channels, Messages DEF Listed
<1> QED
  BY <1>1, <1>5, <1>6, <1>7, Channels, Monotone

\* An order is taken; only a refusal is answered at once.
LEMMA TakeOrderSays ==
    ASSUME TypeOK, TakeOrder
    PROVE  /\ Head(toAgent).task \in Ordered
           /\ Ordered' \subseteq Ordered /\ Acknowledged' \subseteq Acknowledged
           /\ Accepted' \subseteq Accepted
           /\ Refused' \subseteq Refused \cup {Head(toAgent).task}
           /\ toPanel' = toPanel => Refused' \subseteq Refused
           /\ Listed' \subseteq Listed /\ Told' \subseteq Told
<1> DEFINE t == Head(toAgent).task
<1>1. toAgent # <<>> /\ Head(toAgent).kind = "order" /\ toAgent' = Tail(toAgent)
  BY DEF TakeOrder, HeadIs
<1>2. t \in Ordered
  BY <1>1, Channels, Messages DEF Ordered
<1>3. Ordered' \subseteq Ordered /\ Acknowledged' \subseteq Acknowledged
  BY <1>1, Channels, Monotone
<1>4. UNCHANGED <<outbox, seen>>
  BY DEF TakeOrder, panelVars, eventVars
<1>5. CASE toPanel' = toPanel
  BY <1>2, <1>3, <1>4, <1>5, Monotone
<1>6. CASE SendPanel(BusyOf(t))
  <2>1. BusyOf(t) \in ToPanel
    BY <1>2, Messages DEF Ordered
  <2>2. ToSet(toPanel') \subseteq ToSet(toPanel) \cup {BusyOf(t)}
    BY <1>6, <2>1, Channels
  <2> QED
    BY <1>2, <1>3, <1>4, <2>2, Kinds, OneMore, Monotone
<1> QED
  BY <1>5, <1>6 DEF TakeOrder, BusyOf

\* The order is answered when the task starts.
LEMMA StartSays ==
    ASSUME TypeOK, NEW t \in Tasks, Start(t)
    PROVE  /\ Ordered' \subseteq Ordered /\ Acknowledged' \subseteq Acknowledged
           /\ Accepted' \subseteq Accepted \cup {t} /\ Refused' \subseteq Refused
           /\ Listed' \subseteq Listed /\ Told' \subseteq Told
<1>1. UNCHANGED <<toAgent, outbox, seen>>
  BY DEF Start, panelVars, eventVars
<1>2. t \in answering => OkOf(t) \in ToPanel
  BY Messages DEF TypeOK, StartOK
<1>3. ToSet(toPanel') \subseteq ToSet(toPanel) \cup {OkOf(t)}
  BY <1>2, Channels DEF Start, OkOf
<1> QED
  BY <1>1, <1>3, OneMore, Monotone, Kinds

\* The list tells the journal.
LEMMA TakeListSays ==
    ASSUME TypeOK, TakeList
    PROVE  /\ Ordered' \subseteq Ordered /\ Acknowledged' \subseteq Acknowledged
           /\ Accepted' \subseteq Accepted /\ Refused' \subseteq Refused
           /\ Listed' \subseteq Listed \cup {[t \in Tasks |-> journal[t].st]}
           /\ Told' \subseteq Told
<1> DEFINE known == [t \in Tasks |-> journal[t].st]
<1>1. /\ toAgent # <<>> /\ toAgent' = Tail(toAgent) /\ UNCHANGED <<outbox, seen>>
      /\ SendPanel(ListingOf(known))
  BY DEF TakeList, HeadIs, ListingOf, panelVars, agentVars, eventVars
<1>2. known \in Known
  BY DEF TypeOK, JournalOK, Entries, Known
<1> HIDE DEF known
<1>3. ToSet(toPanel') \subseteq ToSet(toPanel) \cup {ListingOf(known)}
  BY <1>1, <1>2, Channels, Messages
<1> QED
  BY <1>1, <1>3, Channels, OneMore, Monotone, Kinds DEF known

\* An outcome is told when the task ends, unless its record is gone.
LEMMA EndSays ==
    ASSUME TypeOK, NEW t \in Tasks, End(t)
    PROVE  /\ Ordered' \subseteq Ordered /\ Acknowledged' \subseteq Acknowledged
           /\ Accepted' \subseteq Accepted /\ Refused' \subseteq Refused
           /\ Listed' \subseteq Listed
           /\ \/ Told' \subseteq Told
              \/ /\ journal[t].st # "none"
                 /\ Told' \subseteq Told \cup {[task |-> t, verdict |-> journal[t].st]}
<1> DEFINE o == [task |-> t, verdict |-> journal[t].st]
<1>1. UNCHANGED <<toAgent, seen>>
  BY DEF End, panelVars
<1>2. CASE UNCHANGED <<outbox, toPanel>>
  BY <1>1, <1>2, Monotone
<1>3. CASE journal[t].st # "none" /\ Emit(o)
  <2>1. ToSet(toPanel') \subseteq ToSet(toPanel) \cup {EventOf(o)}
    BY <1>3, Sending DEF Emit, EventOf
  <2>2. outbox' = outbox \cup {o}
    BY <1>3 DEF Emit
  <2> HIDE DEF o
  <2> QED
    BY <1>1, <1>3, <2>1, <2>2, OneMore, Monotone, Kinds DEF o
<1> QED
  BY <1>2, <1>3 DEF End

\* An interrupted task is told as failed.
LEMMA RecoveredSays ==
    ASSUME TypeOK, NEW t \in Tasks, Recovered(t)
    PROVE  /\ Ordered' \subseteq Ordered /\ Acknowledged' \subseteq Acknowledged
           /\ Accepted' \subseteq Accepted /\ Refused' \subseteq Refused
           /\ Listed' \subseteq Listed
           /\ Told' \subseteq Told \cup {[task |-> t, verdict |-> "failed"]}
<1> DEFINE o == [task |-> t, verdict |-> "failed"]
<1>1. UNCHANGED <<toAgent, seen>> /\ Emit(o)
  BY DEF Recovered, panelVars
<1>2. ToSet(toPanel') \subseteq ToSet(toPanel) \cup {EventOf(o)} /\ outbox' = outbox \cup {o}
  BY <1>1, Sending DEF Emit, EventOf
<1> HIDE DEF o
<1> QED
  BY <1>1, <1>2, OneMore, Monotone, Kinds DEF o

-----------------------------------------------------------------------------
(* Types.                                                                  *)

\* What is written in rows, records and counters.
LEMMA Rows ==
    ASSUME PanelOK
    PROVE  /\ \A t \in Tasks : MarkRunning(row, t) \in [Tasks -> {"none"} \cup Active \cup Final]
           /\ \A t \in Tasks, v \in Final \cup {"running"} :
                  Settled(row, t, v) \in [Tasks -> {"none"} \cup Active \cup Final]
           /\ \A t \in Tasks : Settled(Stalled(row), t, "failed")[t] \in
                  {"none"} \cup Active \cup Final
           /\ Stalled(row) \in [Tasks -> {"none"} \cup Active \cup Final]
           /\ \A known \in Known :
                  Reconciled(row, known) \in [Tasks -> {"none"} \cup Active \cup Final]
           /\ "failed" \in Final
           /\ asking \subseteq Tasks
  BY DEF PanelOK, MarkRunning, Settled, Stalled, Reconciled, Known, Active, Final, Tasks

LEMMA Records ==
    /\ NoEntry \in Entries /\ Fresh \in Entries
    /\ \A f \in [Tasks -> Entries] :
           /\ Purged(f) \in [Tasks -> Entries]
           /\ \A t \in Tasks : [f EXCEPT ![t].acked = TRUE] \in [Tasks -> Entries]
           /\ \A t \in Tasks, s \in {"none", "running"} \cup Final :
                  [f EXCEPT ![t].st = s] \in [Tasks -> Entries]
           /\ \A t \in Tasks : f[t].st \in {"none", "running"} \cup Final
    /\ "failed" \in Final /\ "done" \in Final /\ "cancelled" \in Final
  BY DEF NoEntry, Fresh, Entries, Purged, Final

\* The records and the outcomes are functions of the tasks.
LEMMA Domains ==
    ASSUME TypeOK
    PROVE  /\ journal \in [Tasks -> Entries] /\ disk \in [Tasks -> Entries]
           /\ ran \in [Tasks -> {"none"} \cup Final]
           /\ Orders \subseteq Tasks /\ Scheduled \subseteq Tasks /\ Orders \cap Scheduled = {}
           /\ due \subseteq Scheduled /\ marking \subseteq Scheduled
           /\ starting \subseteq Tasks /\ active \subseteq Tasks /\ ending \subseteq active
           /\ recovering \subseteq Tasks /\ asking \subseteq Orders
           /\ Ordered \subseteq Orders /\ Told \subseteq Outcomes /\ Listed \subseteq Known
  BY TasksAssumption DEF TypeOK, PanelOK, JournalOK, StartOK, RunOK, EventOK, Tasks, Ordered,
     Told, Listed

LEMMA Counters ==
    /\ MaxCancels \in Nat /\ MaxFaults \in Nat
    /\ <<>> \in Seq(Faults)
    /\ \A f \in Seq(Faults), k \in Faults :
           /\ Append(f, k) \in Seq(Faults)
           /\ Len(f) < MaxFaults => Len(Append(f, k)) <= MaxFaults
    /\ Orders \cap Scheduled = {} /\ Orders \subseteq Tasks /\ Scheduled \subseteq Tasks
    /\ "offline" \notin OrderPhases /\ "up" \in {"up", "listing", "ready"}
  BY TasksAssumption DEF Tasks

\* A group of variables that a step leaves alone keeps its types.
LEMMA GroupsKeepTypes ==
    ASSUME TypeOK
    PROVE  /\ UNCHANGED panelVars => PanelOK'
           /\ UNCHANGED wireVars => WireOK'
           /\ UNCHANGED <<up, journal, disk>> => JournalOK'
           /\ UNCHANGED startVars => StartOK'
           /\ UNCHANGED runVars => RunOK'
           /\ UNCHANGED eventVars => EventOK'
           /\ UNCHANGED histVars => HistoryOK'
<1>1. UNCHANGED panelVars => PanelOK'
  BY DEF TypeOK, PanelOK, panelVars
<1>2. UNCHANGED wireVars => WireOK'
  BY DEF TypeOK, WireOK, wireVars
<1>3. UNCHANGED <<up, journal, disk>> => JournalOK'
  BY DEF TypeOK, JournalOK
<1>4. UNCHANGED startVars => StartOK'
  BY DEF TypeOK, StartOK, startVars
<1>5. UNCHANGED runVars => RunOK'
  BY DEF TypeOK, RunOK, runVars
<1>6. UNCHANGED eventVars => EventOK'
  BY DEF TypeOK, EventOK, eventVars
<1>7. UNCHANGED histVars => HistoryOK'
  BY DEF TypeOK, HistoryOK, histVars, countVars
<1> QED
  BY <1>1, <1>2, <1>3, <1>4, <1>5, <1>6, <1>7

\* Every variable keeps its type.
LEMMA TypeStep ==
    ASSUME TypeOK, Running, [Next]_vars
    PROVE  TypeOK'
<1>0. PanelOK /\ WireOK /\ JournalOK /\ StartOK /\ RunOK /\ EventOK /\ HistoryOK
  BY DEF TypeOK
<1>1. ASSUME NEW t \in Orders, Order(t) PROVE TypeOK'
  <2>1. PanelOK'
    BY <1>1, <1>0 DEF Order, PanelOK, Tasks, Active
  <2>2. WireOK'
    <3>1. SendAgent(<<OrderOf(t)>>) /\ toPanel' = toPanel
      BY <1>1 DEF Order, OrderOf
    <3> QED
      BY <1>0, <3>1, Channels, Messages DEF WireOK
  <2> QED
    BY <1>1, <2>1, <2>2, <1>0, GroupsKeepTypes DEF TypeOK, Order, agentVars
<1>2. ASSUME NEW t \in Tasks, Cancel(t) PROVE TypeOK'
  <2>1. WireOK'
    BY <1>2, <1>0, Channels, Messages DEF Cancel, SendAgent, WireOK
  <2>2. HistoryOK'
    BY <1>2, <1>0, Counters DEF Cancel, HistoryOK
  <2> QED
    BY <1>2, <2>1, <2>2, <1>0, GroupsKeepTypes DEF TypeOK, Cancel, agentVars
<1>3. CASE TakeReply
  <2>1. PanelOK'
    <3>1. Head(toPanel).task \in Tasks
      BY <1>3, Channels, Messages DEF TakeReply, HeadIs, Tasks
    <3>2. row' \in {row, MarkRunning(row, Head(toPanel).task),
                   Settled(row, Head(toPanel).task, "failed")}
      BY <1>3 DEF TakeReply
    <3> QED
      BY <1>3, <1>0, <3>1, <3>2, Rows DEF TakeReply, PanelOK
  <2>2. WireOK'
    BY <1>3, <1>0, Channels, Messages DEF TakeReply, HeadIs, WireOK
  <2> QED
    BY <1>3, <2>1, <2>2, <1>0, GroupsKeepTypes DEF TypeOK, TakeReply, agentVars
<1>4. CASE TakeProgress
  <2>1. PanelOK'
    <3>1. Head(toPanel).task \in Tasks
      BY <1>4, Channels, Messages DEF TakeProgress, HeadIs
    <3> QED
      BY <1>4, <1>0, <3>1, Rows DEF TakeProgress, PanelOK
  <2>2. WireOK'
    BY <1>4, <1>0, Channels, Messages DEF TakeProgress, HeadIs, WireOK
  <2> QED
    BY <1>4, <2>1, <2>2, <1>0, GroupsKeepTypes DEF TypeOK, TakeProgress, agentVars
<1>5. CASE TakeEvent
  <2>1. PanelOK'
    <3>1. Head(toPanel).outcome \in Outcomes
      BY <1>5, Channels, Messages DEF TakeEvent, HeadIs
    <3> QED
      BY <1>5, <1>0, <3>1 DEF TakeEvent, PanelOK
  <2>2. WireOK'
    BY <1>5, <1>0, Channels, Messages DEF TakeEvent, HeadIs, WireOK
  <2> QED
    BY <1>5, <2>1, <2>2, <1>0, GroupsKeepTypes DEF TypeOK, TakeEvent, agentVars
<1>6. ASSUME NEW o \in applying, Apply(o) PROVE TypeOK'
  <2>1. PanelOK'
    <3>1. o.task \in Tasks /\ o.verdict \in Final
      BY <1>0, Outcome DEF PanelOK
    <3> QED
      BY <1>6, <1>0, <3>1 DEF Apply, PanelOK
  <2>2. WireOK'
    <3>1. o.task \in Tasks
      BY <1>0, Outcome DEF PanelOK
    <3>2. AckAll({o.task}) \in Seq(ToAgent)
      BY <3>1, Acks
    <3> QED
      BY <1>6, <1>0, <3>2, ConcatProperties DEF Apply, SendAgent, WireOK
  <2> QED
    BY <1>6, <2>1, <2>2, <1>0, GroupsKeepTypes DEF TypeOK, Apply, agentVars
<1>7. CASE AskList
  <2>1. PanelOK'
    BY <1>7, <1>0, Rows DEF AskList, agentVars, PanelOK
  <2>2. WireOK'
    BY <1>7, <1>0, Channels, Messages DEF AskList, SendAgent, WireOK
  <2> QED
    BY <1>7, <2>1, <2>2, <1>0, GroupsKeepTypes DEF TypeOK, AskList, agentVars
<1>8. CASE Reconcile
  <2>1. PanelOK'
    <3>1. Head(toPanel).known \in Known
      BY <1>8, Channels, Messages DEF Reconcile, HeadIs
    <3> QED
      BY <1>8, <1>0, <3>1, Rows DEF Reconcile, PanelOK
  <2>2. WireOK'
    <3>1. AckAll({t \in Tasks : row[t] \notin Final /\ row'[t] \in Final}) \in Seq(ToAgent)
      BY Acks
    <3>2. toAgent' \in Seq(ToAgent)
      BY <1>8, <1>0, <3>1, ConcatProperties DEF Reconcile, SendAgent, WireOK
    <3>3. toPanel' \in Seq(ToPanel)
      BY <1>8, Channels DEF Reconcile, HeadIs
    <3> QED
      BY <3>2, <3>3 DEF WireOK
  <2>3. HistoryOK'
    BY <1>8, <1>0 DEF Reconcile, countVars, PanelOK, HistoryOK
  <2> QED
    BY <1>8, <2>1, <2>2, <2>3, <1>0, GroupsKeepTypes DEF TypeOK, Reconcile, agentVars,
       countVars
<1>9. CASE WriteJournal
  <2>1. JournalOK'
    BY <1>9, <1>0, Records DEF WriteJournal, JournalOK
  <2> QED
    BY <1>9, <2>1, <1>0, GroupsKeepTypes DEF TypeOK, WriteJournal
<1>10. CASE TakeOrder
  <2>1. WireOK'
    <3>1. Head(toAgent).task \in Orders /\ toAgent' \in Seq(ToAgent)
      BY <1>10, Channels, Messages DEF TakeOrder, HeadIs
    <3>2. toPanel' = toPanel \/ SendPanel(BusyOf(Head(toAgent).task))
      BY <1>10 DEF TakeOrder, BusyOf
    <3> QED
      BY <1>0, <3>1, <3>2, Channels, Messages DEF WireOK
  <2>2. JournalOK'
    <3>1. Head(toAgent).task \in Tasks
      BY <1>10, Channels, Messages DEF TakeOrder, HeadIs, Tasks
    <3> QED
      BY <1>10, <1>0, <3>1, Records DEF TakeOrder, JournalOK
  <2>3. StartOK'
    <3>1. Head(toAgent).task \in Orders /\ Head(toAgent).task \in Tasks
      BY <1>10, Channels, Messages DEF TakeOrder, HeadIs, Tasks
    <3> QED
      BY <1>10, <1>0, <3>1 DEF TakeOrder, StartOK
  <2> QED
    BY <1>10, <2>1, <2>2, <2>3, <1>0, GroupsKeepTypes DEF TypeOK, TakeOrder
<1>11. ASSUME NEW t \in Tasks, Start(t) PROVE TypeOK'
  <2>1. WireOK'
    <3>1. t \in answering => Append(toPanel, OkOf(t)) \in Seq(ToPanel)
      BY <1>0, Channels, Messages DEF StartOK
    <3> QED
      BY <1>11, <1>0, <3>1 DEF Start, OkOf, WireOK
  <2>2. StartOK'
    BY <1>11, <1>0 DEF Start, StartOK
  <2>3. RunOK'
    BY <1>11, <1>0 DEF Start, RunOK
  <2> QED
    BY <1>11, <2>1, <2>2, <2>3, <1>0, GroupsKeepTypes DEF TypeOK, Start
<1>12. CASE TakeCancel
  <2>1. WireOK'
    BY <1>12, <1>0, Channels, Messages DEF TakeCancel, HeadIs, WireOK
  <2>2. RunOK'
    BY <1>12, <1>0 DEF TakeCancel, HeadIs, RunOK
  <2> QED
    BY <1>12, <2>1, <2>2, <1>0, GroupsKeepTypes DEF TypeOK, TakeCancel
<1>13. CASE TakeAck
  <2>1. WireOK'
    BY <1>13, <1>0, Channels, Messages DEF TakeAck, HeadIs, WireOK
  <2>2. JournalOK'
    <3>1. Head(toAgent).task \in Tasks
      BY <1>13, Channels, Messages DEF TakeAck, HeadIs
    <3> QED
      BY <1>13, <1>0, <3>1, Records DEF TakeAck, JournalOK
  <2> QED
    BY <1>13, <2>1, <2>2, <1>0, GroupsKeepTypes DEF TypeOK, TakeAck
<1>14. CASE TakeList
  <2>1. WireOK'
    <3>1. toAgent' \in Seq(ToAgent)
      BY <1>14, Channels DEF TakeList, HeadIs
    <3>2. [t \in Tasks |-> journal[t].st] \in Known
      BY <1>0, Records DEF JournalOK, Known
    <3>3. SendPanel(ListingOf([t \in Tasks |-> journal[t].st]))
      BY <1>14 DEF TakeList, ListingOf
    <3> QED
      BY <3>1, <3>2, <3>3, Channels, Messages DEF WireOK
  <2> QED
    BY <1>14, <2>1, <1>0, GroupsKeepTypes DEF TypeOK, TakeList, agentVars
<1>15. ASSUME NEW t \in Tasks, Progress(t) PROVE TypeOK'
  <2>1. WireOK'
    BY <1>15, <1>0, Channels, Messages DEF Progress, SendPanel, WireOK
  <2> QED
    BY <1>15, <2>1, <1>0, GroupsKeepTypes DEF TypeOK, Progress, agentVars
<1>16. ASSUME NEW t \in Tasks, Finish(t) PROVE TypeOK'
  <2>1. JournalOK'
    <3>1. PICK verdict \in {"done", "cancelled", "failed"} :
             journal' = [journal EXCEPT ![t].st = verdict]
      BY <1>16 DEF Finish, Put
    <3>2. verdict \in {"none", "running"} \cup Final
      BY <3>1, Records
    <3> QED
      BY <1>16, <1>0, <3>1, <3>2, Records DEF Finish, JournalOK
  <2>2. RunOK'
    <3>1. PICK verdict \in {"done", "cancelled", "failed"} :
             ran' = [ran EXCEPT ![t] = verdict]
      BY <1>16 DEF Finish
    <3>2. verdict \in {"none"} \cup Final
      BY <3>1, Records
    <3> QED
      BY <1>16, <1>0, <3>1, <3>2 DEF Finish, RunOK
  <2> QED
    BY <1>16, <2>1, <2>2, <1>0, GroupsKeepTypes DEF TypeOK, Finish
<1>17. ASSUME NEW t \in Tasks, End(t) PROVE TypeOK'
  <2>1. WireOK'
    <3>1. journal[t].st # "none" =>
             [task |-> t, verdict |-> journal[t].st] \in Outcomes
      BY <1>17, <1>0, Records, Outcome DEF End, JournalOK, Running
    <3>2. CASE journal[t].st = "none"
      BY <1>17, <1>0, <3>2 DEF End, WireOK
    <3>3. CASE journal[t].st # "none"
      <4> DEFINE o == [task |-> t, verdict |-> journal[t].st]
      <4>1. toAgent' = toAgent /\ Emit(o)
        BY <1>17, <3>3 DEF End
      <4>2. o \in Outcomes
        BY <3>1, <3>3
      <4> HIDE DEF o
      <4> QED
        BY <1>0, <4>1, <4>2, Channels, Messages DEF Emit, EventOf, WireOK
    <3> QED
      BY <3>2, <3>3
  <2>2. RunOK'
    BY <1>17, <1>0 DEF End, RunOK
  <2>3. EventOK'
    <3>1. journal[t].st # "none" =>
             [task |-> t, verdict |-> journal[t].st] \in Outcomes
      BY <1>17, <1>0, Records, Outcome DEF End, JournalOK, Running
    <3> QED
      BY <1>17, <1>0, <3>1 DEF End, Emit, EventOK
  <2> QED
    BY <1>17, <2>1, <2>2, <2>3, <1>0, GroupsKeepTypes DEF TypeOK, End
<1>18. ASSUME NEW t \in Scheduled, Tick(t) PROVE TypeOK'
  <2>1. StartOK'
    BY <1>18, <1>0 DEF Tick, StartOK
  <2> QED
    BY <1>18, <2>1, <1>0, GroupsKeepTypes DEF TypeOK, Tick
<1>19. ASSUME NEW t \in Scheduled, StartScheduled(t) PROVE TypeOK'
  <2>1. JournalOK'
    BY <1>19, <1>0, Records DEF StartScheduled, Fresh, JournalOK
  <2>2. StartOK'
    BY <1>19, <1>0 DEF StartScheduled, StartOK, Tasks
  <2> QED
    BY <1>19, <2>1, <2>2, <1>0, GroupsKeepTypes DEF TypeOK, StartScheduled
<1>20. ASSUME NEW t \in Tasks, Recover(t) PROVE TypeOK'
  <2>1. JournalOK'
    BY <1>20, <1>0, Records DEF Recover, Put, JournalOK
  <2> QED
    BY <1>20, <2>1, <1>0, GroupsKeepTypes DEF TypeOK, Recover
<1>21. ASSUME NEW t \in Tasks, Recovered(t) PROVE TypeOK'
  <2>1. WireOK'
    <3>1. [task |-> t, verdict |-> "failed"] \in Outcomes
      BY Records, Outcome
    <3>2. toAgent' = toAgent /\ SendPanel(EventOf([task |-> t, verdict |-> "failed"]))
      BY <1>21 DEF Recovered, Emit, EventOf
    <3> QED
      BY <1>0, <3>1, <3>2, Channels, Messages DEF WireOK
  <2>2. RunOK'
    BY <1>21, <1>0 DEF Recovered, RunOK
  <2>3. EventOK'
    <3>1. [task |-> t, verdict |-> "failed"] \in Outcomes
      BY Records, Outcome
    <3> QED
      BY <1>21, <1>0, <3>1 DEF Recovered, Emit, EventOK
  <2> QED
    BY <1>21, <2>1, <2>2, <2>3, <1>0, GroupsKeepTypes DEF TypeOK, Recovered
<1>22. CASE PersistEvents
  <2>1. EventOK'
    BY <1>22, <1>0 DEF PersistEvents, EventOK
  <2> QED
    BY <1>22, <2>1, <1>0, GroupsKeepTypes DEF TypeOK, PersistEvents
<1>23. ASSUME NEW o \in outbox, AckEvent(o) PROVE TypeOK'
  <2>1. EventOK'
    BY <1>23, <1>0 DEF AckEvent, EventOK
  <2> QED
    BY <1>23, <2>1, <1>0, GroupsKeepTypes DEF TypeOK, AckEvent
<1>24. CASE Connect
  <2>1. PanelOK'
    BY <1>24, <1>0, Rows DEF Connect, agentVars, PanelOK
  <2>2. WireOK'
    BY <1>24, <1>0, Resent DEF Connect, WireOK
  <2> QED
    BY <1>24, <2>1, <2>2, <1>0, GroupsKeepTypes DEF TypeOK, Connect, agentVars
<1>25. CASE Cut
  <2>1. PanelOK'
    BY <1>25, <1>0, Rows DEF Cut, Close, PanelOK
  <2>2. WireOK'
    BY <1>25, <1>0, Channels, Messages DEF Cut, Close, Unplugged, WireOK
  <2>3. StartOK'
    BY <1>25, <1>0 DEF Cut, StartOK
  <2>4. HistoryOK'
    <3>1. /\ disowned' \subseteq disowned \cup asking /\ cancels' = cancels
          /\ "cut" \in Faults /\ Len(faults) < MaxFaults /\ faults' = Append(faults, "cut")
      BY <1>25 DEF Cut, Close, Fault
    <3> QED
      BY <1>0, <3>1, Counters DEF PanelOK, HistoryOK
  <2> QED
    BY <1>25, <2>1, <2>2, <2>3, <2>4, <1>0, GroupsKeepTypes DEF TypeOK, Cut, Fault
<1>26. CASE AgentCrash
  <2>1. PanelOK'
    BY <1>26, <1>0, Rows DEF AgentCrash, Close, PanelOK
  <2>2. WireOK'
    BY <1>26, <1>0, Channels, Messages DEF AgentCrash, Close, Unplugged, WireOK
  <2>3. JournalOK'
    BY <1>26, <1>0, Records DEF AgentCrash, JournalOK
  <2>4. StartOK'
    BY <1>26, <1>0 DEF AgentCrash, StartOK
  <2>5. RunOK'
    BY <1>26, <1>0 DEF AgentCrash, RunOK
  <2>6. EventOK'
    BY <1>26, <1>0 DEF AgentCrash, EventOK
  <2>7. HistoryOK'
    <3>1. /\ disowned' \subseteq disowned \cup asking /\ cancels' = cancels
          /\ "crash" \in Faults /\ Len(faults) < MaxFaults /\ faults' = Append(faults, "crash")
      BY <1>26 DEF AgentCrash, Close, Fault
    <3> QED
      BY <1>0, <3>1, Counters DEF PanelOK, HistoryOK
  <2> QED
    BY <1>26, <2>1, <2>2, <2>3, <2>4, <2>5, <2>6, <2>7, <1>0 DEF TypeOK, AgentCrash,
       Fault
<1>27. CASE AgentBoot
  <2>1. JournalOK'
    BY <1>27, <1>0, Records DEF AgentBoot, JournalOK
  <2>2. RunOK'
    BY <1>27, <1>0 DEF AgentBoot, RunOK
  <2> QED
    BY <1>27, <2>1, <2>2, <1>0, GroupsKeepTypes DEF TypeOK, AgentBoot
<1>28. CASE PanelRestart
  <2>1. PanelOK'
    BY <1>28, <1>0, Rows DEF PanelRestart, PanelOK
  <2>2. WireOK'
    BY <1>28, <1>0, Channels, Messages DEF PanelRestart, Unplugged, WireOK
  <2>3. StartOK'
    BY <1>28, <1>0 DEF PanelRestart, StartOK
  <2>4. HistoryOK'
    BY <1>28, <1>0, Counters DEF PanelRestart, Fault, HistoryOK
  <2> QED
    BY <1>28, <2>1, <2>2, <2>3, <2>4, <1>0, GroupsKeepTypes DEF TypeOK, PanelRestart,
       Fault
<1>29. ASSUME NEW t \in asking, OrderTimeout(t) PROVE TypeOK'
  <2>1. PanelOK'
    BY <1>29, <1>0, Rows DEF OrderTimeout, agentVars, PanelOK
  <2>2. HistoryOK'
    <3>1. /\ disowned' \subseteq disowned \cup asking /\ cancels' = cancels
          /\ "timeout" \in Faults /\ Len(faults) < MaxFaults /\ faults' = Append(faults,
                 "timeout")
      BY <1>29 DEF OrderTimeout, Fault
    <3> QED
      BY <1>0, <3>1, Counters DEF PanelOK, HistoryOK
  <2> QED
    BY <1>29, <2>1, <2>2, <1>0, GroupsKeepTypes DEF TypeOK, OrderTimeout, Fault,
       agentVars
<1>30. CASE ListTimeout
  <2>1. PanelOK'
    BY <1>30, <1>0, Rows DEF ListTimeout, agentVars, PanelOK
  <2>2. HistoryOK'
    BY <1>30, <1>0, Counters DEF ListTimeout, Fault, HistoryOK
  <2> QED
    BY <1>30, <2>1, <2>2, <1>0, GroupsKeepTypes DEF TypeOK, ListTimeout, Fault, agentVars
<1>31. CASE UNCHANGED vars
  BY <1>31, <1>0, GroupsKeepTypes DEF vars, agentVars, TypeOK
<1> QED
  BY <1>1, <1>2, <1>3, <1>4, <1>5, <1>6, <1>7, <1>8, <1>9, <1>10, <1>11, <1>12, <1>13,
     <1>14, <1>15, <1>16, <1>17, <1>18, <1>19, <1>20, <1>21, <1>22, <1>23, <1>24, <1>25,
     <1>26, <1>27, <1>28, <1>29, <1>30, <1>31 DEF Next, PanelNext, AgentNext, Operator,
     FaultNext

\* An order that is on the wire once is not there after it is read, and what is added is new.
LEMMA Repeated ==
    ASSUME NEW M, NEW s \in Seq(M), Unrepeated(s)
    PROVE  /\ s # <<>> => /\ Unrepeated(Tail(s))
                          /\ Head(s).kind = "order" => Head(s) \notin ToSet(Tail(s))
           /\ \A u \in Seq(M) : (\A m \in ToSet(u) : m.kind # "order") => Unrepeated(s \o u)
           /\ \A m \in M : m \notin ToSet(s) => Unrepeated(s \o <<m>>)
<1>1. Len(s) \in Nat /\ \A m : m \in ToSet(s) <=> \E i \in 1..Len(s) : s[i] = m
  BY Carried
<1>2. ASSUME s # <<>>
      PROVE  /\ Unrepeated(Tail(s))
             /\ Head(s).kind = "order" => Head(s) \notin ToSet(Tail(s))
  <2>1. /\ Tail(s) \in Seq(M) /\ Len(Tail(s)) = Len(s) - 1 /\ Head(s) = s[1]
        /\ \A i \in 1..Len(Tail(s)) : Tail(s)[i] = s[i + 1]
    BY <1>2, HeadTailProperties
  <2>2. \A m : m \in ToSet(Tail(s)) <=> \E i \in 1..Len(Tail(s)) : Tail(s)[i] = m
    BY <2>1, Carried
  <2>3. \A i \in 1..Len(Tail(s)) : i + 1 \in 1..Len(s) /\ i + 1 # 1
    BY <1>1, <2>1
  <2>4. 1 \in 1..Len(s)
    BY <1>1, <1>2
  <2>5. Unrepeated(Tail(s))
    <3> SUFFICES ASSUME NEW i \in 1..Len(Tail(s)), NEW j \in 1..Len(Tail(s)),
                        Tail(s)[i] = Tail(s)[j], Tail(s)[i].kind = "order"
                 PROVE  i = j
      BY DEF Unrepeated
    <3>1. i + 1 = j + 1
      BY <2>1, <2>3 DEF Unrepeated
    <3> QED
      BY <3>1
  <2>6. ASSUME Head(s).kind = "order", Head(s) \in ToSet(Tail(s)) PROVE FALSE
    <3>1. PICK i \in 1..Len(Tail(s)) : s[i + 1] = s[1]
      BY <2>1, <2>2, <2>6
    <3> QED
      BY <2>1, <2>3, <2>4, <2>6, <3>1 DEF Unrepeated
  <2> QED
    BY <2>5, <2>6
<1>3. ASSUME NEW u \in Seq(M), \A m \in ToSet(u) : m.kind # "order"
      PROVE  Unrepeated(s \o u)
  <2>1. /\ Len(s \o u) = Len(s) + Len(u)
        /\ \A i \in 1..(Len(s) + Len(u)) :
               (s \o u)[i] = IF i <= Len(s) THEN s[i] ELSE u[i - Len(s)]
    BY ConcatProperties
  <2>2. \A i \in 1..Len(u) : u[i].kind # "order"
    BY <1>3 DEF ToSet
  <2>3. \A i \in 1..(Len(s) + Len(u)) : (s \o u)[i].kind = "order" =>
            i \in 1..Len(s) /\ (s \o u)[i] = s[i]
    <3> SUFFICES ASSUME NEW i \in 1..(Len(s) + Len(u)), (s \o u)[i].kind = "order"
                 PROVE  i \in 1..Len(s) /\ (s \o u)[i] = s[i]
      OBVIOUS
    <3>1. CASE i <= Len(s)
      BY <2>1, <3>1
    <3>2. CASE ~(i <= Len(s))
      <4>1. i - Len(s) \in 1..Len(u) /\ (s \o u)[i] = u[i - Len(s)]
        BY <2>1, <3>2
      <4> QED
        BY <2>2, <4>1
    <3> QED
      BY <3>1, <3>2
  <2> QED
    BY <2>1, <2>3 DEF Unrepeated
<1>4. ASSUME NEW m \in M, m \notin ToSet(s) PROVE Unrepeated(s \o <<m>>)
  <2>1. /\ Len(s \o <<m>>) = Len(s) + 1
        /\ \A i \in 1..(Len(s) + 1) : (s \o <<m>>)[i] = IF i <= Len(s) THEN s[i] ELSE m
    BY <1>4
  <2> SUFFICES ASSUME NEW i \in 1..(Len(s) + 1), NEW j \in 1..(Len(s) + 1),
                      (s \o <<m>>)[i] = (s \o <<m>>)[j], (s \o <<m>>)[i].kind = "order"
               PROVE  i = j
    BY <2>1 DEF Unrepeated
  <2>2. \A k \in 1..Len(s) : s[k] # m
    BY <1>1, <1>4
  <2>3. CASE i <= Len(s) /\ j <= Len(s)
    <3>1. i \in 1..Len(s) /\ j \in 1..Len(s)
      BY <2>3
    <3> QED
      BY <2>1, <3>1 DEF Unrepeated
  <2>4. CASE i <= Len(s) /\ ~(j <= Len(s))
    BY <1>1, <2>1, <2>2, <2>4
  <2>5. CASE ~(i <= Len(s)) /\ j <= Len(s)
    BY <1>1, <2>1, <2>2, <2>5
  <2>6. CASE ~(i <= Len(s)) /\ ~(j <= Len(s))
    BY <1>1, <2>6
  <2> QED
    BY <2>3, <2>4, <2>5, <2>6
<1> QED
  BY <1>2, <1>3, <1>4

\* An order that is taken is gone.
LEMMA TakenOnce ==
    ASSUME TypeOK, Single, TakeOrder
    PROVE  Head(toAgent).task \notin Ordered'
<1>1. toAgent # <<>> /\ Head(toAgent).kind = "order" /\ toAgent' = Tail(toAgent)
  BY DEF TakeOrder, HeadIs
<1>2. toAgent \in Seq(ToAgent) /\ Head(toAgent) = OrderOf(Head(toAgent).task)
  BY <1>1, Channels, Messages DEF TypeOK, WireOK
<1>3. Head(toAgent) \notin ToSet(toAgent')
  BY <1>1, <1>2, Repeated DEF Single
<1> QED
  BY <1>2, <1>3 DEF Ordered

\* An order stays alone on the wire.
LEMMA SingleStep ==
    ASSUME TypeOK, Rowed, Single, [Next]_vars
    PROVE  Single'
<1>1. toAgent \in Seq(ToAgent)
  BY DEF TypeOK, WireOK
<1>2. ASSUME toAgent # <<>>, toAgent' = Tail(toAgent) PROVE Single'
  BY <1>1, <1>2, Repeated DEF Single
<1>3. ASSUME NEW u \in Seq(ToAgent), \A m \in ToSet(u) : m.kind # "order", SendAgent(u)
      PROVE  Single'
  <2>1. Unrepeated(toAgent \o u)
    BY <1>1, <1>3, Repeated DEF Single
  <2>2. Unrepeated(<<>>)
    BY DEF Unrepeated
  <2> QED
    BY <1>3, <2>1, <2>2 DEF SendAgent, Single
<1>4. \A m : m.kind # "order" => \A x \in ToSet(<<m>>) : x.kind # "order"
  BY DEF ToSet
<1>5. ASSUME NEW t \in Orders, Order(t) PROVE Single'
  <2>1. OrderOf(t) \notin ToSet(toAgent)
    BY <1>5 DEF Order, Rowed, Ordered
  <2>2. Unrepeated(toAgent \o <<OrderOf(t)>>)
    BY <1>1, <2>1, Repeated, Messages DEF Single
  <2>3. Unrepeated(<<>>)
    BY DEF Unrepeated
  <2> QED
    BY <1>5, <2>2, <2>3 DEF Order, OrderOf, SendAgent, Single
<1>6. ASSUME NEW t \in Tasks, Cancel(t) PROVE Single'
  <2> DEFINE m == [kind |-> "cancel", task |-> t]
  <2>1. SendAgent(<<m>>) /\ m \in ToAgent /\ m.kind # "order"
    BY <1>6, Messages DEF Cancel
  <2> HIDE DEF m
  <2>2. <<m>> \in Seq(ToAgent)
    BY <2>1
  <2> QED
    BY <1>3, <1>4, <2>1, <2>2
<1>7. CASE AskList
  <2> DEFINE m == [kind |-> "list"]
  <2>1. SendAgent(<<m>>) /\ m \in ToAgent /\ m.kind # "order"
    BY <1>7, Messages DEF AskList
  <2> HIDE DEF m
  <2>2. <<m>> \in Seq(ToAgent)
    BY <2>1
  <2> QED
    BY <1>3, <1>4, <2>1, <2>2
<1>8. ASSUME NEW ts \in SUBSET Tasks, SendAgent(AckAll(ts)) PROVE Single'
  BY <1>3, <1>8, Acks, Kinds
<1>9. ASSUME NEW o \in applying, Apply(o) PROVE Single'
  <2>1. {o.task} \subseteq Tasks
    BY Outcome DEF TypeOK, PanelOK
  <2> QED
    BY <1>8, <1>9, <2>1 DEF Apply
<1>10. CASE Reconcile
  BY <1>8, <1>10 DEF Reconcile
<1>11. CASE TakeOrder \/ TakeCancel \/ TakeAck \/ TakeList
  BY <1>2, <1>11 DEF TakeOrder, TakeCancel, TakeAck, TakeList, HeadIs
<1>12. CASE Cut \/ AgentCrash \/ PanelRestart
  <2>1. Unrepeated(<<>>)
    BY DEF Unrepeated
  <2> QED
    BY <1>12, <2>1 DEF Cut, AgentCrash, PanelRestart, Close, Unplugged, Single
<1>13. ASSUME toAgent' = toAgent PROVE Single'
  BY <1>13 DEF Single
<1>14. CASE TakeReply \/ TakeProgress \/ TakeEvent \/ WriteJournal \/ (\E t \in
           Tasks : Start(t)) \/ (\E t \in Tasks : Progress(t)) \/ (\E t \in Tasks :
           Finish(t)) \/ (\E t \in Tasks : End(t)) \/ (\E t \in Scheduled : Tick(t)) \/ (\E
           t \in Scheduled : StartScheduled(t)) \/ (\E t \in Tasks : Recover(t)) \/ (\E t
           \in Tasks : Recovered(t)) \/ PersistEvents \/ (\E o \in outbox : AckEvent(o)) \/
           Connect \/ AgentBoot \/ (\E t \in asking : OrderTimeout(t)) \/ ListTimeout
  BY <1>13, <1>14 DEF TakeReply, TakeProgress, TakeEvent, WriteJournal, Start, Progress,
     Finish, End, Tick, StartScheduled, Recover, Recovered, PersistEvents, AckEvent,
     Connect, AgentBoot, OrderTimeout, ListTimeout, panelVars, wireVars, agentVars
<1>15. CASE UNCHANGED vars
  BY <1>13, <1>15 DEF vars, wireVars
<1> QED
  BY <1>5, <1>6, <1>7, <1>9, <1>10, <1>11, <1>12, <1>14, <1>15 DEF Next, PanelNext,
     AgentNext, Operator, FaultNext

-----------------------------------------------------------------------------
(* What a step makes of the row and of the record of a task.               *)

\* A row is created for an order.
LEMMA OrderRows ==
    ASSUME TypeOK, NEW u \in Orders, Order(u)
    PROVE  /\ row[u] = "none" /\ \A t \in Tasks : row[t] \notin Active
           /\ \A t \in Tasks : row'[t] = IF t = u THEN "pending" ELSE row[t]
  BY DEF Order, EnsureIdle, TypeOK, PanelOK, Tasks

\* An answer makes a row running, or failed.
LEMMA TakeReplyRows ==
    ASSUME TypeOK, TakeReply
    PROVE  LET u == Head(toPanel).task IN
           /\ u \in Orders
           /\ (u \in Accepted /\ Head(toPanel) = OkOf(u)) \/ u \in Refused
           /\ \A t \in Tasks : row'[t] # row[t] => t = u /\ u \in asking /\ row[u] \in Active
           /\ row'[u] # row[u] => row'[u] = "running" \/ (u \in Refused /\ row'[u] = "failed")
           /\ asking' = asking \ {u}
<1> DEFINE u == Head(toPanel).task
<1>1. /\ toPanel # <<>> /\ Head(toPanel).kind \in {"ok", "busy"} /\ asking' = asking \ {u}
      /\ u \notin asking => row' = row
      /\ u \in asking /\ Head(toPanel).kind = "ok" => row' = MarkRunning(row, u)
      /\ u \in asking /\ Head(toPanel).kind = "busy" => row' = Settled(row, u, "failed")
  BY DEF TakeReply, HeadIs
<1>2. /\ u \in Orders /\ u \in Tasks
      /\ Head(toPanel).kind = "ok" => u \in Accepted /\ Head(toPanel) = OkOf(u)
      /\ Head(toPanel).kind = "busy" => u \in Refused
  BY <1>1, Channels, Messages DEF Accepted, Refused, Tasks
<1>3. (u \in Accepted /\ Head(toPanel) = OkOf(u)) \/ u \in Refused
  BY <1>1, <1>2
<1>4. CASE u \notin asking
  <2>1. row' = row
    BY <1>1, <1>4
  <2> QED
    BY <1>1, <1>2, <1>3, <2>1
<1>5. CASE u \in asking /\ Head(toPanel).kind = "ok"
  <2>1. row' = MarkRunning(row, u)
    BY <1>1, <1>5
  <2>2. /\ \A t \in Tasks : t # u => row'[t] = row[t]
        /\ row'[u] # row[u] => row[u] \in Active /\ row'[u] = "running"
    BY <1>2, <2>1 DEF MarkRunning, TypeOK, PanelOK, Active
  <2> QED
    BY <1>1, <1>2, <1>3, <1>5, <2>2
<1>6. CASE u \in asking /\ Head(toPanel).kind = "busy"
  <2>1. row' = Settled(row, u, "failed")
    BY <1>1, <1>6
  <2>2. /\ \A t \in Tasks : t # u => row'[t] = row[t]
        /\ row'[u] # row[u] => row[u] \in Active /\ row'[u] = "failed"
    BY <1>2, <2>1 DEF Settled, TypeOK, PanelOK
  <2> QED
    BY <1>1, <1>2, <1>3, <1>6, <2>2
<1> QED
  BY <1>1, <1>4, <1>5, <1>6

\* Progress makes an active row running.
LEMMA TakeProgressRows ==
    ASSUME TypeOK, TakeProgress
    PROVE  \A t \in Tasks : row'[t] = row[t] \/ (row[t] \in Active /\ row'[t] = "running")
<1>1. PICK u \in Tasks : row' = Settled(row, u, "running")
  BY Channels, Messages DEF TakeProgress, HeadIs
<1>2. \A t \in Tasks : row'[t] = IF t = u /\ row[t] \in Active THEN "running" ELSE row[t]
  BY <1>1 DEF Settled, TypeOK, PanelOK
<1> QED
  BY <1>2

\* An outcome settles the row of its task.
LEMMA ApplyRows ==
    ASSUME TypeOK, NEW o \in applying, Apply(o)
    PROVE  /\ o \in Told /\ o.task \in Tasks /\ o.verdict \in Final
           /\ \A t \in Tasks :
                  row'[t] = IF t = o.task /\ row[t] \notin Final THEN o.verdict ELSE row[t]
<1>1. o \in Told /\ o.task \in Tasks /\ o.verdict \in Final
  BY Outcome DEF TypeOK, PanelOK, Told
<1> QED
  BY <1>1 DEF Apply, TypeOK, PanelOK

\* The list settles what it does not know, and what it knows as settled.
LEMMA ReconcileRows ==
    ASSUME TypeOK, Reconcile
    PROVE  LET known == Head(toPanel).known IN
           /\ known \in Listed
           /\ toPanel # <<>> /\ Head(toPanel) = ListingOf(known) /\ toPanel' = Tail(toPanel)
           /\ \A t \in Tasks :
                  \/ row'[t] = row[t]
                  \/ row[t] \in Active /\ known[t] = "none" /\ row'[t] = "failed"
                  \/ row[t] \notin Final /\ known[t] # "none" /\ row'[t] = known[t]
           /\ phase = "listing" => \A t \in Tasks :
                  /\ row[t] \in Active /\ known[t] = "none" => row'[t] = "failed"
                  /\ row[t] \notin Final /\ known[t] # "none" => row'[t] = known[t]
           /\ phase # "listing" => row' = row
<1> DEFINE known == Head(toPanel).known
<1>1. /\ toPanel # <<>> /\ Head(toPanel).kind = "listing" /\ toPanel' = Tail(toPanel)
      /\ row' = IF phase = "listing" THEN Reconciled(row, known) ELSE row
  BY DEF Reconcile, HeadIs
<1>2. known \in Known /\ known \in Listed /\ Head(toPanel) = ListingOf(known)
  BY <1>1, Channels, Messages DEF Listed
<1> HIDE DEF known
<1>3. CASE phase # "listing"
  BY <1>1, <1>2, <1>3 DEF known
<1>4. CASE phase = "listing"
  <2>1. row' = Reconciled(row, known)
    BY <1>1, <1>4
  <2>2. \A t \in Tasks :
            /\ row[t] \in {"none"} \cup Active \cup Final
            /\ known[t] \in {"none", "running"} \cup Final
            /\ row'[t] = CASE row[t] \in Final -> row[t]
                           [] row[t] \in Active /\ known[t] = "none" -> "failed"
                           [] OTHER -> known[t]
    BY <1>2, <2>1 DEF Reconciled, Known, TypeOK, PanelOK
  <2>3. Active \cap Final = {} /\ "none" \notin Active \cup Final /\ "failed" \in Final
    BY DEF Active, Final
  <2> QED
    BY <1>1, <1>2, <1>4, <2>2, <2>3 DEF known
<1> QED
  BY <1>3, <1>4

\* A disconnection stalls the active rows, and settles those whose answer is awaited.
LEMMA CloseRows ==
    ASSUME TypeOK, Close
    PROVE  /\ \A t \in Tasks :
                  row'[t] = IF row[t] \notin Active THEN row[t]
                            ELSE IF t \in asking THEN "failed" ELSE "stalled"
           /\ phase' = "offline" /\ asking' = {} /\ disowned' = disowned \cup asking
           /\ toAgent' = <<>> /\ toPanel' = <<>>
  BY DEF Close, Unplugged, Settled, Stalled, TypeOK, PanelOK, Active

\* A restart of the panel stalls the active rows.
LEMMA PanelRestartRows ==
    ASSUME TypeOK, PanelRestart
    PROVE  \A t \in Tasks : row'[t] = IF row[t] \in Active THEN "stalled" ELSE row[t]
  BY DEF PanelRestart, Stalled, TypeOK, PanelOK

\* An order that is given up is failed.
LEMMA OrderTimeoutRows ==
    ASSUME TypeOK, NEW u \in asking, OrderTimeout(u)
    PROVE  /\ u \in Orders
           /\ \A t \in Tasks : row'[t] = IF t = u /\ row[t] \in Active THEN "failed" ELSE row[t]
  BY DEF OrderTimeout, Settled, TypeOK, PanelOK

\* Whatever a step makes of a row, an outcome stays, no row goes, and a row that appears is that
\* of an order, or of a task the agent told of.
LEMMA RowMoves ==
    ASSUME TypeOK, [Next]_vars, NEW t \in Tasks
    PROVE  /\ row[t] \in Final => row'[t] = row[t]
           /\ row[t] # "none" => row'[t] # "none"
           /\ row'[t] # row[t] =>
                  \/ t \in Orders /\ Order(t)
                  \/ \E o \in applying : Apply(o) /\ o.task = t /\ o \in Told
                  \/ Reconcile /\ Head(toPanel).known \in Listed
                         /\ (row[t] \in Active \/ Head(toPanel).known[t] # "none")
                  \/ row[t] \in Active
<1> DEFINE Moved ==
        /\ row[t] \in Final => row'[t] = row[t]
        /\ row[t] # "none" => row'[t] # "none"
        /\ row'[t] # row[t] =>
               \/ t \in Orders /\ Order(t)
               \/ \E o \in applying : Apply(o) /\ o.task = t /\ o \in Told
               \/ Reconcile /\ Head(toPanel).known \in Listed
                      /\ (row[t] \in Active \/ Head(toPanel).known[t] # "none")
               \/ row[t] \in Active
<1>0. /\ row[t] \in {"none"} \cup Active \cup Final /\ Active \cap Final = {}
      /\ "none" \notin Active \cup Final /\ "failed" \in Final
      /\ {"pending", "running", "stalled"} \subseteq Active
  BY DEF TypeOK, PanelOK, Active, Final
<1>1. ASSUME NEW u \in Orders, Order(u) PROVE Moved
  BY <1>0, <1>1, OrderRows
<1>2. CASE TakeReply
  BY <1>0, <1>2, TakeReplyRows
<1>3. CASE TakeProgress
  BY <1>0, <1>3, TakeProgressRows
<1>4. ASSUME NEW o \in applying, Apply(o) PROVE Moved
  BY <1>0, <1>4, ApplyRows
<1>5. CASE Reconcile
  BY <1>0, <1>5, ReconcileRows
<1>6. CASE Cut
  BY <1>0, <1>6, CloseRows DEF Cut
<1>7. CASE AgentCrash
  BY <1>0, <1>7, CloseRows DEF AgentCrash
<1>8. CASE PanelRestart
  BY <1>0, <1>8, PanelRestartRows
<1>9. ASSUME NEW u \in asking, OrderTimeout(u) PROVE Moved
  BY <1>0, <1>9, OrderTimeoutRows
<1>10. CASE (\E u \in Tasks : Cancel(u)) \/ TakeEvent \/ AskList \/ WriteJournal \/
         TakeOrder \/ (\E u \in Tasks : Start(u)) \/ TakeCancel \/ TakeAck \/ TakeList \/
         (\E u \in Tasks : Progress(u)) \/ (\E u \in Tasks : Finish(u)) \/ (\E u \in Tasks :
         End(u)) \/ (\E u \in Scheduled : Tick(u)) \/ (\E u \in Scheduled :
         StartScheduled(u)) \/ (\E u \in Tasks : Recover(u)) \/ (\E u \in Tasks :
         Recovered(u)) \/ PersistEvents \/ (\E o \in outbox : AckEvent(o)) \/ Connect \/
         AgentBoot \/ ListTimeout
  BY <1>10 DEF Cancel, TakeEvent, AskList, WriteJournal, TakeOrder, Start, TakeCancel,
     TakeAck, TakeList, Progress, Finish, End, Tick, StartScheduled, Recover, Recovered,
     PersistEvents, AckEvent, Connect, AgentBoot, ListTimeout, panelVars
<1>11. CASE UNCHANGED vars
  BY <1>11 DEF vars, panelVars
<1> QED
  BY <1>1, <1>2, <1>3, <1>4, <1>5, <1>6, <1>7, <1>8, <1>9, <1>10, <1>11 DEF Next,
     PanelNext, AgentNext, Operator, FaultNext

\* A record of an order is made when it is taken, unless another task is active.
LEMMA TakeOrderWrites ==
    ASSUME TypeOK, TakeOrder
    PROVE  LET u == Head(toAgent).task IN
           /\ u \in Orders /\ u \in Ordered
           /\ \/ /\ Busy(u) /\ journal' = journal /\ starting' = starting
                 /\ answering' = answering
              \/ /\ ~Busy(u) /\ answering' = answering \cup {u} /\ toPanel' = toPanel
                 /\ \A t \in Tasks : journal'[t] =
                        IF t = u /\ journal[u].st = "none" THEN Fresh ELSE journal[t]
                 /\ journal[u].st = "none" => starting' = starting \cup {u}
                 /\ journal[u].st # "none" => starting' = starting
<1>1. Head(toAgent).task \in Ordered
  BY TakeOrderSays
<1>2. Head(toAgent).task \in Orders
  BY <1>1 DEF Ordered
<1> QED
  BY <1>1, <1>2 DEF TakeOrder, TypeOK, JournalOK, Tasks

\* An acknowledgement marks a record, and removes those that are settled and acknowledged.
LEMMA TakeAckWrites ==
    ASSUME TypeOK, TakeAck
    PROVE  /\ Head(toAgent).task \in Acknowledged
           /\ \A t \in Tasks :
                  \/ /\ journal'[t].st = journal[t].st
                     /\ journal'[t].acked => journal[t].acked \/ t = Head(toAgent).task
                  \/ /\ journal'[t].st = "none" /\ journal[t].st \in Final
                     /\ journal[t].acked \/ t = Head(toAgent).task
<1> DEFINE u == Head(toAgent).task
<1>1. u \in Tasks /\ u \in Acknowledged
  BY Channels, Messages DEF TakeAck, HeadIs, Acknowledged
<1>2. \/ journal' = journal
      \/ journal' = Purged([journal EXCEPT ![u].acked = TRUE])
  BY DEF TakeAck
<1> HIDE DEF u
<1>3. CASE journal' = journal
  BY <1>1, <1>3 DEF u
<1>4. CASE journal' = Purged([journal EXCEPT ![u].acked = TRUE])
  <2> DEFINE f == [journal EXCEPT ![u].acked = TRUE]
  <2>1. /\ f \in [Tasks -> Entries]
        /\ \A t \in Tasks : f[t].st = journal[t].st
        /\ \A t \in Tasks : f[t].acked => journal[t].acked \/ t = u
    BY <1>1 DEF TypeOK, JournalOK, Entries
  <2> HIDE DEF f
  <2>2. \A t \in Tasks :
            journal'[t] = IF f[t].st \in Final /\ f[t].acked THEN NoEntry ELSE f[t]
    BY <1>4, <2>1 DEF Purged, f
  <2>3. NoEntry.st = "none"
    BY DEF NoEntry
  <2> QED
    BY <1>1, <2>1, <2>2, <2>3 DEF u
<1> QED
  BY <1>2, <1>3, <1>4

\* The end of a task is put in its record.
LEMMA FinishWrites ==
    ASSUME TypeOK, NEW u \in Tasks, Finish(u)
    PROVE  /\ u \in active \ ending /\ ending' = ending \cup {u}
           /\ \A t \in Tasks : t # u => journal'[t] = journal[t] /\ ran'[t] = ran[t]
           /\ journal'[u].st = ran'[u] /\ ran'[u] \in Final /\ journal'[u].acked =
                  journal[u].acked
<1>1. PICK verdict \in {"done", "cancelled", "failed"} :
          /\ journal' = [journal EXCEPT ![u].st = verdict]
          /\ ran' = [ran EXCEPT ![u] = verdict]
  BY DEF Finish, Put
<1>2. verdict \in Final
  BY <1>1 DEF Final
<1>3. \A t \in Tasks : t # u => journal'[t] = journal[t] /\ ran'[t] = ran[t]
  BY <1>1 DEF TypeOK, JournalOK, RunOK
<1>4. journal'[u].st = verdict /\ journal'[u].acked = journal[u].acked /\ ran'[u] = verdict
  BY <1>1 DEF TypeOK, JournalOK, RunOK, Entries
<1> QED
  BY <1>2, <1>3, <1>4 DEF Finish

\* A scheduled task has a new record.
LEMMA StartScheduledWrites ==
    ASSUME TypeOK, NEW u \in Scheduled, StartScheduled(u)
    PROVE  /\ u \in marking /\ u \in Tasks
           /\ \A t \in Tasks : journal'[t] = IF t = u THEN Fresh ELSE journal[t]
  BY DEF StartScheduled, TypeOK, JournalOK, Tasks

\* An interrupted task is recorded as failed.
LEMMA RecoverWrites ==
    ASSUME TypeOK, NEW u \in Tasks, Recover(u)
    PROVE  /\ u \in recovering /\ journal[u].st = "running"
           /\ \A t \in Tasks : t # u => journal'[t] = journal[t]
           /\ journal'[u].st = "failed" /\ journal'[u].acked = journal[u].acked
  BY DEF Recover, Put, TypeOK, JournalOK, Entries

\* An agent that starts reads its disk, and recovers what it was running.
LEMMA AgentBootReads ==
    ASSUME TypeOK, AgentBoot
    PROVE  /\ ~up /\ up' /\ disk' = disk
           /\ \A t \in Tasks :
                  \/ journal'[t] = disk[t]
                  \/ disk[t].st \in Final /\ disk[t].acked /\ journal'[t].st = "none"
           /\ \A t \in Tasks : t \in recovering' <=> journal'[t].st = "running"
           /\ recovering' \subseteq Tasks
  BY DEF AgentBoot, Purged, NoEntry, TypeOK, JournalOK

\* An entry that has just been made.
LEMMA Blank ==
    /\ Fresh.st = "running" /\ Fresh.acked = FALSE
    /\ NoEntry.st = "none" /\ NoEntry.acked = FALSE
    /\ Active \cap Final = {} /\ "none" \notin Active \cup Final /\ "running" \notin Final
    /\ {"pending", "running", "stalled"} \subseteq Active /\ {"done", "failed",
           "cancelled"} = Final
  BY DEF Fresh, NoEntry, Active, Final

\* What a step may do to the record of a task.
LEMMA JournalMoves ==
    ASSUME TypeOK, [Next]_vars, NEW t \in Tasks
    PROVE  \/ journal'[t] = journal[t]
           \/ /\ TakeOrder /\ t = Head(toAgent).task /\ t \in Ordered /\ ~Busy(t)
              /\ journal[t].st = "none" /\ journal'[t] = Fresh /\ t \in starting'
           \/ t \in Scheduled /\ StartScheduled(t) /\ t \in marking /\ journal'[t] = Fresh
           \/ /\ Finish(t) /\ t \in active \ ending
              /\ journal'[t].st = ran'[t] /\ ran'[t] \in Final /\ journal'[t].acked =
                     journal[t].acked
           \/ /\ Recover(t) /\ t \in recovering /\ journal[t].st = "running"
              /\ journal'[t].st = "failed" /\ journal'[t].acked = journal[t].acked
           \/ /\ TakeAck /\ journal'[t].st = journal[t].st
              /\ journal'[t].acked => journal[t].acked \/ t \in Acknowledged
           \/ /\ TakeAck /\ journal'[t].st = "none" /\ journal[t].st \in Final
              /\ journal[t].acked \/ t \in Acknowledged
           \/ AgentBoot /\ ~up /\ journal'[t] = disk[t]
           \/ /\ AgentBoot /\ ~up /\ disk[t].st \in Final /\ disk[t].acked
              /\ journal'[t].st = "none"
<1> DEFINE Moved ==
        \/ journal'[t] = journal[t]
        \/ /\ TakeOrder /\ t = Head(toAgent).task /\ t \in Ordered /\ ~Busy(t)
           /\ journal[t].st = "none" /\ journal'[t] = Fresh /\ t \in starting'
        \/ t \in Scheduled /\ StartScheduled(t) /\ t \in marking /\ journal'[t] = Fresh
        \/ /\ Finish(t) /\ t \in active \ ending
           /\ journal'[t].st = ran'[t] /\ ran'[t] \in Final /\ journal'[t].acked =
                  journal[t].acked
        \/ /\ Recover(t) /\ t \in recovering /\ journal[t].st = "running"
           /\ journal'[t].st = "failed" /\ journal'[t].acked = journal[t].acked
        \/ /\ TakeAck /\ journal'[t].st = journal[t].st
           /\ journal'[t].acked => journal[t].acked \/ t \in Acknowledged
        \/ /\ TakeAck /\ journal'[t].st = "none" /\ journal[t].st \in Final
           /\ journal[t].acked \/ t \in Acknowledged
        \/ AgentBoot /\ ~up /\ journal'[t] = disk[t]
        \/ /\ AgentBoot /\ ~up /\ disk[t].st \in Final /\ disk[t].acked
           /\ journal'[t].st = "none"
<1>1. CASE TakeOrder
  BY <1>1, TakeOrderWrites DEF Busy
<1>2. CASE TakeAck
  BY <1>2, TakeAckWrites
<1>3. ASSUME NEW u \in Tasks, Finish(u) PROVE Moved
  BY <1>3, FinishWrites
<1>4. ASSUME NEW u \in Scheduled, StartScheduled(u) PROVE Moved
  BY <1>4, StartScheduledWrites
<1>5. ASSUME NEW u \in Tasks, Recover(u) PROVE Moved
  BY <1>5, RecoverWrites
<1>6. CASE AgentBoot
  BY <1>6, AgentBootReads
<1>7. CASE (\E u \in Orders : Order(u)) \/ (\E u \in Tasks : Cancel(u)) \/
         TakeReply \/ TakeProgress \/ TakeEvent \/ (\E o \in applying : Apply(o)) \/ AskList
         \/ Reconcile \/ WriteJournal \/ (\E u \in Tasks : Start(u)) \/ TakeCancel \/
         TakeList \/ (\E u \in Tasks : Progress(u)) \/ (\E u \in Tasks : End(u)) \/ (\E u
         \in Scheduled : Tick(u)) \/ (\E u \in Tasks : Recovered(u)) \/ PersistEvents \/ (\E
         o \in outbox : AckEvent(o)) \/ Connect \/ Cut \/ AgentCrash \/ PanelRestart \/ (\E
         u \in asking : OrderTimeout(u)) \/ ListTimeout
  BY <1>7 DEF Order, agentVars, Cancel, TakeReply, TakeProgress, TakeEvent, Apply,
     AskList, Reconcile, WriteJournal, Start, TakeCancel, TakeList, Progress, End, Tick,
     Recovered, PersistEvents, AckEvent, Connect, Cut, AgentCrash, PanelRestart,
     OrderTimeout, ListTimeout
<1>8. CASE UNCHANGED vars
  BY <1>8 DEF vars, agentVars
<1> QED
  BY <1>1, <1>2, <1>3, <1>4, <1>5, <1>6, <1>7, <1>8 DEF Next, PanelNext, AgentNext,
     Operator, FaultNext

\* What a step may do to the disk.
LEMMA DiskMoves ==
    ASSUME TypeOK, [Next]_vars
    PROVE  \/ disk' = disk
           \/ up /\ disk' = journal /\ journal' = journal /\ row' = row /\ ran' = ran
<1> DEFINE Moved ==
        \/ disk' = disk
        \/ up /\ disk' = journal /\ journal' = journal /\ row' = row /\ ran' = ran
<1>1. CASE WriteJournal
  BY <1>1 DEF WriteJournal, panelVars, runVars
<1>2. CASE (\E u \in Orders : Order(u)) \/ (\E u \in Tasks : Cancel(u)) \/
         TakeReply \/ TakeProgress \/ TakeEvent \/ (\E o \in applying : Apply(o)) \/ AskList
         \/ Reconcile \/ TakeOrder \/ (\E u \in Tasks : Start(u)) \/ TakeCancel \/ TakeAck
         \/ TakeList \/ (\E u \in Tasks : Progress(u)) \/ (\E u \in Tasks : Finish(u)) \/
         (\E u \in Tasks : End(u)) \/ (\E u \in Scheduled : Tick(u)) \/ (\E u \in Scheduled
         : StartScheduled(u)) \/ (\E u \in Tasks : Recover(u)) \/ (\E u \in Tasks :
         Recovered(u)) \/ PersistEvents \/ (\E o \in outbox : AckEvent(o)) \/ Connect \/ Cut
         \/ AgentCrash \/ AgentBoot \/ PanelRestart \/ (\E u \in asking : OrderTimeout(u))
         \/ ListTimeout
  BY <1>2 DEF Order, agentVars, Cancel, TakeReply, TakeProgress, TakeEvent, Apply,
     AskList, Reconcile, TakeOrder, Start, TakeCancel, TakeAck, TakeList, Progress, Finish,
     End, Tick, StartScheduled, Recover, Recovered, PersistEvents, AckEvent, Connect, Cut,
     AgentCrash, AgentBoot, PanelRestart, OrderTimeout, ListTimeout
<1>3. CASE UNCHANGED vars
  BY <1>3 DEF vars, agentVars
<1> QED
  BY <1>1, <1>2, <1>3 DEF Next, PanelNext, AgentNext, Operator, FaultNext

\* What a step may do to the history of executions.
LEMMA RanMoves ==
    ASSUME TypeOK, [Next]_vars, NEW t \in Tasks
    PROVE  \/ ran'[t] = ran[t]
           \/ /\ Finish(t) /\ t \in active \ ending /\ t \in ending' /\ ran'[t] \in Final
              /\ row' = row /\ disk' = disk /\ toPanel' = toPanel /\ journal'[t].st = ran'[t]
<1> DEFINE Moved ==
        \/ ran'[t] = ran[t]
        \/ /\ Finish(t) /\ t \in active \ ending /\ t \in ending' /\ ran'[t] \in Final
           /\ row' = row /\ disk' = disk /\ toPanel' = toPanel /\ journal'[t].st = ran'[t]
<1>1. ASSUME NEW u \in Tasks, Finish(u) PROVE Moved
  BY <1>1, FinishWrites DEF Finish, panelVars, wireVars
<1>2. CASE (\E u \in Orders : Order(u)) \/ (\E u \in Tasks : Cancel(u)) \/
         TakeReply \/ TakeProgress \/ TakeEvent \/ (\E o \in applying : Apply(o)) \/ AskList
         \/ Reconcile \/ WriteJournal \/ TakeOrder \/ (\E u \in Tasks : Start(u)) \/
         TakeCancel \/ TakeAck \/ TakeList \/ (\E u \in Tasks : Progress(u)) \/ (\E u \in
         Tasks : End(u)) \/ (\E u \in Scheduled : Tick(u)) \/ (\E u \in Scheduled :
         StartScheduled(u)) \/ (\E u \in Tasks : Recover(u)) \/ (\E u \in Tasks :
         Recovered(u)) \/ PersistEvents \/ (\E o \in outbox : AckEvent(o)) \/ Connect \/ Cut
         \/ AgentCrash \/ AgentBoot \/ PanelRestart \/ (\E u \in asking : OrderTimeout(u))
         \/ ListTimeout
  BY <1>2 DEF Order, agentVars, runVars, Cancel, TakeReply, TakeProgress, TakeEvent,
     Apply, AskList, Reconcile, WriteJournal, TakeOrder, Start, TakeCancel, TakeAck,
     TakeList, Progress, End, Tick, StartScheduled, Recover, Recovered, PersistEvents,
     AckEvent, Connect, Cut, AgentCrash, AgentBoot, PanelRestart, OrderTimeout, ListTimeout
<1>3. CASE UNCHANGED vars
  BY <1>3 DEF vars, runVars, agentVars
<1> QED
  BY <1>1, <1>2, <1>3 DEF Next, PanelNext, AgentNext, Operator, FaultNext

\* What a step may make of the tasks that begin.
LEMMA StartMoves ==
    ASSUME TypeOK, [Next]_vars, NEW t \in Tasks
    PROVE  /\ t \in starting' /\ t \notin starting =>
                  \/ /\ TakeOrder /\ t = Head(toAgent).task /\ t \in Ordered /\ ~Busy(t)
                     /\ journal[t].st = "none" /\ journal'[t] = Fresh
                  \/ t \in Scheduled /\ StartScheduled(t) /\ t \in marking /\ journal'[t] = Fresh
           /\ t \in answering' /\ t \notin answering =>
                  TakeOrder /\ t = Head(toAgent).task /\ t \in Ordered
           /\ t \in due' => t \in due
           /\ t \in marking' /\ t \notin marking =>
                  t \in Scheduled /\ Tick(t) /\ t \in due /\ t \notin due'
<1> DEFINE Moved ==
        /\ t \in starting' /\ t \notin starting =>
               \/ /\ TakeOrder /\ t = Head(toAgent).task /\ t \in Ordered /\ ~Busy(t)
                  /\ journal[t].st = "none" /\ journal'[t] = Fresh
               \/ t \in Scheduled /\ StartScheduled(t) /\ t \in marking /\ journal'[t] = Fresh
        /\ t \in answering' /\ t \notin answering =>
               TakeOrder /\ t = Head(toAgent).task /\ t \in Ordered
        /\ t \in due' => t \in due
        /\ t \in marking' /\ t \notin marking =>
               t \in Scheduled /\ Tick(t) /\ t \in due /\ t \notin due'
<1>1. CASE TakeOrder
  BY <1>1, TakeOrderWrites DEF TakeOrder, Busy
<1>2. ASSUME NEW u \in Tasks, Start(u) PROVE Moved
  BY <1>2 DEF Start
<1>3. ASSUME NEW u \in Scheduled, Tick(u) PROVE Moved
  BY <1>3 DEF Tick
<1>4. ASSUME NEW u \in Scheduled, StartScheduled(u) PROVE Moved
  BY <1>4, StartScheduledWrites DEF StartScheduled
<1>5. CASE Cut
  BY <1>5 DEF Cut
<1>6. CASE AgentCrash
  BY <1>6 DEF AgentCrash
<1>7. CASE PanelRestart
  BY <1>7 DEF PanelRestart
<1>8. CASE (\E u \in Orders : Order(u)) \/ (\E u \in Tasks : Cancel(u)) \/
         TakeReply \/ TakeProgress \/ TakeEvent \/ (\E o \in applying : Apply(o)) \/ AskList
         \/ Reconcile \/ WriteJournal \/ TakeCancel \/ TakeAck \/ TakeList \/ (\E u \in
         Tasks : Progress(u)) \/ (\E u \in Tasks : Finish(u)) \/ (\E u \in Tasks : End(u))
         \/ (\E u \in Tasks : Recover(u)) \/ (\E u \in Tasks : Recovered(u)) \/
         PersistEvents \/ (\E o \in outbox : AckEvent(o)) \/ Connect \/ AgentBoot \/ (\E u
         \in asking : OrderTimeout(u)) \/ ListTimeout
  BY <1>8 DEF Order, agentVars, startVars, Cancel, TakeReply, TakeProgress, TakeEvent,
     Apply, AskList, Reconcile, WriteJournal, TakeCancel, TakeAck, TakeList, Progress,
     Finish, End, Recover, Recovered, PersistEvents, AckEvent, Connect, AgentBoot,
     OrderTimeout, ListTimeout
<1>9. CASE UNCHANGED vars
  BY <1>9 DEF vars, startVars, agentVars
<1> QED
  BY <1>1, <1>2, <1>3, <1>4, <1>5, <1>6, <1>7, <1>8, <1>9 DEF Next, PanelNext, AgentNext,
     Operator, FaultNext

\* What a step may make of the tasks that run, and of those that were interrupted.
LEMMA RunMoves ==
    ASSUME TypeOK, [Next]_vars, NEW t \in Tasks
    PROVE  /\ t \in active' /\ t \notin active =>
                  /\ Start(t) /\ t \in starting /\ t \notin starting' /\ disk[t] = journal[t]
                  /\ UNCHANGED <<journal, disk, ending>>
           /\ t \in ending' /\ t \notin ending =>
                  /\ Finish(t) /\ t \in active \ ending
                  /\ journal'[t].st = ran'[t] /\ ran'[t] \in Final
           /\ t \in ending /\ t \notin ending' => t \notin active'
           /\ t \in recovering' /\ t \notin recovering => AgentBoot /\ journal'[t].st = "running"
           /\ t \in starting /\ t \notin starting' => t \in active' \/ (AgentCrash
                  /\ active' = {})
<1> DEFINE Moved ==
        /\ t \in active' /\ t \notin active =>
               /\ Start(t) /\ t \in starting /\ t \notin starting' /\ disk[t] = journal[t]
               /\ UNCHANGED <<journal, disk, ending>>
        /\ t \in ending' /\ t \notin ending =>
               /\ Finish(t) /\ t \in active \ ending
               /\ journal'[t].st = ran'[t] /\ ran'[t] \in Final
        /\ t \in ending /\ t \notin ending' => t \notin active'
        /\ t \in recovering' /\ t \notin recovering => AgentBoot /\ journal'[t].st = "running"
        /\ t \in starting /\ t \notin starting' => t \in active' \/ (AgentCrash /\ active' = {})
<1>1. CASE TakeOrder
  BY <1>1, TakeOrderWrites DEF TakeOrder, runVars
<1>2. ASSUME NEW u \in Tasks, Start(u) PROVE Moved
  BY <1>2 DEF Start, Written
<1>3. ASSUME NEW u \in Tasks, Finish(u) PROVE Moved
  BY <1>3, FinishWrites DEF Finish, startVars
<1>4. ASSUME NEW u \in Tasks, End(u) PROVE Moved
  BY <1>4 DEF End, startVars
<1>5. ASSUME NEW u \in Scheduled, StartScheduled(u) PROVE Moved
  BY <1>5 DEF StartScheduled, runVars
<1>6. ASSUME NEW u \in Tasks, Recovered(u) PROVE Moved
  BY <1>6 DEF Recovered, startVars
<1>7. CASE AgentCrash
  BY <1>7 DEF AgentCrash
<1>8. CASE AgentBoot
  BY <1>8, AgentBootReads DEF AgentBoot, startVars
<1>9. CASE (\E u \in Orders : Order(u)) \/ (\E u \in Tasks : Cancel(u)) \/
         TakeReply \/ TakeProgress \/ TakeEvent \/ (\E o \in applying : Apply(o)) \/ AskList
         \/ Reconcile \/ WriteJournal \/ TakeCancel \/ TakeAck \/ TakeList \/ (\E u \in
         Tasks : Progress(u)) \/ (\E u \in Scheduled : Tick(u)) \/ (\E u \in Tasks :
         Recover(u)) \/ PersistEvents \/ (\E o \in outbox : AckEvent(o)) \/ Connect \/ Cut
         \/ PanelRestart \/ (\E u \in asking : OrderTimeout(u)) \/ ListTimeout
  BY <1>9 DEF Order, agentVars, startVars, runVars, Cancel, TakeReply, TakeProgress,
     TakeEvent, Apply, AskList, Reconcile, WriteJournal, TakeCancel, TakeAck, TakeList,
     Progress, Tick, Recover, PersistEvents, AckEvent, Connect, Cut, PanelRestart,
     OrderTimeout, ListTimeout
<1>10. CASE UNCHANGED vars
  BY <1>10 DEF vars, startVars, runVars, agentVars
<1> QED
  BY <1>1, <1>2, <1>3, <1>4, <1>5, <1>6, <1>7, <1>8, <1>9, <1>10 DEF Next, PanelNext,
     AgentNext, Operator, FaultNext

\* What a step may do to the orders on the wire, and to the acknowledgements.
LEMMA OrderedMoves ==
    ASSUME TypeOK, [Next]_vars, NEW t \in Tasks
    PROVE  /\ t \in Ordered' /\ t \notin Ordered => t \in Orders /\ Order(t)
           /\ t \in Acknowledged' /\ t \notin Acknowledged => row'[t] \in Final
<1> DEFINE Moved ==
        /\ t \in Ordered' /\ t \notin Ordered => t \in Orders /\ Order(t)
        /\ t \in Acknowledged' /\ t \notin Acknowledged => row'[t] \in Final
<1>0. \A o \in Outcomes : o.task \in Tasks /\ o.verdict \in Final
  BY Outcome
<1>1. ASSUME NEW u \in Orders, Order(u) PROVE Moved
  BY <1>0, <1>1, OrderSays
<1>2. ASSUME NEW u \in Tasks, Cancel(u) PROVE Moved
  BY <1>0, <1>2, Traffic DEF Silent
<1>3. CASE TakeReply
  BY <1>0, <1>3, Traffic DEF Silent
<1>4. CASE TakeProgress
  BY <1>0, <1>4, Traffic DEF Silent
<1>5. CASE TakeEvent
  BY <1>0, <1>5, Traffic DEF Silent
<1>6. ASSUME NEW o \in applying, Apply(o) PROVE Moved
  BY <1>0, <1>6, ApplySays, ApplyRows
<1>7. CASE AskList
  BY <1>0, <1>7, Traffic DEF Silent
<1>8. CASE Reconcile
  BY <1>0, <1>8, ReconcileSays
<1>9. CASE WriteJournal
  BY <1>0, <1>9, Traffic DEF Silent
<1>10. CASE TakeOrder
  BY <1>0, <1>10, TakeOrderSays
<1>11. ASSUME NEW u \in Tasks, Start(u) PROVE Moved
  BY <1>0, <1>11, StartSays
<1>12. CASE TakeCancel
  BY <1>0, <1>12, Traffic DEF Silent
<1>13. CASE TakeAck
  BY <1>0, <1>13, Traffic DEF Silent
<1>14. CASE TakeList
  BY <1>0, <1>14, TakeListSays
<1>15. ASSUME NEW u \in Tasks, Progress(u) PROVE Moved
  BY <1>0, <1>15, Traffic DEF Silent
<1>16. ASSUME NEW u \in Tasks, Finish(u) PROVE Moved
  BY <1>0, <1>16, Traffic DEF Silent
<1>17. ASSUME NEW u \in Tasks, End(u) PROVE Moved
  BY <1>0, <1>17, EndSays
<1>18. ASSUME NEW u \in Scheduled, Tick(u) PROVE Moved
  BY <1>0, <1>18, Traffic DEF Silent
<1>19. ASSUME NEW u \in Scheduled, StartScheduled(u) PROVE Moved
  BY <1>0, <1>19, Traffic DEF Silent
<1>20. ASSUME NEW u \in Tasks, Recover(u) PROVE Moved
  BY <1>0, <1>20, Traffic DEF Silent
<1>21. ASSUME NEW u \in Tasks, Recovered(u) PROVE Moved
  BY <1>0, <1>21, RecoveredSays
<1>22. CASE PersistEvents
  BY <1>0, <1>22, Traffic DEF Silent
<1>23. ASSUME NEW o \in outbox, AckEvent(o) PROVE Moved
  BY <1>0, <1>23, Traffic DEF Silent
<1>24. CASE Connect
  BY <1>0, <1>24, Traffic DEF Silent
<1>25. CASE Cut
  BY <1>0, <1>25, Traffic DEF Silent
<1>26. CASE AgentCrash
  BY <1>0, <1>26, Traffic DEF Silent
<1>27. CASE AgentBoot
  BY <1>0, <1>27, Traffic DEF Silent
<1>28. CASE PanelRestart
  BY <1>0, <1>28, Traffic DEF Silent
<1>29. ASSUME NEW u \in asking, OrderTimeout(u) PROVE Moved
  BY <1>0, <1>29, Traffic DEF Silent
<1>30. CASE ListTimeout
  BY <1>0, <1>30, Traffic DEF Silent
<1>31. CASE UNCHANGED vars
  BY <1>0, <1>31, Monotone DEF vars, panelVars, wireVars, agentVars, eventVars
<1> QED
  BY <1>1, <1>2, <1>3, <1>4, <1>5, <1>6, <1>7, <1>8, <1>9, <1>10, <1>11, <1>12, <1>13,
     <1>14, <1>15, <1>16, <1>17, <1>18, <1>19, <1>20, <1>21, <1>22, <1>23, <1>24, <1>25,
     <1>26, <1>27, <1>28, <1>29, <1>30, <1>31 DEF Next, PanelNext, AgentNext, Operator,
     FaultNext

\* What a step may do to the answers.
LEMMA AnswerMoves ==
    ASSUME TypeOK, [Next]_vars, NEW t \in Tasks
    PROVE  /\ t \in Accepted' /\ t \notin Accepted => Start(t) /\ t \in starting
           /\ t \in Refused' /\ t \notin Refused =>
                  /\ TakeOrder /\ t = Head(toAgent).task /\ t \in Ordered /\ Busy(t)
                  /\ UNCHANGED <<journal, starting>>
<1> DEFINE Moved ==
        /\ t \in Accepted' /\ t \notin Accepted => Start(t) /\ t \in starting
        /\ t \in Refused' /\ t \notin Refused =>
               /\ TakeOrder /\ t = Head(toAgent).task /\ t \in Ordered /\ Busy(t)
               /\ UNCHANGED <<journal, starting>>
<1>1. ASSUME NEW u \in Orders, Order(u) PROVE Moved
  BY <1>1, OrderSays
<1>2. ASSUME NEW u \in Tasks, Cancel(u) PROVE Moved
  BY <1>2, Traffic DEF Silent
<1>3. CASE TakeReply
  BY <1>3, Traffic DEF Silent
<1>4. CASE TakeProgress
  BY <1>4, Traffic DEF Silent
<1>5. CASE TakeEvent
  BY <1>5, Traffic DEF Silent
<1>6. ASSUME NEW o \in applying, Apply(o) PROVE Moved
  BY <1>6, ApplySays
<1>7. CASE AskList
  BY <1>7, Traffic DEF Silent
<1>8. CASE Reconcile
  BY <1>8, ReconcileSays
<1>9. CASE WriteJournal
  BY <1>9, Traffic DEF Silent
<1>10. CASE TakeOrder
  BY <1>10, TakeOrderSays, TakeOrderWrites DEF Busy
<1>11. ASSUME NEW u \in Tasks, Start(u) PROVE Moved
  BY <1>11, StartSays DEF Start
<1>12. CASE TakeCancel
  BY <1>12, Traffic DEF Silent
<1>13. CASE TakeAck
  BY <1>13, Traffic DEF Silent
<1>14. CASE TakeList
  BY <1>14, TakeListSays
<1>15. ASSUME NEW u \in Tasks, Progress(u) PROVE Moved
  BY <1>15, Traffic DEF Silent
<1>16. ASSUME NEW u \in Tasks, Finish(u) PROVE Moved
  BY <1>16, Traffic DEF Silent
<1>17. ASSUME NEW u \in Tasks, End(u) PROVE Moved
  BY <1>17, EndSays
<1>18. ASSUME NEW u \in Scheduled, Tick(u) PROVE Moved
  BY <1>18, Traffic DEF Silent
<1>19. ASSUME NEW u \in Scheduled, StartScheduled(u) PROVE Moved
  BY <1>19, Traffic DEF Silent
<1>20. ASSUME NEW u \in Tasks, Recover(u) PROVE Moved
  BY <1>20, Traffic DEF Silent
<1>21. ASSUME NEW u \in Tasks, Recovered(u) PROVE Moved
  BY <1>21, RecoveredSays
<1>22. CASE PersistEvents
  BY <1>22, Traffic DEF Silent
<1>23. ASSUME NEW o \in outbox, AckEvent(o) PROVE Moved
  BY <1>23, Traffic DEF Silent
<1>24. CASE Connect
  BY <1>24, Traffic DEF Silent
<1>25. CASE Cut
  BY <1>25, Traffic DEF Silent
<1>26. CASE AgentCrash
  BY <1>26, Traffic DEF Silent
<1>27. CASE AgentBoot
  BY <1>27, Traffic DEF Silent
<1>28. CASE PanelRestart
  BY <1>28, Traffic DEF Silent
<1>29. ASSUME NEW u \in asking, OrderTimeout(u) PROVE Moved
  BY <1>29, Traffic DEF Silent
<1>30. CASE ListTimeout
  BY <1>30, Traffic DEF Silent
<1>31. CASE UNCHANGED vars
  BY <1>31, Monotone DEF vars, panelVars, wireVars, agentVars, eventVars
<1> QED
  BY <1>1, <1>2, <1>3, <1>4, <1>5, <1>6, <1>7, <1>8, <1>9, <1>10, <1>11, <1>12, <1>13,
     <1>14, <1>15, <1>16, <1>17, <1>18, <1>19, <1>20, <1>21, <1>22, <1>23, <1>24, <1>25,
     <1>26, <1>27, <1>28, <1>29, <1>30, <1>31 DEF Next, PanelNext, AgentNext, Operator,
     FaultNext

\* What a step may do to the lists on the wire.
LEMMA ListedMoves ==
    ASSUME TypeOK, [Next]_vars, NEW known
    PROVE  known \in Listed' /\ known \notin Listed =>
               /\ TakeList /\ known = [t \in Tasks |-> journal[t].st]
               /\ UNCHANGED <<journal, row, ran, starting, active, ending>>
<1> DEFINE Moved ==
        known \in Listed' /\ known \notin Listed =>
            /\ TakeList /\ known = [t \in Tasks |-> journal[t].st]
            /\ UNCHANGED <<journal, row, ran, starting, active, ending>>
<1>1. ASSUME NEW u \in Orders, Order(u) PROVE Moved
  BY <1>1, OrderSays
<1>2. ASSUME NEW u \in Tasks, Cancel(u) PROVE Moved
  BY <1>2, Traffic DEF Silent
<1>3. CASE TakeReply
  BY <1>3, Traffic DEF Silent
<1>4. CASE TakeProgress
  BY <1>4, Traffic DEF Silent
<1>5. CASE TakeEvent
  BY <1>5, Traffic DEF Silent
<1>6. ASSUME NEW o \in applying, Apply(o) PROVE Moved
  BY <1>6, ApplySays
<1>7. CASE AskList
  BY <1>7, Traffic DEF Silent
<1>8. CASE Reconcile
  BY <1>8, ReconcileSays
<1>9. CASE WriteJournal
  BY <1>9, Traffic DEF Silent
<1>10. CASE TakeOrder
  BY <1>10, TakeOrderSays
<1>11. ASSUME NEW u \in Tasks, Start(u) PROVE Moved
  BY <1>11, StartSays
<1>12. CASE TakeCancel
  BY <1>12, Traffic DEF Silent
<1>13. CASE TakeAck
  BY <1>13, Traffic DEF Silent
<1>14. CASE TakeList
  BY <1>14, TakeListSays DEF TakeList, panelVars, agentVars, startVars, runVars
<1>15. ASSUME NEW u \in Tasks, Progress(u) PROVE Moved
  BY <1>15, Traffic DEF Silent
<1>16. ASSUME NEW u \in Tasks, Finish(u) PROVE Moved
  BY <1>16, Traffic DEF Silent
<1>17. ASSUME NEW u \in Tasks, End(u) PROVE Moved
  BY <1>17, EndSays
<1>18. ASSUME NEW u \in Scheduled, Tick(u) PROVE Moved
  BY <1>18, Traffic DEF Silent
<1>19. ASSUME NEW u \in Scheduled, StartScheduled(u) PROVE Moved
  BY <1>19, Traffic DEF Silent
<1>20. ASSUME NEW u \in Tasks, Recover(u) PROVE Moved
  BY <1>20, Traffic DEF Silent
<1>21. ASSUME NEW u \in Tasks, Recovered(u) PROVE Moved
  BY <1>21, RecoveredSays
<1>22. CASE PersistEvents
  BY <1>22, Traffic DEF Silent
<1>23. ASSUME NEW o \in outbox, AckEvent(o) PROVE Moved
  BY <1>23, Traffic DEF Silent
<1>24. CASE Connect
  BY <1>24, Traffic DEF Silent
<1>25. CASE Cut
  BY <1>25, Traffic DEF Silent
<1>26. CASE AgentCrash
  BY <1>26, Traffic DEF Silent
<1>27. CASE AgentBoot
  BY <1>27, Traffic DEF Silent
<1>28. CASE PanelRestart
  BY <1>28, Traffic DEF Silent
<1>29. ASSUME NEW u \in asking, OrderTimeout(u) PROVE Moved
  BY <1>29, Traffic DEF Silent
<1>30. CASE ListTimeout
  BY <1>30, Traffic DEF Silent
<1>31. CASE UNCHANGED vars
  BY <1>31, Monotone DEF vars, panelVars, wireVars, agentVars, eventVars
<1> QED
  BY <1>1, <1>2, <1>3, <1>4, <1>5, <1>6, <1>7, <1>8, <1>9, <1>10, <1>11, <1>12, <1>13,
     <1>14, <1>15, <1>16, <1>17, <1>18, <1>19, <1>20, <1>21, <1>22, <1>23, <1>24, <1>25,
     <1>26, <1>27, <1>28, <1>29, <1>30, <1>31 DEF Next, PanelNext, AgentNext, Operator,
     FaultNext

\* What a step may do to the outcomes that are told.
LEMMA ToldMoves ==
    ASSUME TypeOK, [Next]_vars, NEW o \in Outcomes
    PROVE  o \in Told' /\ o \notin Told =>
               \/ /\ End(o.task) /\ o.task \in ending /\ o.task \notin active'
                  /\ starting' = starting
                  /\ o.verdict = journal[o.task].st /\ UNCHANGED <<journal, ran>>
               \/ /\ Recovered(o.task) /\ o.task \in recovering /\ o.verdict = "failed"
                  /\ UNCHANGED <<starting, active, ran>>
<1> DEFINE Moved ==
        o \in Told' /\ o \notin Told =>
            \/ /\ End(o.task) /\ o.task \in ending /\ o.task \notin active'
               /\ starting' = starting
               /\ o.verdict = journal[o.task].st /\ UNCHANGED <<journal, ran>>
            \/ /\ Recovered(o.task) /\ o.task \in recovering /\ o.verdict = "failed"
               /\ UNCHANGED <<starting, active, ran>>
<1>1. ASSUME NEW u \in Orders, Order(u) PROVE Moved
  BY <1>1, OrderSays
<1>2. ASSUME NEW u \in Tasks, Cancel(u) PROVE Moved
  BY <1>2, Traffic DEF Silent
<1>3. CASE TakeReply
  BY <1>3, Traffic DEF Silent
<1>4. CASE TakeProgress
  BY <1>4, Traffic DEF Silent
<1>5. CASE TakeEvent
  BY <1>5, Traffic DEF Silent
<1>6. ASSUME NEW x \in applying, Apply(x) PROVE Moved
  BY <1>6, ApplySays
<1>7. CASE AskList
  BY <1>7, Traffic DEF Silent
<1>8. CASE Reconcile
  BY <1>8, ReconcileSays
<1>9. CASE WriteJournal
  BY <1>9, Traffic DEF Silent
<1>10. CASE TakeOrder
  BY <1>10, TakeOrderSays
<1>11. ASSUME NEW u \in Tasks, Start(u) PROVE Moved
  BY <1>11, StartSays
<1>12. CASE TakeCancel
  BY <1>12, Traffic DEF Silent
<1>13. CASE TakeAck
  BY <1>13, Traffic DEF Silent
<1>14. CASE TakeList
  BY <1>14, TakeListSays
<1>15. ASSUME NEW u \in Tasks, Progress(u) PROVE Moved
  BY <1>15, Traffic DEF Silent
<1>16. ASSUME NEW u \in Tasks, Finish(u) PROVE Moved
  BY <1>16, Traffic DEF Silent
<1>17. ASSUME NEW u \in Tasks, End(u) PROVE Moved
  <2> DEFINE e == [task |-> u, verdict |-> journal[u].st]
  <2>1. Told' \subseteq Told \/ Told' \subseteq Told \cup {e}
    BY <1>17, EndSays
  <2>2. e.task = u /\ e.verdict = journal[u].st
    OBVIOUS
  <2>3. u \in ending /\ u \notin active' /\ UNCHANGED <<starting, journal, ran>>
    BY <1>17 DEF End, startVars
  <2> HIDE DEF e
  <2> QED
    BY <1>17, <2>1, <2>2, <2>3
<1>18. ASSUME NEW u \in Scheduled, Tick(u) PROVE Moved
  BY <1>18, Traffic DEF Silent
<1>19. ASSUME NEW u \in Scheduled, StartScheduled(u) PROVE Moved
  BY <1>19, Traffic DEF Silent
<1>20. ASSUME NEW u \in Tasks, Recover(u) PROVE Moved
  BY <1>20, Traffic DEF Silent
<1>21. ASSUME NEW u \in Tasks, Recovered(u) PROVE Moved
  <2> DEFINE e == [task |-> u, verdict |-> "failed"]
  <2>1. Told' \subseteq Told \cup {e}
    BY <1>21, RecoveredSays
  <2>2. e.task = u /\ e.verdict = "failed"
    OBVIOUS
  <2>3. u \in recovering /\ UNCHANGED <<starting, active, ran>>
    BY <1>21 DEF Recovered, startVars
  <2> HIDE DEF e
  <2> QED
    BY <1>21, <2>1, <2>2, <2>3
<1>22. CASE PersistEvents
  BY <1>22, Traffic DEF Silent
<1>23. ASSUME NEW x \in outbox, AckEvent(x) PROVE Moved
  BY <1>23, Traffic DEF Silent
<1>24. CASE Connect
  BY <1>24, Traffic DEF Silent
<1>25. CASE Cut
  BY <1>25, Traffic DEF Silent
<1>26. CASE AgentCrash
  BY <1>26, Traffic DEF Silent
<1>27. CASE AgentBoot
  BY <1>27, Traffic DEF Silent
<1>28. CASE PanelRestart
  BY <1>28, Traffic DEF Silent
<1>29. ASSUME NEW u \in asking, OrderTimeout(u) PROVE Moved
  BY <1>29, Traffic DEF Silent
<1>30. CASE ListTimeout
  BY <1>30, Traffic DEF Silent
<1>31. CASE UNCHANGED vars
  BY <1>31, Monotone DEF vars, panelVars, wireVars, agentVars, eventVars
<1> QED
  BY <1>1, <1>2, <1>3, <1>4, <1>5, <1>6, <1>7, <1>8, <1>9, <1>10, <1>11, <1>12, <1>13,
     <1>14, <1>15, <1>16, <1>17, <1>18, <1>19, <1>20, <1>21, <1>22, <1>23, <1>24, <1>25,
     <1>26, <1>27, <1>28, <1>29, <1>30, <1>31 DEF Next, PanelNext, AgentNext, Operator,
     FaultNext

\* A row appears for an order, for an outcome, or for a task of the list.
LEMMA RowOpens ==
    ASSUME TypeOK, [Next]_vars, NEW t \in Tasks
    PROVE  row[t] = "none" /\ row'[t] # "none" =>
               \/ t \in Orders /\ Order(t) /\ row'[t] = "pending"
               \/ \E o \in applying : Apply(o) /\ o.task = t /\ o \in Told /\ row'[t] = o.verdict
               \/ /\ Reconcile /\ Head(toPanel).known \in Listed
                  /\ Head(toPanel).known[t] # "none" /\ row'[t] = Head(toPanel).known[t]
<1> DEFINE Moved ==
        row[t] = "none" /\ row'[t] # "none" =>
            \/ t \in Orders /\ Order(t) /\ row'[t] = "pending"
            \/ \E o \in applying : Apply(o) /\ o.task = t /\ o \in Told /\ row'[t] = o.verdict
            \/ /\ Reconcile /\ Head(toPanel).known \in Listed
               /\ Head(toPanel).known[t] # "none" /\ row'[t] = Head(toPanel).known[t]
<1>0. /\ row[t] \in {"none"} \cup Active \cup Final /\ Active \cap Final = {}
      /\ "none" \notin Active \cup Final /\ "failed" \in Final
      /\ {"pending", "running", "stalled"} \subseteq Active
  BY DEF TypeOK, PanelOK, Active, Final
<1>1. ASSUME NEW u \in Orders, Order(u) PROVE Moved
  BY <1>0, <1>1, OrderRows
<1>2. CASE TakeReply
  BY <1>0, <1>2, TakeReplyRows
<1>3. CASE TakeProgress
  BY <1>0, <1>3, TakeProgressRows
<1>4. ASSUME NEW o \in applying, Apply(o) PROVE Moved
  BY <1>0, <1>4, ApplyRows
<1>5. CASE Reconcile
  BY <1>0, <1>5, ReconcileRows
<1>6. CASE Cut
  BY <1>0, <1>6, CloseRows DEF Cut
<1>7. CASE AgentCrash
  BY <1>0, <1>7, CloseRows DEF AgentCrash
<1>8. CASE PanelRestart
  BY <1>0, <1>8, PanelRestartRows
<1>9. ASSUME NEW u \in asking, OrderTimeout(u) PROVE Moved
  BY <1>0, <1>9, OrderTimeoutRows
<1>10. CASE (\E u \in Tasks : Cancel(u)) \/ TakeEvent \/ AskList \/ WriteJournal \/
         TakeOrder \/ (\E u \in Tasks : Start(u)) \/ TakeCancel \/ TakeAck \/ TakeList \/
         (\E u \in Tasks : Progress(u)) \/ (\E u \in Tasks : Finish(u)) \/ (\E u \in Tasks :
         End(u)) \/ (\E u \in Scheduled : Tick(u)) \/ (\E u \in Scheduled :
         StartScheduled(u)) \/ (\E u \in Tasks : Recover(u)) \/ (\E u \in Tasks :
         Recovered(u)) \/ PersistEvents \/ (\E o \in outbox : AckEvent(o)) \/ Connect \/
         AgentBoot \/ ListTimeout
  BY <1>0, <1>10 DEF Cancel, panelVars, TakeEvent, AskList, WriteJournal, TakeOrder,
     Start, TakeCancel, TakeAck, TakeList, Progress, Finish, End, Tick, StartScheduled,
     Recover, Recovered, PersistEvents, AckEvent, Connect, AgentBoot, ListTimeout
<1>11. CASE UNCHANGED vars
  BY <1>0, <1>11 DEF vars, panelVars
<1> QED
  BY <1>1, <1>2, <1>3, <1>4, <1>5, <1>6, <1>7, <1>8, <1>9, <1>10, <1>11 DEF Next,
     PanelNext, AgentNext, Operator, FaultNext

\* An active row is closed before its answer, refused, or settled by an outcome or by the
\* list.
LEMMA RowCloses ==
    ASSUME TypeOK, [Next]_vars, NEW t \in Tasks
    PROVE  row[t] \in Active /\ row'[t] \notin Active =>
               \/ row'[t] = "failed" /\ t \in disowned'
               \/ row'[t] = "failed" /\ TakeReply /\ t \in Refused /\ t \in asking
               \/ \E o \in applying : Apply(o) /\ o.task = t /\ o \in Told /\ row'[t] = o.verdict
               \/ /\ Reconcile /\ Head(toPanel).known \in Listed
                  /\ toPanel # <<>> /\ Head(toPanel) = ListingOf(Head(toPanel).known)
                  /\ \/ Head(toPanel).known[t] = "none" /\ row'[t] = "failed" /\ (t \in
                            asking => t \in disowned')
                     \/ Head(toPanel).known[t] \in Final /\ row'[t] = Head(toPanel).known[t]
<1> DEFINE Moved ==
        row[t] \in Active /\ row'[t] \notin Active =>
            \/ row'[t] = "failed" /\ t \in disowned'
            \/ row'[t] = "failed" /\ TakeReply /\ t \in Refused /\ t \in asking
            \/ \E o \in applying : Apply(o) /\ o.task = t /\ o \in Told /\ row'[t] = o.verdict
            \/ /\ Reconcile /\ Head(toPanel).known \in Listed
               /\ toPanel # <<>> /\ Head(toPanel) = ListingOf(Head(toPanel).known)
               /\ \/ Head(toPanel).known[t] = "none" /\ row'[t] = "failed" /\ (t \in
                         asking => t \in disowned')
                  \/ Head(toPanel).known[t] \in Final /\ row'[t] = Head(toPanel).known[t]
<1>0. /\ row[t] \in {"none"} \cup Active \cup Final /\ Active \cap Final = {}
      /\ "none" \notin Active \cup Final /\ "failed" \in Final
      /\ {"pending", "running", "stalled"} \subseteq Active
  BY DEF TypeOK, PanelOK, Active, Final
<1>1. ASSUME NEW u \in Orders, Order(u) PROVE Moved
  BY <1>0, <1>1, OrderRows
<1>2. CASE TakeReply
  BY <1>0, <1>2, TakeReplyRows
<1>3. CASE TakeProgress
  BY <1>0, <1>3, TakeProgressRows
<1>4. ASSUME NEW o \in applying, Apply(o) PROVE Moved
  BY <1>0, <1>4, ApplyRows
<1>5. CASE Reconcile
  <2> DEFINE known == Head(toPanel).known
  <2>1. known \in Listed /\ toPanel # <<>> /\ Head(toPanel) = ListingOf(known)
    BY <1>5, ReconcileRows
  <2>2. \/ row'[t] = row[t]
        \/ row[t] \in Active /\ known[t] = "none" /\ row'[t] = "failed"
        \/ row[t] \notin Final /\ known[t] # "none" /\ row'[t] = known[t]
    BY <1>5, ReconcileRows
  <2>3. known[t] \in {"none", "running"} \cup Final
    BY <2>1 DEF Listed, Known
  <2>4. t \in asking /\ row'[t] \in Final => t \in disowned'
    BY <1>5 DEF Reconcile
  <2> HIDE DEF known
  <2>5. row[t] \in Active /\ row'[t] \notin Active =>
            \/ known[t] = "none" /\ row'[t] = "failed" /\ (t \in asking => t \in disowned')
            \/ known[t] \in Final /\ row'[t] = known[t]
    BY <1>0, <2>2, <2>3, <2>4
  <2> QED
    BY <1>5, <2>1, <2>5 DEF known
<1>6. CASE Cut
  BY <1>0, <1>6, CloseRows DEF Cut
<1>7. CASE AgentCrash
  BY <1>0, <1>7, CloseRows DEF AgentCrash
<1>8. CASE PanelRestart
  BY <1>0, <1>8, PanelRestartRows
<1>9. ASSUME NEW u \in asking, OrderTimeout(u) PROVE Moved
  BY <1>0, <1>9, OrderTimeoutRows DEF OrderTimeout
<1>10. CASE (\E u \in Tasks : Cancel(u)) \/ TakeEvent \/ AskList \/ WriteJournal \/
         TakeOrder \/ (\E u \in Tasks : Start(u)) \/ TakeCancel \/ TakeAck \/ TakeList \/
         (\E u \in Tasks : Progress(u)) \/ (\E u \in Tasks : Finish(u)) \/ (\E u \in Tasks :
         End(u)) \/ (\E u \in Scheduled : Tick(u)) \/ (\E u \in Scheduled :
         StartScheduled(u)) \/ (\E u \in Tasks : Recover(u)) \/ (\E u \in Tasks :
         Recovered(u)) \/ PersistEvents \/ (\E o \in outbox : AckEvent(o)) \/ Connect \/
         AgentBoot \/ ListTimeout
  BY <1>0, <1>10 DEF Cancel, panelVars, TakeEvent, AskList, WriteJournal, TakeOrder,
     Start, TakeCancel, TakeAck, TakeList, Progress, Finish, End, Tick, StartScheduled,
     Recover, Recovered, PersistEvents, AckEvent, Connect, AgentBoot, ListTimeout
<1>11. CASE UNCHANGED vars
  BY <1>0, <1>11 DEF vars, panelVars
<1> QED
  BY <1>1, <1>2, <1>3, <1>4, <1>5, <1>6, <1>7, <1>8, <1>9, <1>10, <1>11 DEF Next,
     PanelNext, AgentNext, Operator, FaultNext

\* An agent starts or crashes, or is as it was.
LEMMA UpMoves ==
    ASSUME TypeOK, [Next]_vars
    PROVE  \/ up' = up
           \/ AgentBoot /\ ~up
           \/ AgentCrash /\ ~up'
<1> DEFINE Moved ==
        \/ up' = up
        \/ AgentBoot /\ ~up
        \/ AgentCrash /\ ~up'
<1>1. CASE AgentCrash
  BY <1>1 DEF AgentCrash
<1>2. CASE AgentBoot
  BY <1>2 DEF AgentBoot
<1>3. CASE (\E u \in Orders : Order(u)) \/ (\E u \in Tasks : Cancel(u)) \/
         TakeReply \/ TakeProgress \/ TakeEvent \/ (\E o \in applying : Apply(o)) \/ AskList
         \/ Reconcile \/ WriteJournal \/ TakeOrder \/ (\E u \in Tasks : Start(u)) \/
         TakeCancel \/ TakeAck \/ TakeList \/ (\E u \in Tasks : Progress(u)) \/ (\E u \in
         Tasks : Finish(u)) \/ (\E u \in Tasks : End(u)) \/ (\E u \in Scheduled : Tick(u))
         \/ (\E u \in Scheduled : StartScheduled(u)) \/ (\E u \in Tasks : Recover(u)) \/ (\E
         u \in Tasks : Recovered(u)) \/ PersistEvents \/ (\E o \in outbox : AckEvent(o)) \/
         Connect \/ Cut \/ PanelRestart \/ (\E u \in asking : OrderTimeout(u)) \/
         ListTimeout
  BY <1>3 DEF Order, agentVars, Cancel, TakeReply, TakeProgress, TakeEvent, Apply,
     AskList, Reconcile, WriteJournal, TakeOrder, Start, TakeCancel, TakeAck, TakeList,
     Progress, Finish, End, Tick, StartScheduled, Recover, Recovered, PersistEvents,
     AckEvent, Connect, Cut, PanelRestart, OrderTimeout, ListTimeout
<1>4. CASE UNCHANGED vars
  BY <1>4 DEF vars, agentVars
<1> QED
  BY <1>1, <1>2, <1>3, <1>4 DEF Next, PanelNext, AgentNext, Operator, FaultNext

\* What a step may do to the orders whose answer is awaited.
LEMMA AskingMoves ==
    ASSUME TypeOK, [Next]_vars, NEW t \in Tasks
    PROVE  /\ t \in asking' /\ t \notin asking => t \in Orders /\ Order(t)
           /\ t \in asking /\ t \notin asking' =>
                  \/ t \in disowned'
                  \/ TakeReply /\ t = Head(toPanel).task
                  \/ toAgent' = <<>> /\ toPanel' = <<>>
           /\ t \in disowned => t \in disowned'
           /\ t \in disowned' /\ t \notin disowned => t \in asking
<1> DEFINE Moved ==
        /\ t \in asking' /\ t \notin asking => t \in Orders /\ Order(t)
        /\ t \in asking /\ t \notin asking' =>
               \/ t \in disowned'
               \/ TakeReply /\ t = Head(toPanel).task
               \/ toAgent' = <<>> /\ toPanel' = <<>>
        /\ t \in disowned => t \in disowned'
        /\ t \in disowned' /\ t \notin disowned => t \in asking
<1>1. ASSUME NEW u \in Orders, Order(u) PROVE Moved
  BY <1>1 DEF Order, histVars
<1>2. CASE TakeReply
  BY <1>2 DEF TakeReply, histVars
<1>3. CASE Reconcile
  BY <1>3 DEF Reconcile
<1>4. CASE Cut
  BY <1>4 DEF Cut, Close
<1>5. CASE AgentCrash
  BY <1>5 DEF AgentCrash, Close
<1>6. CASE PanelRestart
  BY <1>6 DEF PanelRestart, Unplugged
<1>7. ASSUME NEW u \in asking, OrderTimeout(u) PROVE Moved
  BY <1>7 DEF OrderTimeout
<1>8. CASE (\E u \in Tasks : Cancel(u)) \/ TakeProgress \/ TakeEvent \/ (\E o \in
         applying : Apply(o)) \/ AskList \/ WriteJournal \/ TakeOrder \/ (\E u \in Tasks :
         Start(u)) \/ TakeCancel \/ TakeAck \/ TakeList \/ (\E u \in Tasks : Progress(u)) \/
         (\E u \in Tasks : Finish(u)) \/ (\E u \in Tasks : End(u)) \/ (\E u \in Scheduled :
         Tick(u)) \/ (\E u \in Scheduled : StartScheduled(u)) \/ (\E u \in Tasks :
         Recover(u)) \/ (\E u \in Tasks : Recovered(u)) \/ PersistEvents \/ (\E o \in outbox
         : AckEvent(o)) \/ Connect \/ AgentBoot \/ ListTimeout
  BY <1>8 DEF Cancel, panelVars, TakeProgress, histVars, TakeEvent, Apply, AskList,
     WriteJournal, TakeOrder, Start, TakeCancel, TakeAck, TakeList, Progress, Finish, End,
     Tick, StartScheduled, Recover, Recovered, PersistEvents, AckEvent, Connect, AgentBoot,
     ListTimeout
<1>9. CASE UNCHANGED vars
  BY <1>9 DEF vars, panelVars, histVars
<1> QED
  BY <1>1, <1>2, <1>3, <1>4, <1>5, <1>6, <1>7, <1>8, <1>9 DEF Next, PanelNext, AgentNext,
     Operator, FaultNext

-----------------------------------------------------------------------------
(* The core of the invariant.                                              *)

\* A task that begins was ahead, and is not any more.
LEMMA Begins ==
    ASSUME TypeOK, TypeOK', Single, Rowed, [Next]_vars, NEW t \in Tasks,
           \/ TakeOrder /\ t = Head(toAgent).task /\ t \in Ordered
           \/ t \in Scheduled /\ StartScheduled(t) /\ t \in marking
    PROVE  t \in Ahead /\ t \notin Ahead'
<1>1. CASE TakeOrder /\ t = Head(toAgent).task /\ t \in Ordered
  <2>1. t \in Orders /\ row'[t] # "none"
    BY <1>1, RowMoves DEF Rowed, Ordered
  <2>2. t \notin Ordered'
    BY <1>1, TakenOnce
  <2>3. t \notin due' \cup marking'
    BY <2>1, TasksAssumption DEF TypeOK, StartOK
  <2> QED
    BY <1>1, <2>1, <2>2, <2>3 DEF Ahead
<1>2. CASE t \in Scheduled /\ StartScheduled(t) /\ t \in marking
  <2>1. t \notin Orders
    BY <1>2, TasksAssumption
  <2>2. t \notin due' /\ t \notin marking'
    BY <1>2 DEF StartScheduled, Rowed
  <2> QED
    BY <1>2, <2>1, <2>2 DEF Ahead, Ordered
<1> QED
  BY <1>1, <1>2

\* Nothing returns to what is ahead.
LEMMA AheadShrinks ==
    ASSUME TypeOK, [Next]_vars, NEW t \in Tasks, t \in Ahead'
    PROVE  t \in Ahead
<1>1. ASSUME t \in Orders, row'[t] = "none" PROVE t \in Ahead
  BY <1>1, RowMoves DEF Ahead
<1>2. ASSUME t \in Ordered' PROVE t \in Ahead
  <2>1. CASE t \in Ordered
    BY <2>1 DEF Ahead
  <2>2. CASE t \notin Ordered
    <3>1. Order(t) /\ t \in Orders
      BY <1>2, <2>2, OrderedMoves
    <3> QED
      BY <3>1 DEF Ahead, Order
  <2> QED
    BY <2>1, <2>2
<1>3. ASSUME t \in due' \cup marking' PROVE t \in Ahead
  BY <1>3, StartMoves DEF Ahead
<1> QED
  BY <1>1, <1>2, <1>3 DEF Ahead

\* An occurrence that is ahead has no row, and gets none.
LEMMA RowedStep ==
    ASSUME TypeOK, TypeOK', Rowed, Untouched, [Next]_vars
    PROVE  Rowed'
<1>1. ASSUME NEW t \in Ordered' PROVE row'[t] # "none"
  <2>1. t \in Tasks /\ t \in Orders
    BY Domains DEF Ordered
  <2>2. CASE t \in Ordered
    BY <2>1, <2>2, RowMoves DEF Rowed
  <2>3. CASE t \notin Ordered
    <3>1. Order(t)
      BY <1>1, <2>1, <2>3, OrderedMoves
    <3> QED
      BY <2>1, <3>1, OrderRows
  <2> QED
    BY <2>2, <2>3
<1>2. ASSUME NEW t \in due' \cup marking' PROVE row'[t] = "none"
  <2>1. t \in Scheduled /\ t \in Tasks /\ t \notin Orders
    BY TasksAssumption DEF TypeOK, StartOK, Tasks
  <2>2. t \in due \cup marking
    BY <2>1, StartMoves
  <2>3. row[t] = "none" /\ t \in Ahead
    BY <2>2 DEF Rowed, Ahead
  <2>4. /\ \A o \in Told : o.task # t
        /\ \A known \in Listed : known[t] = "none"
    BY <2>3 DEF Untouched
  <2> QED
    BY <2>1, <2>3, <2>4, RowOpens
<1>3. due' \cap marking' = {}
  <2> SUFFICES ASSUME NEW t \in due', t \in marking' PROVE FALSE
    OBVIOUS
  <2>1. t \in Tasks
    BY DEF TypeOK, StartOK, Tasks
  <2> QED
    BY <2>1, StartMoves DEF Rowed
<1> QED
  BY <1>1, <1>2, <1>3 DEF Rowed

\* Nothing of a task appears before it begins.
LEMMA UntouchedStep ==
    ASSUME TypeOK, TypeOK', Single, Rowed, Untouched, Running, [Next]_vars
    PROVE  Untouched'
<1> SUFFICES ASSUME NEW t \in Ahead'
             PROVE  /\ journal'[t].st = "none" /\ disk'[t].st = "none" /\ ran'[t] = "none"
                    /\ t \notin (starting \cup active \cup recovering \cup answering)'
                    /\ t \notin (Accepted \cup Refused)'
                    /\ \A o \in Told' : o.task # t
                    /\ \A known \in Listed' : known[t] = "none"
  BY DEF Untouched
<1>1. t \in Tasks /\ (t \in Scheduled => t \notin Orders)
  BY TasksAssumption DEF Ahead, Ordered, TypeOK, StartOK, Tasks
<1>2. t \in Ahead
  BY <1>1, AheadShrinks
<1>3. /\ journal[t].st = "none" /\ disk[t].st = "none" /\ ran[t] = "none"
      /\ t \notin starting \cup active \cup recovering \cup answering
      /\ t \notin Accepted \cup Refused
      /\ \A o \in Told : o.task # t
      /\ \A known \in Listed : known[t] = "none"
  BY <1>2 DEF Untouched
<1>4. ~(TakeOrder /\ t = Head(toAgent).task /\ t \in Ordered)
  BY <1>1, Begins
<1>5. ~(t \in Scheduled /\ StartScheduled(t) /\ t \in marking)
  BY <1>1, Begins
<1>6. journal'[t].st = "none"
  BY <1>1, <1>3, <1>4, <1>5, JournalMoves, Blank
<1>7. disk'[t].st = "none"
  BY <1>3, DiskMoves
<1>8. ran'[t] = "none"
  BY <1>1, <1>3, RanMoves
<1>9. t \notin starting' /\ t \notin answering'
  BY <1>1, <1>3, <1>4, <1>5, StartMoves
<1>10. t \notin active' /\ t \notin recovering'
  BY <1>1, <1>3, <1>6, RunMoves
<1>11. t \notin Accepted' /\ t \notin Refused'
  BY <1>1, <1>3, <1>4, AnswerMoves
<1>12. ASSUME NEW o \in Told' PROVE o.task # t
  <2>1. o \in Outcomes
    BY DEF Told, TypeOK, PanelOK, EventOK
  <2>2. ending \subseteq active
    BY Domains
  <2> QED
    BY <1>3, <1>12, <2>1, <2>2, ToldMoves
<1>13. ASSUME NEW known \in Listed' PROVE known[t] = "none"
  BY <1>1, <1>3, <1>13, ListedMoves
<1> QED
  BY <1>6, <1>7, <1>8, <1>9, <1>10, <1>11, <1>12, <1>13

\* An agent that is down keeps nothing but its disk.
LEMMA DownStep ==
    ASSUME TypeOK, Down, [Next]_vars
    PROVE  Down'
<1>1. CASE TakeReply
  BY <1>1, Counters DEF TakeReply, HeadIs, MarkRunning, Settled, agentVars, Active,
     startVars, runVars, Down
<1>2. CASE TakeProgress
  BY <1>2, Counters DEF TakeProgress, HeadIs, Settled, agentVars, Active, startVars,
     runVars, Down
<1>3. CASE TakeEvent
  BY <1>3, Counters DEF TakeEvent, HeadIs, agentVars, startVars, runVars, Down
<1>4. CASE AskList
  BY <1>4, Counters DEF AskList, agentVars, Online, startVars, runVars, Down
<1>5. CASE Reconcile
  BY <1>5, Counters DEF Reconcile, HeadIs, Reconciled, AckAll, Tasks, Final, agentVars,
     Active, Online, startVars, runVars, Down
<1>6. CASE TakeOrder
  BY <1>6, Counters DEF TakeOrder, HeadIs, Busy, SendPanel, Fresh, panelVars, runVars,
     Online, Down
<1>7. ASSUME NEW t \in Tasks, Start(t) PROVE Down'
  BY <1>7, Counters DEF Start, Written, panelVars, Down
<1>8. CASE TakeList
  BY <1>8, Counters DEF TakeList, HeadIs, SendPanel, Tasks, panelVars, agentVars,
     Online, startVars, runVars, Down
<1>9. ASSUME NEW t \in Tasks, Progress(t) PROVE Down'
  BY <1>9, Counters DEF Progress, Online, SendPanel, panelVars, agentVars, startVars,
     runVars, Down
<1>10. ASSUME NEW t \in Tasks, End(t) PROVE Down'
  BY <1>10, Counters DEF End, Written, Emit, panelVars, startVars, SendPanel, Online,
     Down
<1>11. ASSUME NEW t \in Scheduled, Tick(t) PROVE Down'
  BY <1>11, Counters DEF Tick, Busy, panelVars, wireVars, runVars, Down
<1>12. ASSUME NEW t \in Scheduled, StartScheduled(t) PROVE Down'
  BY <1>12, Counters DEF StartScheduled, Fresh, panelVars, wireVars, runVars, Down
<1>13. ASSUME NEW t \in Tasks, Recovered(t) PROVE Down'
  BY <1>13, Counters DEF Recovered, Written, Emit, panelVars, startVars, SendPanel,
     Online, Down
<1>14. CASE Connect
  BY <1>14, Counters DEF Connect, Online, agentVars, startVars, runVars, Down
<1>15. CASE Cut
  BY <1>15, Counters DEF Cut, Online, Close, runVars, Tasks, Settled, Stalled,
     Unplugged, Active, Down
<1>16. CASE AgentCrash
  BY <1>16, Counters DEF AgentCrash, Close, Tasks, Settled, Stalled, Unplugged, Active,
     Down
<1>17. CASE AgentBoot
  BY <1>17, Counters DEF AgentBoot, Purged, Tasks, panelVars, wireVars, startVars,
     Final, NoEntry, Down
<1>18. CASE PanelRestart
  BY <1>18, Counters DEF PanelRestart, Stalled, Unplugged, runVars, Tasks, Active, Down
<1>19. CASE ListTimeout
  BY <1>19, Counters DEF ListTimeout, wireVars, agentVars, startVars, runVars, Down
<1>20. CASE (\E t \in Orders : Order(t)) \/ (\E t \in Tasks : Cancel(t)) \/ (\E o
       \in applying : Apply(o)) \/ WriteJournal \/ TakeCancel \/ TakeAck \/ (\E t \in
       Tasks : Finish(t)) \/ (\E t \in Tasks : Recover(t)) \/ PersistEvents \/ (\E o \in
       outbox : AckEvent(o)) \/ (\E t \in asking : OrderTimeout(t))
  BY <1>20 DEF Order, agentVars, startVars, runVars, Cancel, panelVars, Apply,
     WriteJournal, wireVars, TakeCancel, TakeAck, Finish, Recover, PersistEvents,
     AckEvent, OrderTimeout, Down
<1>21. CASE UNCHANGED vars
  BY <1>21 DEF vars, panelVars, wireVars, startVars, runVars, agentVars, Down
<1> QED
  BY <1>1, <1>2, <1>3, <1>4, <1>5, <1>6, <1>7, <1>8, <1>9, <1>10, <1>11, <1>12, <1>13,
     <1>14, <1>15, <1>16, <1>17, <1>18, <1>19, <1>20, <1>21 DEF Next, PanelNext,
     AgentNext, Operator, FaultNext

\* What becomes of a task that is launched.
LEMMA LaunchedMoves ==
    ASSUME TypeOK, TypeOK', Single, Rowed, Untouched, Down, Running, [Next]_vars,
           NEW t \in Tasks, t \in Launched'
    PROVE  /\ ran'[t] = "none" /\ journal'[t].st = "running"
           /\ \/ t \in Launched /\ journal[t].st = "running"
              \/ /\ t \in Ahead /\ t \notin Launched /\ journal'[t] = Fresh /\ t \in starting'
                 /\ \/ TakeOrder /\ t = Head(toAgent).task /\ t \in Ordered /\ ~Busy(t)
                    \/ t \in Scheduled /\ StartScheduled(t) /\ t \in marking
<1> DEFINE Begun ==
        \/ TakeOrder /\ t = Head(toAgent).task /\ t \in Ordered /\ ~Busy(t)
        \/ t \in Scheduled /\ StartScheduled(t) /\ t \in marking
<1>1. ASSUME Begun
      PROVE  /\ t \in Ahead /\ t \notin starting \cup active \cup recovering
             /\ journal[t].st = "none" /\ ran[t] = "none"
  BY <1>1, Begins DEF Untouched
<1>2. ending \subseteq active /\ ending' \subseteq active'
  BY DEF TypeOK, RunOK
<1>3. CASE t \in starting' /\ t \notin starting
  <2>1. Begun /\ journal'[t] = Fresh
    BY <1>3, StartMoves
  <2>2. ran'[t] = "none"
    BY <1>1, <1>2, <2>1, RanMoves
  <2> QED
    BY <1>1, <1>3, <2>1, <2>2, Blank DEF Launched
<1>4. CASE t \in starting \/ (t \in active' /\ t \notin active)
  <2>1. t \in starting
    BY <1>4, RunMoves
  <2>2. /\ journal[t].st = "running" /\ ran[t] = "none" /\ t \in Launched /\ up
        /\ t \notin active /\ t \notin recovering
    BY <2>1 DEF Running, Launched, Down
  <2>3. ran'[t] = "none"
    BY <2>2, RanMoves
  <2>4. journal'[t].st = "running"
    BY <2>2, JournalMoves, Blank
  <2> QED
    BY <2>2, <2>3, <2>4
<1>5. CASE t \notin starting' /\ t \in active'
  <2>1. CASE t \notin active
    BY <1>4, <1>5, <2>1
  <2>2. CASE t \in active
    <3>1. t \notin ending' /\ t \notin ending
      BY <1>5, RunMoves DEF Launched
    <3>2. /\ journal[t].st = "running" /\ ran[t] = "none" /\ t \in Launched /\ up
          /\ t \notin recovering
      BY <2>2, <3>1 DEF Running, Launched, Down
    <3>3. ~Finish(t)
      BY <3>1, FinishWrites
    <3>4. ran'[t] = "none"
      BY <3>2, <3>3, RanMoves
    <3>5. journal'[t].st = "running"
      BY <3>2, <3>3, JournalMoves, Blank
    <3> QED
      BY <3>2, <3>4, <3>5
  <2> QED
    BY <2>1, <2>2
<1> QED
  BY <1>3, <1>4, <1>5 DEF Launched

\* A task that runs has its own record, on the disk as soon as it runs.
LEMMA RunningStep ==
    ASSUME TypeOK, TypeOK', Single, Rowed, Untouched, Down, Running, [Next]_vars
    PROVE  Running'
<1>0. /\ ending \subseteq active /\ ending' \subseteq active'
      /\ active' \subseteq Tasks /\ starting' \subseteq Tasks /\ recovering' \subseteq Tasks
  BY DEF TypeOK, StartOK, RunOK
<1>1. starting' \cap active' = {}
  <2> SUFFICES ASSUME NEW t \in starting', t \in active' PROVE FALSE
    OBVIOUS
  <2>1. t \in Tasks
    BY <1>0
  <2>2. t \in active
    BY <2>1, RunMoves
  <2>3. t \notin starting
    BY <2>2 DEF Running
  <2>4. t \in Ahead
    BY <2>1, <2>3, StartMoves, Begins
  <2> QED
    BY <2>2, <2>4 DEF Untouched
<1>2. (starting' \cup active') \cap recovering' = {}
  <2> SUFFICES ASSUME NEW t \in starting' \cup active', t \in recovering' PROVE FALSE
    OBVIOUS
  <2>1. t \in Tasks
    BY <1>0
  <2>2. CASE t \notin recovering
    <3>1. AgentBoot
      BY <2>1, <2>2, RunMoves
    <3> QED
      BY <3>1 DEF AgentBoot, startVars, Down
  <2>3. CASE t \in recovering
    <3>1. t \notin starting /\ t \notin active
      BY <2>3 DEF Running
    <3>2. t \in starting'
      BY <2>1, <3>1, RunMoves
    <3>3. t \in Ahead
      BY <2>1, <3>1, <3>2, StartMoves, Begins
    <3> QED
      BY <2>3, <3>3 DEF Untouched
  <2> QED
    BY <2>2, <2>3
<1>3. ASSUME NEW t \in Launched' PROVE journal'[t].st = "running" /\ ran'[t] = "none"
  BY <1>0, LaunchedMoves DEF Launched
<1>4. ASSUME NEW t \in active' \ ending' PROVE disk'[t].st # "none"
  <2>1. t \in Tasks
    BY <1>0
  <2>2. CASE t \notin active
    BY <1>4, <2>1, <2>2, RunMoves DEF Running, Launched
  <2>3. CASE t \in active
    <3>1. t \notin ending
      BY <1>4, <2>1, RunMoves
    <3>2. disk[t].st # "none" /\ journal[t].st = "running"
      BY <2>3, <3>1 DEF Running, Launched
    <3> QED
      BY <3>2, DiskMoves
  <2> QED
    BY <2>2, <2>3
<1>5. ASSUME NEW t \in ending' PROVE journal'[t].st # "running"
  <2>1. t \in Tasks
    BY <1>0
  <2>2. CASE t \notin ending
    BY <1>5, <2>1, <2>2, RunMoves, Blank
  <2>3. CASE t \in ending
    <3>1. journal[t].st # "running" /\ t \in active /\ up
      BY <1>0, <2>3 DEF Running, Down
    <3>2. t \notin Ahead
      BY <3>1 DEF Untouched
    <3>3. ~(TakeOrder /\ t = Head(toAgent).task /\ t \in Ordered)
      BY <2>1, <3>2, Begins
    <3>4. ~(t \in Scheduled /\ StartScheduled(t) /\ t \in marking)
      BY <2>1, <3>2, Begins
    <3> QED
      BY <2>1, <3>1, <3>3, <3>4, JournalMoves, Blank
  <2> QED
    BY <2>2, <2>3
<1> QED
  BY <1>1, <1>2, <1>3, <1>4, <1>5 DEF Running

\* The core of the invariant: the types, and what holds of a task until it begins and while it
\* runs.
THEOREM CoreHolds == Spec => []Core
<1>1. Init => Core
  <2> SUFFICES ASSUME Init PROVE Core
    OBVIOUS
  <2>1. TypeOK
    BY TasksAssumption DEF Init, TypeOK, PanelOK, WireOK, JournalOK, StartOK, RunOK, EventOK,
       HistoryOK, Tasks, Entries, NoEntry
  <2>2. toAgent = <<>> /\ toPanel = <<>> /\ Len(<<>>) = 0 /\ ToSet(<<>>) = {}
    BY Channels, <2>1 DEF Init
  <2>3. Single
    BY <2>2 DEF Single, Unrepeated
  <2>4. Ordered = {} /\ Accepted = {} /\ Refused = {} /\ Listed = {} /\ Told = {}
    BY <2>2 DEF Init, Ordered, Accepted, Refused, Listed, Told
  <2>5. Rowed
    BY <2>4, TasksAssumption DEF Init, Rowed, Tasks
  <2>6. Untouched
    BY <2>4 DEF Init, Untouched, Ahead, Tasks, NoEntry
  <2>7. Down /\ Running
    BY DEF Init, Down, Running, Launched
  <2> QED
    BY <2>1, <2>3, <2>5, <2>6, <2>7 DEF Core
<1>2. Core /\ [Next]_vars => Core'
  <2> SUFFICES ASSUME Core, [Next]_vars PROVE Core'
    OBVIOUS
  <2>1. TypeOK /\ Single /\ Rowed /\ Untouched /\ Down /\ Running
    BY DEF Core
  <2>2. TypeOK'
    BY <2>1, TypeStep
  <2>3. Single' /\ Rowed' /\ Untouched' /\ Down' /\ Running'
    BY <2>1, <2>2, SingleStep, RowedStep, UntouchedStep, DownStep, RunningStep
  <2> QED
    BY <2>2, <2>3 DEF Core
<1> QED
  BY <1>1, <1>2, PTL DEF Spec

\* The variables keep their types.
THEOREM TypeCorrect == Spec => []TypeOK
<1>1. Core => TypeOK
  BY DEF Core
<1> QED
  BY <1>1, CoreHolds, PTL

\* A task runs only once tasks.json tells so.
THEOREM RunningIsWrittenHolds == Spec => []RunningIsWritten
<1>1. Core => RunningIsWritten
  BY DEF Core, Running, RunningIsWritten
<1> QED
  BY <1>1, CoreHolds, PTL

\* A row that has an outcome keeps it.
THEOREM FinalIsFinalHolds == Spec => FinalIsFinal
<1>1. TypeOK /\ [Next]_vars => [\A t \in Tasks : row[t] \in Final => row'[t] = row[t]]_vars
  BY RowMoves
<1> QED
  BY <1>1, TypeCorrect, PTL DEF Spec, FinalIsFinal

-----------------------------------------------------------------------------
(* What is told, and what is forgotten.                                    *)

\* What was real of a task stays so: its executor ends once, and nothing was said of it before.
LEMMA RealKept ==
    ASSUME TypeOK, Running, [Next]_vars, NEW t \in Tasks, NEW st, IsReal(t, st)
    PROVE  st \in {"done", "cancelled"} => ran'[t] = st
<1>1. CASE ran'[t] = ran[t]
  BY <1>1 DEF IsReal
<1>2. CASE ran'[t] # ran[t]
  <2>1. t \in active \ ending
    BY <1>2, RanMoves
  <2>2. ran[t] = "none"
    BY <2>1 DEF Running, Launched
  <2> QED
    BY <2>2 DEF IsReal
<1> QED
  BY <1>1, <1>2

\* Nobody tells a success, or a cancellation, before the executor reached it.
THEOREM RealHolds == Spec => []Real
<1>1. Init => Real
  <2> SUFFICES ASSUME Init PROVE Real
    OBVIOUS
  <2>1. Told = {} /\ Listed = {}
    BY DEF Init, Told, Listed, ToSet
  <2> QED
    BY <2>1 DEF Init, Real, IsReal, Tasks, NoEntry
<1>2. Core /\ Core' /\ Real /\ [Next]_vars => Real'
  <2> SUFFICES ASSUME TypeOK, TypeOK', Running, Real, [Next]_vars
               PROVE  Real'
    BY DEF Core
  <2>1. \A t \in Tasks : /\ IsReal(t, row[t]) /\ IsReal(t, journal[t].st)
                         /\ IsReal(t, disk[t].st)
    BY DEF Real
  <2>2. \A o \in Told : IsReal(o.task, o.verdict) /\ o.task \in Tasks
    BY Domains, Outcome DEF Real
  <2>3. \A known \in Listed : \A t \in Tasks : IsReal(t, known[t])
    BY DEF Real
  <2>4. ASSUME NEW t \in Tasks
        PROVE  /\ row'[t] \in {"done", "cancelled"} => ran'[t] = row'[t]
               /\ journal'[t].st \in {"done", "cancelled"} => ran'[t] = journal'[t].st
               /\ disk'[t].st \in {"done", "cancelled"} => ran'[t] = disk'[t].st
    <3> DEFINE Now(st) == st \in {"done", "cancelled"} => ran'[t] = st
    <3>1. Now(row[t]) /\ Now(journal[t].st) /\ Now(disk[t].st)
      BY <2>1, RealKept
    <3>2. \A o \in Told : o.task = t => Now(o.verdict)
      BY <2>2, RealKept
    <3>3. \A known \in Listed : Now(known[t])
      BY <2>3, RealKept
    <3>4. Now("none") /\ Now("pending") /\ Now("running") /\ Now("stalled") /\ Now("failed")
      OBVIOUS
    <3>5. \A st \in Active : Now(st)
      BY <3>4 DEF Active
    <3> HIDE DEF Now
    <3>6. Now(row'[t])
      <4>1. CASE row[t] \in Final
        BY <3>1, <4>1, RowMoves
      <4>2. CASE row[t] \in Active
        BY <3>2, <3>3, <3>4, <3>5, <4>2, RowCloses
      <4>3. CASE row[t] = "none"
        BY <3>1, <3>2, <3>3, <3>4, <4>3, RowOpens
      <4> QED
        BY <4>1, <4>2, <4>3 DEF TypeOK, PanelOK
    <3>7. Now(journal'[t].st)
      <4>1. Now(Fresh.st)
        BY <3>4, Blank
      <4>2. CASE Finish(t)
        <5>1. journal'[t].st = ran'[t]
          BY <4>2, FinishWrites
        <5> QED
          BY <5>1 DEF Now
      <4>3. CASE ~Finish(t)
        BY <3>1, <3>4, <4>1, <4>3, JournalMoves
      <4> QED
        BY <4>2, <4>3
    <3>8. Now(disk'[t].st)
      BY <3>1, DiskMoves
    <3> QED
      BY <3>6, <3>7, <3>8 DEF Now
  <2>5. ASSUME NEW o \in Told'
        PROVE  o.verdict \in {"done", "cancelled"} => ran'[o.task] = o.verdict
    <3>1. o \in Outcomes /\ o.task \in Tasks
      BY Outcome DEF Told, TypeOK, PanelOK, EventOK
    <3>2. CASE o \in Told
      BY <2>2, <3>1, <3>2, RealKept
    <3>3. CASE o \notin Told
      BY <2>4, <3>1, <3>3, ToldMoves
    <3> QED
      BY <3>2, <3>3
  <2>6. ASSUME NEW known \in Listed', NEW t \in Tasks
        PROVE  known[t] \in {"done", "cancelled"} => ran'[t] = known[t]
    <3>1. CASE known \in Listed
      BY <2>3, <3>1, RealKept
    <3>2. CASE known \notin Listed
      BY <2>4, <2>6, <3>2, ListedMoves
    <3> QED
      BY <3>1, <3>2
  <2> QED
    BY <2>4, <2>5, <2>6 DEF Real, IsReal
<1> QED
  BY <1>1, <1>2, CoreHolds, PTL DEF Spec

\* The panel reports as done, or as cancelled, only what an executor ended so.
THEOREM SuccessIsRealHolds == Spec => []SuccessIsReal
<1>1. Real => SuccessIsReal
  BY DEF Real, IsReal, SuccessIsReal
<1> QED
  BY <1>1, RealHolds, PTL

\* The panel acknowledges what is settled, and the agent forgets what is acknowledged.
THEOREM AckedHolds == Spec => []Acked
<1>1. Init => Acked
  <2> SUFFICES ASSUME Init PROVE Acked
    OBVIOUS
  <2>1. Acknowledged = {}
    BY DEF Init, Acknowledged, ToSet
  <2> QED
    BY <2>1 DEF Init, Acked, ForgottenIsSettled, NoEntry
<1>2. Core /\ Acked /\ [Next]_vars => Acked'
  <2> SUFFICES ASSUME TypeOK, Running, Acked, [Next]_vars
               PROVE  Acked'
    BY DEF Core
  <2> SUFFICES ASSUME NEW t \in Tasks
               PROVE  /\ t \in Acknowledged' => row'[t] \in Final
                      /\ journal'[t].st # "none" /\ journal'[t].acked => row'[t] \in Final
                      /\ disk'[t].st # "none" /\ disk'[t].acked => row'[t] \in Final
                      /\ ran'[t] # "none" /\ disk'[t].st = "none" => row'[t] \in Final
                      /\ up' /\ ran'[t] # "none" /\ journal'[t].st = "none" => row'[t] \in Final
    BY DEF Acked, ForgottenIsSettled, Acknowledged
  <2>1. /\ t \in Acknowledged => row[t] \in Final
        /\ journal[t].st # "none" /\ journal[t].acked => row[t] \in Final
        /\ disk[t].st # "none" /\ disk[t].acked => row[t] \in Final
        /\ ran[t] # "none" /\ disk[t].st = "none" => row[t] \in Final
        /\ up /\ ran[t] # "none" /\ journal[t].st = "none" => row[t] \in Final
    BY DEF Acked, ForgottenIsSettled
  <2>2. row[t] \in Final => row'[t] \in Final
    BY RowMoves
  <2>3. t \in active \ ending => journal[t].st = "running" /\ disk[t].st # "none"
    BY DEF Running, Launched
  <2>4. t \in Acknowledged' => row'[t] \in Final
    BY <2>1, <2>2, OrderedMoves
  <2>5. journal'[t].st # "none" /\ journal'[t].acked => row'[t] \in Final
    BY <2>1, <2>2, <2>3, JournalMoves, Blank
  <2>6. disk'[t].st # "none" /\ disk'[t].acked => row'[t] \in Final
    BY <2>1, <2>2, DiskMoves
  <2>7. ran'[t] # "none" /\ disk'[t].st = "none" => row'[t] \in Final
    <3>1. CASE disk' = disk
      BY <2>1, <2>2, <2>3, <3>1, RanMoves
    <3>2. CASE up /\ disk' = journal /\ row' = row /\ ran' = ran
      BY <2>1, <3>2
    <3> QED
      BY <3>1, <3>2, DiskMoves
  <2>8. ASSUME up', ran'[t] # "none", journal'[t].st = "none" PROVE row'[t] \in Final
    <3>1. CASE AgentBoot
      <4>1. ran' = ran
        BY <3>1 DEF AgentBoot
      <4> QED
        BY <2>1, <2>2, <2>8, <3>1, <4>1, AgentBootReads
    <3>2. CASE ~AgentBoot
      <4>1. up
        BY <2>8, <3>2, UpMoves
      <4>2. ran[t] # "none"
        BY <2>8, RanMoves, Blank
      <4>3. journal[t].st = "none" => row[t] \in Final
        BY <2>1, <4>1, <4>2
      <4> QED
        BY <2>1, <2>2, <2>8, <3>2, <4>3, JournalMoves, Blank
    <3> QED
      BY <3>1, <3>2
  <2> QED
    BY <2>4, <2>5, <2>6, <2>7, <2>8
<1> QED
  BY <1>1, <1>2, CoreHolds, PTL DEF Spec

\* The agent forgets a task that ran only once the panel has its outcome.
THEOREM ForgottenIsSettledHolds == Spec => []ForgottenIsSettled
<1>1. Acked => ForgottenIsSettled
  BY DEF Acked
<1> QED
  BY <1>1, AckedHolds, PTL

-----------------------------------------------------------------------------
(* Orders, their answers and the lists.                                    *)

\* What is refused, or told, is not under way.
THEOREM OverHolds == Spec => []Over
<1>1. Init => Over
  <2> SUFFICES ASSUME Init PROVE Over
    OBVIOUS
  <2>1. Told = {} /\ Listed = {} /\ Refused = {}
    BY DEF Init, Told, Listed, Refused, ToSet
  <2> QED
    BY <2>1 DEF Over
<1>2. Core /\ Core' /\ Over /\ [Next]_vars => Over'
  <2> SUFFICES ASSUME Core, Core', Over, [Next]_vars
               PROVE  Over'
    OBVIOUS
  <2>0. /\ TypeOK /\ TypeOK' /\ Single /\ Rowed /\ Untouched /\ Down /\ Running
        /\ Orders \subseteq Tasks /\ ending \subseteq active
    BY Domains DEF Core
  <2>1. ASSUME NEW o \in Told' PROVE o.task \notin starting' \cup active'
    <3>1. o \in Outcomes /\ o.task \in Tasks
      BY <2>0, Outcome DEF Told, TypeOK, PanelOK, EventOK
    <3>2. CASE o \in Told
      <4>1. o.task \notin Ahead /\ o.task \notin starting \cup active
        BY <2>0, <3>2 DEF Untouched, Over
      <4>2. o.task \notin starting'
        BY <2>0, <3>1, <4>1, StartMoves, Begins
      <4> QED
        BY <2>0, <3>1, <4>1, <4>2, RunMoves
    <3>3. CASE o \notin Told
      BY <2>0, <2>1, <3>1, <3>3, ToldMoves DEF Running
    <3> QED
      BY <3>2, <3>3
  <2>2. ASSUME NEW known \in Listed', NEW t \in Launched' PROVE known[t] \notin Final
    <3>1. t \in Tasks
      BY <2>0 DEF Launched, TypeOK, StartOK, RunOK
    <3>2. CASE known \in Listed
      <4>1. t \in Launched \/ t \in Ahead
        BY <2>0, <3>1, LaunchedMoves
      <4> QED
        BY <2>0, <3>2, <4>1, Blank DEF Untouched, Over
    <3>3. CASE known \notin Listed
      <4>1. /\ known = [u \in Tasks |-> journal[u].st]
            /\ UNCHANGED <<journal, starting, active, ending>>
        BY <2>0, <2>2, <3>3, ListedMoves
      <4>2. t \in Launched
        BY <4>1 DEF Launched
      <4>3. journal[t].st = "running"
        BY <2>0, <4>2 DEF Running
      <4> QED
        BY <3>1, <4>1, <4>3, Blank
    <3> QED
      BY <3>2, <3>3
  <2>3. ASSUME NEW t \in Refused' PROVE journal'[t].st = "none"
    <3>1. t \in Orders /\ t \in Tasks
      BY <2>0 DEF Refused
    <3>2. CASE t \in Refused
      <4>1. journal[t].st = "none" /\ t \notin Ahead /\ up
        BY <2>0, <3>1, <3>2 DEF Over, Untouched, Down, Refused, ToSet
      <4>2. t \notin active \ ending
        BY <2>0, <4>1 DEF Running, Launched
      <4>3. ~(TakeOrder /\ t = Head(toAgent).task /\ t \in Ordered)
        BY <2>0, <3>1, <4>1, Begins
      <4>4. ~(t \in Scheduled /\ StartScheduled(t) /\ t \in marking)
        BY <2>0, <3>1, <4>1, Begins
      <4> QED
        BY <2>0, <3>1, <4>1, <4>2, <4>3, <4>4, JournalMoves
    <3>3. CASE t \notin Refused
      <4>1. t \in Ordered /\ UNCHANGED journal
        BY <2>0, <2>3, <3>1, <3>3, AnswerMoves
      <4> QED
        BY <2>0, <4>1 DEF Untouched, Ahead
    <3> QED
      BY <3>2, <3>3
  <2> QED
    BY <2>1, <2>2, <2>3 DEF Over
<1> QED
  BY <1>1, <1>2, CoreHolds, PTL DEF Spec

\* The panel awaits the answer of every order it sent, but for those it closed.
THEOREM AwaitedHolds == Spec => []Awaited
<1>1. Init => Awaited
  BY DEF Init, Awaited, Ordered, ToSet
<1>2. Core /\ Awaited /\ [Next]_vars => Awaited'
  <2> SUFFICES ASSUME Core, Awaited, [Next]_vars, NEW t \in Ordered'
               PROVE  t \in asking' \cup disowned'
    BY DEF Awaited
  <2>0. TypeOK /\ Untouched /\ t \in Tasks
    BY Domains DEF Core, Ordered
  <2>1. CASE t \notin Ordered
    <3>1. Order(t)
      BY <2>0, <2>1, OrderedMoves
    <3> QED
      BY <3>1 DEF Order
  <2>2. CASE t \in Ordered
    <3>1. t \in asking \cup disowned
      BY <2>2 DEF Awaited
    <3>2. t \notin Accepted /\ t \notin Refused
      BY <2>0, <2>2 DEF Untouched, Ahead
    <3>3. ~(TakeReply /\ t = Head(toPanel).task)
      BY <2>0, <3>2, TakeReplyRows
    <3>4. toAgent' # <<>>
      BY DEF Ordered, ToSet
    <3> QED
      BY <2>0, <3>1, <3>3, <3>4, AskingMoves
  <2> QED
    BY <2>1, <2>2
<1> QED
  BY <1>1, <1>2, CoreHolds, PTL DEF Spec

\* A list on the wire was there, behind the same messages or fewer, or is written by TakeList.
LEMMA ListingMoves ==
    ASSUME TypeOK, [Next]_vars, NEW i \in 1..Len(toPanel'), toPanel'[i].kind = "listing"
    PROVE  \/ \E k \in 1..Len(toPanel) :
                  /\ toPanel[k] = toPanel'[i]
                  /\ \A j \in 1..(i - 1) : \E l \in 1..(k - 1) : toPanel[l] = toPanel'[j]
           \/ /\ TakeList /\ toPanel'[i].known = [t \in Tasks |-> journal[t].st]
              /\ \A j \in 1..(i - 1) : toPanel'[j] \in ToSet(toPanel)
<1> DEFINE Old ==
        \E k \in 1..Len(toPanel) :
            /\ toPanel[k] = toPanel'[i]
            /\ \A j \in 1..(i - 1) : \E l \in 1..(k - 1) : toPanel[l] = toPanel'[j]
    New ==
        /\ TakeList /\ toPanel'[i].known = [t \in Tasks |-> journal[t].st]
        /\ \A j \in 1..(i - 1) : toPanel'[j] \in ToSet(toPanel)
<1>1. toPanel \in Seq(ToPanel) /\ Len(toPanel) \in Nat
  BY DEF TypeOK, WireOK
<1>2. ASSUME toPanel' = toPanel PROVE Old
  BY <1>1, <1>2
<1>3. ASSUME toPanel # <<>>, toPanel' = Tail(toPanel) PROVE Old
  <2>1. /\ Len(toPanel') = Len(toPanel) - 1
        /\ \A j \in 1..Len(toPanel') : toPanel'[j] = toPanel[j + 1]
    BY <1>1, <1>3, HeadTailProperties
  <2>2. i \in 1..(Len(toPanel) - 1) /\ i \in Int
    BY <2>1
  <2>3. i + 1 \in 1..Len(toPanel) /\ toPanel[i + 1] = toPanel'[i]
    BY <1>1, <2>1, <2>2
  <2>4. ASSUME NEW j \in 1..(i - 1) PROVE \E l \in 1..((i + 1) - 1) : toPanel[l] = toPanel'[j]
    <3>1. j \in 1..Len(toPanel') /\ j + 1 \in 1..((i + 1) - 1)
      BY <1>1, <2>1, <2>2
    <3> QED
      BY <2>1, <3>1
  <2> QED
    BY <2>3, <2>4
<1>4. ASSUME NEW m, toPanel' = Append(toPanel, m)
      PROVE  \/ Old
             \/ toPanel'[i] = m /\ \A j \in 1..(i - 1) : toPanel'[j] \in ToSet(toPanel)
  <2>1. /\ Len(toPanel') = Len(toPanel) + 1
        /\ \A j \in 1..Len(toPanel) : toPanel'[j] = toPanel[j]
        /\ toPanel'[Len(toPanel) + 1] = m
    BY <1>1, <1>4
  <2>2. CASE i \in 1..Len(toPanel)
    <3>1. \A j \in 1..(i - 1) : j \in 1..Len(toPanel)
      BY <1>1, <2>2
    <3> QED
      BY <2>1, <2>2, <3>1
  <2>3. CASE i \notin 1..Len(toPanel)
    <3>1. i = Len(toPanel) + 1
      BY <1>1, <2>1, <2>3
    <3>2. ASSUME NEW j \in 1..(i - 1) PROVE toPanel'[j] \in ToSet(toPanel)
      <4>1. j \in 1..Len(toPanel)
        BY <1>1, <3>1
      <4> QED
        BY <1>1, <2>1, <4>1, Carried
    <3> QED
      BY <2>1, <3>1, <3>2
  <2> QED
    BY <2>2, <2>3
<1>5. toPanel' # <<>>
  OBVIOUS
<1>6. ASSUME NEW m, SendPanel(m), m.kind # "listing" PROVE Old
  BY <1>4, <1>5, <1>6 DEF SendPanel
<1> HIDE DEF Old
<1>7. ASSUME TakeReply \/ TakeProgress \/ TakeEvent \/ Reconcile PROVE Old
  BY <1>3, <1>7 DEF TakeReply, TakeProgress, TakeEvent, Reconcile, HeadIs
<1>8. ASSUME TakeOrder PROVE Old
  <2>1. toPanel' = toPanel \/ SendPanel(BusyOf(Head(toAgent).task))
    BY <1>8 DEF TakeOrder, BusyOf
  <2> QED
    BY <1>2, <1>6, <2>1, Kinds
<1>9. ASSUME TakeList PROVE Old \/ New
  <2>0. PICK m : m = [kind |-> "listing", known |-> [t \in Tasks |-> journal[t].st]]
    OBVIOUS
  <2>1. SendPanel(m)
    BY <1>9, <2>0 DEF TakeList
  <2>2. m.known = [t \in Tasks |-> journal[t].st]
    BY <2>0
  <2>3. toPanel' = Append(toPanel, m)
    BY <1>5, <2>1 DEF SendPanel
  <2>4. \/ Old
        \/ toPanel'[i] = m /\ \A j \in 1..(i - 1) : toPanel'[j] \in ToSet(toPanel)
    BY <1>4, <2>3
  <2> QED
    BY <1>9, <2>2, <2>4
<1>10. ASSUME NEW u \in Tasks, Progress(u) PROVE Old
  <2> DEFINE m == [kind |-> "progress", task |-> u]
  <2>1. SendPanel(m) /\ m.kind # "listing"
    BY <1>10 DEF Progress
  <2> HIDE DEF m
  <2> QED
    BY <1>6, <2>1
<1>11. ASSUME NEW o, Emit(o) PROVE Old
  <2>1. SendPanel(EventOf(o)) /\ EventOf(o).kind # "listing"
    BY <1>11, Kinds DEF Emit, EventOf
  <2> QED
    BY <1>6, <2>1
<1>12. ASSUME NEW u \in Tasks, End(u) PROVE Old
  BY <1>2, <1>11, <1>12 DEF End
<1>13. ASSUME NEW u \in Tasks, Recovered(u) PROVE Old
  BY <1>11, <1>13 DEF Recovered
<1>14. ASSUME NEW u \in Tasks, Start(u) PROVE Old
  <2>1. toPanel' = toPanel \/ toPanel' = Append(toPanel, OkOf(u))
    BY <1>14 DEF Start, OkOf
  <2> QED
    BY <1>2, <1>4, <2>1, Kinds
<1>15. CASE Connect
  <2>1. \E o \in outbox : toPanel'[i] = EventOf(o)
    <3>1. toPanel' \in Seq(ToPanel) /\ \A m \in ToSet(toPanel') : \E o \in outbox : m = EventOf(o)
      BY <1>15, Resent
    <3>2. toPanel'[i] \in ToSet(toPanel')
      BY <3>1, Carried
    <3> QED
      BY <3>1, <3>2
  <2> QED
    BY <2>1, Kinds
<1>16. CASE Cut \/ AgentCrash \/ PanelRestart
  BY <1>5, <1>16 DEF Cut, AgentCrash, PanelRestart, Close, Unplugged
<1>17. CASE (\E u \in Orders : Order(u)) \/ (\E u \in Tasks : Cancel(u)) \/ (\E o
           \in applying : Apply(o)) \/ AskList \/ WriteJournal \/ TakeCancel \/ TakeAck \/
           (\E u \in Tasks : Finish(u)) \/ (\E u \in Scheduled : Tick(u)) \/ (\E u \in
           Scheduled : StartScheduled(u)) \/ (\E u \in Tasks : Recover(u)) \/ PersistEvents
           \/ (\E o \in outbox : AckEvent(o)) \/ AgentBoot \/ (\E u \in asking :
           OrderTimeout(u)) \/ ListTimeout
  BY <1>2, <1>17 DEF Order, Cancel, Apply, AskList, WriteJournal, TakeCancel, TakeAck,
     Finish, Tick, StartScheduled, Recover, PersistEvents, AckEvent, AgentBoot,
     OrderTimeout, ListTimeout, panelVars, wireVars, agentVars
<1>18. CASE UNCHANGED vars
  BY <1>2, <1>18 DEF vars, wireVars
<1> QED
  BY <1>7, <1>8, <1>9, <1>10, <1>12, <1>13, <1>14, <1>15, <1>16, <1>17, <1>18 DEF Next, PanelNext,
     AgentNext, Operator, FaultNext, Old

\* A list that ignores a task that was ordered or begun is read before the answer to the order.
THEOREM OvertakenHolds == Spec => []Overtaken
<1>1. Init => Overtaken
  BY DEF Init, Overtaken
<1>2. Core /\ Over /\ Awaited /\ Overtaken /\ [Next]_vars => Overtaken'
  <2> SUFFICES ASSUME Core, Over, Awaited, Overtaken, [Next]_vars,
                      NEW i \in 1..Len(toPanel'), NEW t \in Orders \ disowned',
                      toPanel'[i].kind = "listing", toPanel'[i].known[t] = "none",
                      t \in Ordered' \/ journal'[t].st # "none"
               PROVE  t \in asking' /\ \A j \in 1..(i - 1) : toPanel'[j] # OkOf(t)
    BY DEF Overtaken
  <2>0. /\ TypeOK /\ Single /\ Rowed /\ Untouched /\ Down /\ Running
        /\ t \in Tasks /\ t \notin Scheduled
    BY Domains DEF Core
  <2>1. t \notin disowned
    BY <2>0, AskingMoves
  <2>2. toPanel' # <<>> /\ toPanel \in Seq(ToPanel) /\ Len(toPanel) \in Nat
    BY <2>0 DEF TypeOK, WireOK
  <2>3. \A l \in 1..Len(toPanel) : /\ toPanel[l] \in ToSet(toPanel)
                                   /\ toPanel[l] = OkOf(t) => t \in Accepted
    BY <2>2, Carried DEF Accepted
  <2>4. ASSUME NEW k \in 1..Len(toPanel), toPanel[k] = toPanel'[i],
               \A j \in 1..(i - 1) : \E l \in 1..(k - 1) : toPanel[l] = toPanel'[j]
        PROVE  t \in asking' /\ \A j \in 1..(i - 1) : toPanel'[j] # OkOf(t)
    <3>0. \A l \in 1..(k - 1) : l \in 1..Len(toPanel)
      BY <2>2
    <3>1. CASE t \in Ordered \/ journal[t].st # "none"
      <4>1. t \in asking /\ \A l \in 1..(k - 1) : toPanel[l] # OkOf(t)
        BY <2>1, <2>4, <3>1 DEF Overtaken
      <4>2. \A j \in 1..(i - 1) : toPanel'[j] # OkOf(t)
        BY <2>4, <4>1
      <4>3. ASSUME TakeReply, t = Head(toPanel).task PROVE FALSE
        <5>1. toPanel # <<>> /\ Head(toPanel) = toPanel[1] /\ 1 \in 1..Len(toPanel)
          BY <2>2, <4>3 DEF TakeReply, HeadIs
        <5>2. toPanel[1] # toPanel[k]
          BY <2>4, <4>3, <5>1 DEF TakeReply, HeadIs
        <5>3. 1 \in 1..(k - 1)
          BY <2>2, <5>2
        <5>4. t \in Refused
          BY <2>0, <4>1, <4>3, <5>1, <5>3, TakeReplyRows
        <5> QED
          BY <2>0, <3>1, <5>4 DEF Over, Untouched, Ahead
      <4> QED
        BY <2>0, <2>2, <4>1, <4>2, <4>3, AskingMoves
    <3>2. CASE t \notin Ordered /\ journal[t].st = "none"
      <4>1. t \notin active \ ending /\ up
        <5>1. toPanel # <<>>
          BY <2>4, <2>2
        <5> QED
          BY <2>0, <3>2, <5>1 DEF Running, Launched, Down
      <4>2. journal'[t].st = "none"
        BY <2>0, <3>2, <4>1, JournalMoves
      <4>3. Order(t)
        BY <2>0, <3>2, <4>2, OrderedMoves
      <4>4. t \in Ahead /\ t \in asking'
        BY <4>3 DEF Ahead, Order
      <4>5. t \notin Accepted
        BY <2>0, <4>4 DEF Untouched
      <4> QED
        BY <2>3, <2>4, <3>0, <4>4, <4>5
    <3> QED
      BY <3>1, <3>2
  <2>5. ASSUME TakeList, toPanel'[i].known = [u \in Tasks |-> journal[u].st],
               \A j \in 1..(i - 1) : toPanel'[j] \in ToSet(toPanel)
        PROVE  t \in asking' /\ \A j \in 1..(i - 1) : toPanel'[j] # OkOf(t)
    <3>1. journal' = journal /\ asking' = asking /\ Ordered' \subseteq Ordered
      BY <2>0, <2>5, TakeListSays DEF TakeList, agentVars, panelVars
    <3>2. journal[t].st = "none"
      BY <2>0, <2>5
    <3>3. t \in Ordered
      BY <3>1, <3>2
    <3>4. t \in asking
      BY <2>1, <3>3 DEF Awaited
    <3>5. t \notin Accepted
      BY <2>0, <3>3 DEF Untouched, Ahead
    <3> QED
      BY <2>5, <3>1, <3>4, <3>5 DEF Accepted
  <2> QED
    BY <2>0, <2>4, <2>5, ListingMoves
<1> QED
  BY <1>1, <1>2, CoreHolds, OverHolds, AwaitedHolds, PTL DEF Spec

\* An order that is sent or runs has an active row, unless its row was closed before its answer,
\* and no other order has one.
THEOREM OwnedHolds == Spec => []Owned
<1>1. Init => Owned
  BY DEF Init, Owned, Ordered, Launched, ToSet, Tasks, Active
<1>2. Core /\ Core' /\ Over /\ Overtaken /\ Owned /\ [Next]_vars => Owned'
  <2> SUFFICES ASSUME Core, Core', Over, Overtaken, Owned, [Next]_vars
               PROVE  Owned'
    OBVIOUS
  <2>0. /\ TypeOK /\ TypeOK' /\ Single /\ Rowed /\ Untouched /\ Down /\ Running
        /\ Orders \subseteq Tasks /\ Orders \cap Scheduled = {}
        /\ toPanel \in Seq(ToPanel) /\ Len(toPanel) \in Nat
    BY Domains DEF Core, TypeOK, WireOK
  <2>1. ASSUME NEW t \in Orders \ disowned', t \in Ordered' \cup Launched'
        PROVE  row'[t] \in Active
    <3>1. t \in Tasks /\ t \notin Scheduled /\ t \notin disowned
      BY <2>0, AskingMoves
    <3>2. CASE t \notin Ordered /\ t \notin Launched
      <4>1. t \notin Launched'
        BY <2>0, <3>1, <3>2, LaunchedMoves
      <4>2. Order(t)
        BY <2>0, <2>1, <3>1, <3>2, <4>1, OrderedMoves
      <4> QED
        BY <2>0, <4>2, OrderRows, Blank
    <3>3. CASE t \in Ordered \cup Launched
      <4>1. row[t] \in Active
        BY <3>1, <3>3 DEF Owned
      <4>2. t \in Ordered \/ journal[t].st = "running"
        BY <2>0, <3>3 DEF Running
      <4>3. t \notin Refused
        BY <2>0, <4>2 DEF Over, Untouched, Ahead
      <4>4. \A o \in Told : o.task # t
        BY <2>0, <3>3 DEF Over, Untouched, Ahead, Launched
      <4>5. \A known \in Listed : known[t] \notin Final
        BY <2>0, <3>3, Blank DEF Over, Untouched, Ahead
      <4>6. ASSUME toPanel # <<>>, Head(toPanel) = ListingOf(Head(toPanel).known),
                   Head(toPanel).known[t] = "none"
            PROVE  t \in asking
        <5>1. 1 \in 1..Len(toPanel) /\ toPanel[1] = Head(toPanel)
          BY <2>0, <4>6
        <5>2. toPanel[1].kind = "listing" /\ toPanel[1].known[t] = "none"
          BY <4>6, <5>1, Kinds
        <5> QED
          BY <3>1, <4>2, <5>1, <5>2 DEF Overtaken
      <4> QED
        BY <2>0, <2>1, <3>1, <4>1, <4>3, <4>4, <4>5, <4>6, RowCloses
    <3> QED
      BY <3>2, <3>3
  <2>2. ASSUME NEW t \in Orders, row'[t] \in Active, row[t] \notin Active
        PROVE  Order(t)
    <3>1. t \in Tasks /\ row[t] = "none"
      BY <2>0, <2>2, RowMoves DEF TypeOK, PanelOK
    <3>2. t \in Ahead
      BY <3>1 DEF Ahead
    <3>3. /\ \A o \in Told : o.task # t
          /\ \A known \in Listed : known[t] = "none"
      BY <2>0, <3>2 DEF Untouched
    <3> QED
      BY <2>0, <2>2, <3>1, <3>3, RowOpens, Blank
  <2>3. ASSUME NEW t \in Orders, NEW u \in Orders, Order(t), row'[u] \in Active
        PROVE  t = u
    BY <2>0, <2>3, OrderRows
  <2>4. ASSUME NEW t \in Orders, NEW u \in Orders, row'[t] \in Active, row'[u] \in Active
        PROVE  t = u
    <3>1. CASE row[t] \in Active /\ row[u] \in Active
      BY <3>1 DEF Owned
    <3>2. CASE row[t] \notin Active
      BY <2>2, <2>3, <2>4, <3>2
    <3>3. CASE row[u] \notin Active
      BY <2>2, <2>3, <2>4, <3>3
    <3> QED
      BY <3>1, <3>2, <3>3
  <2> QED
    BY <2>1, <2>4 DEF Owned
<1> QED
  BY <1>1, <1>2, CoreHolds, OverHolds, OvertakenHolds, PTL DEF Spec

\* No order runs while another one is ending.
THEOREM AloneHolds == Spec => []Alone
<1>1. Init => Alone
  BY DEF Init, Alone
<1>2. Core /\ Core' /\ Owned /\ Alone /\ [Next]_vars => Alone'
  <2> SUFFICES ASSUME Core, Core', Owned, Alone, [Next]_vars, disowned' = {},
                      NEW t \in Orders, t \in ending',
                      NEW u \in Orders, u \in starting' \cup active'
               PROVE  u = t
    BY DEF Alone
  <2>0. /\ TypeOK /\ Single /\ Rowed /\ Running
        /\ t \in Tasks /\ u \in Tasks /\ ending \subseteq active /\ active \subseteq Tasks
        /\ disowned \subseteq Tasks /\ t \notin Scheduled /\ u \notin Scheduled
    BY Domains DEF Core, TypeOK, HistoryOK, Tasks
  <2>1. disowned = {}
    BY <2>0, AskingMoves
  <2>2. t \in active
    BY <2>0, RunMoves
  <2>3. CASE u \notin starting \cup active
    <3>1. ~Busy(u)
      BY <2>0, <2>3, StartMoves, RunMoves
    <3> QED
      BY <2>2, <3>1 DEF Busy
  <2>4. CASE u \in starting \cup active /\ t \in ending
    BY <2>1, <2>4 DEF Alone
  <2>5. CASE u \in starting \cup active /\ t \notin ending
    <3>1. t \in Launched
      BY <2>2, <2>5 DEF Launched
    <3>2. CASE u \in Launched
      BY <2>1, <3>1, <3>2 DEF Owned
    <3>3. CASE u \notin Launched
      <4>1. u \in ending
        BY <2>5, <3>3 DEF Launched
      <4> QED
        BY <2>1, <2>2, <4>1 DEF Alone
    <3> QED
      BY <3>2, <3>3
  <2> QED
    BY <2>3, <2>4, <2>5
<1> QED
  BY <1>1, <1>2, CoreHolds, OwnedHolds, PTL DEF Spec

\* Two orders of the panel never run together, unless the panel closed the row of one before its
\* answer.
THEOREM OneOrderAtATimeHolds == Spec => []OneOrderAtATime
<1>1. Core /\ Owned /\ Alone => OneOrderAtATime
  <2> SUFFICES ASSUME Core, Owned, Alone, disowned = {}
               PROVE  Cardinality(active \cap Orders) <= 1
    BY DEF OneOrderAtATime
  <2>1. ASSUME NEW t \in active \cap Orders, NEW u \in active \cap Orders PROVE t = u
    BY <2>1 DEF Owned, Alone, Launched
  <2>2. CASE active \cap Orders = {}
    BY <2>2, FS_EmptySet
  <2>3. CASE active \cap Orders # {}
    <3>1. PICK t \in active \cap Orders : TRUE
      BY <2>3
    <3>2. active \cap Orders = {t}
      BY <2>1, <3>1
    <3> QED
      BY <3>2, FS_Singleton
  <2> QED
    BY <2>2, <2>3
<1> QED
  BY <1>1, CoreHolds, OwnedHolds, AloneHolds, PTL

\* How messages of a kind are counted when a sequence is read or extended.
LEMMA Counting ==
    ASSUME NEW M, NEW s \in Seq(M), NEW kind
    PROVE  /\ Lacks(<<>>, kind) /\ HasOne(<<>>, kind)
           /\ s # <<>> => /\ Lacks(s, kind) => Lacks(Tail(s), kind) /\ Head(s).kind # kind
                          /\ HasOne(s, kind) => HasOne(Tail(s), kind)
                          /\ HasOne(s, kind) /\ Head(s).kind = kind => Lacks(Tail(s), kind)
           /\ \A u \in Seq(M) : Lacks(u, kind) =>
                  /\ Lacks(s, kind) => Lacks(s \o u, kind)
                  /\ HasOne(s, kind) => HasOne(s \o u, kind)
           /\ \A m \in M : Lacks(s, kind) =>
                  HasOne(s \o <<m>>, kind) /\ HasOne(Append(s, m), kind)
<1>0. Len(s) \in Nat /\ Len(<<>>) = 0
  OBVIOUS
<1>1. Lacks(<<>>, kind) /\ HasOne(<<>>, kind)
  BY <1>0 DEF Lacks, HasOne
<1>2. ASSUME s # <<>>
      PROVE  /\ Lacks(s, kind) => Lacks(Tail(s), kind) /\ Head(s).kind # kind
             /\ HasOne(s, kind) => HasOne(Tail(s), kind)
             /\ HasOne(s, kind) /\ Head(s).kind = kind => Lacks(Tail(s), kind)
  <2>1. /\ Len(Tail(s)) = Len(s) - 1 /\ Head(s) = s[1]
        /\ \A i \in 1..Len(Tail(s)) : Tail(s)[i] = s[i + 1]
    BY <1>2, HeadTailProperties
  <2>2. \A i \in 1..Len(Tail(s)) : i + 1 \in 1..Len(s) /\ i + 1 # 1 /\ i \in Int
    BY <1>0, <2>1
  <2>3. 1 \in 1..Len(s)
    BY <1>0, <1>2
  <2>4. Lacks(s, kind) => Lacks(Tail(s), kind) /\ Head(s).kind # kind
    BY <2>1, <2>2, <2>3 DEF Lacks
  <2>5. ASSUME HasOne(s, kind) PROVE HasOne(Tail(s), kind)
    <3> SUFFICES ASSUME NEW i \in 1..Len(Tail(s)), NEW j \in 1..Len(Tail(s)),
                        Tail(s)[i].kind = kind, Tail(s)[j].kind = kind
                 PROVE  i = j
      BY DEF HasOne
    <3>1. i + 1 = j + 1
      BY <2>1, <2>2, <2>5 DEF HasOne
    <3> QED
      BY <2>2, <3>1
  <2>6. ASSUME HasOne(s, kind), Head(s).kind = kind PROVE Lacks(Tail(s), kind)
    BY <2>1, <2>2, <2>3, <2>6 DEF Lacks, HasOne
  <2> QED
    BY <2>4, <2>5, <2>6
<1>3. ASSUME NEW u \in Seq(M), Lacks(u, kind)
      PROVE  /\ Lacks(s, kind) => Lacks(s \o u, kind)
             /\ HasOne(s, kind) => HasOne(s \o u, kind)
  <2>1. /\ Len(s \o u) = Len(s) + Len(u) /\ Len(u) \in Nat
        /\ \A i \in 1..(Len(s) + Len(u)) :
               (s \o u)[i] = IF i <= Len(s) THEN s[i] ELSE u[i - Len(s)]
    BY ConcatProperties
  <2>2. ASSUME NEW i \in 1..(Len(s) + Len(u)), (s \o u)[i].kind = kind
        PROVE  i \in 1..Len(s) /\ s[i].kind = kind
    <3>1. CASE i <= Len(s)
      BY <2>1, <2>2, <3>1
    <3>2. CASE ~(i <= Len(s))
      <4>1. i - Len(s) \in 1..Len(u) /\ (s \o u)[i] = u[i - Len(s)]
        BY <1>0, <2>1, <3>2
      <4> QED
        BY <1>3, <2>2, <4>1 DEF Lacks
    <3> QED
      BY <3>1, <3>2
  <2> QED
    BY <2>1, <2>2 DEF Lacks, HasOne
<1>4. ASSUME NEW m \in M, Lacks(s, kind)
      PROVE  HasOne(s \o <<m>>, kind) /\ HasOne(Append(s, m), kind)
  <2>1. /\ Len(Append(s, m)) = Len(s) + 1
        /\ \A i \in 1..Len(s) : Append(s, m)[i] = s[i]
    BY AppendProperties
  <2>2. /\ Len(s \o <<m>>) = Len(s) + 1
        /\ \A i \in 1..Len(s) : (s \o <<m>>)[i] = s[i]
    OBVIOUS
  <2>3. \A i \in 1..(Len(s) + 1) : i \notin 1..Len(s) => i = Len(s) + 1
    BY <1>0
  <2>4. HasOne(Append(s, m), kind)
    BY <1>4, <2>1, <2>3 DEF Lacks, HasOne
  <2>5. HasOne(s \o <<m>>, kind)
    BY <1>4, <2>2, <2>3 DEF Lacks, HasOne
  <2> QED
    BY <2>4, <2>5
<1> QED
  BY <1>1, <1>2, <1>3, <1>4

\* The request of a list is sent by AskList alone.
LEMMA ListsMove ==
    ASSUME TypeOK, [Next]_vars
    PROVE  \/ AskList
           \/ /\ Lacks(toAgent, "list") => Lacks(toAgent', "list")
              /\ HasOne(toAgent, "list") => HasOne(toAgent', "list")
<1> DEFINE Kept1 ==
        /\ Lacks(toAgent, "list") => Lacks(toAgent', "list")
        /\ HasOne(toAgent, "list") => HasOne(toAgent', "list")
<1>1. toAgent \in Seq(ToAgent)
  BY DEF TypeOK, WireOK
<1>2. ASSUME toAgent # <<>>, toAgent' = Tail(toAgent) PROVE Kept1
  BY <1>1, <1>2, Counting
<1>3. ASSUME toAgent' = <<>> PROVE Kept1
  BY <1>1, <1>3, Counting
<1>4. ASSUME NEW u \in Seq(ToAgent), Lacks(u, "list"), SendAgent(u) PROVE Kept1
  <2>1. CASE toAgent' = <<>>
    BY <1>3, <2>1
  <2>2. CASE toAgent' = toAgent \o u
    BY <1>1, <1>4, <2>2, Counting
  <2> QED
    BY <1>4, <2>1, <2>2 DEF SendAgent
<1>5. ASSUME toAgent' = toAgent PROVE Kept1
  BY <1>5
<1>6. ASSUME NEW m \in ToAgent, m.kind # "list", SendAgent(<<m>>) PROVE Kept1
  <2>1. <<m>> \in Seq(ToAgent) /\ Lacks(<<m>>, "list")
    BY <1>6 DEF Lacks
  <2> QED
    BY <1>4, <1>6, <2>1
<1>7. ASSUME NEW ts \in SUBSET Tasks, SendAgent(AckAll(ts)) PROVE Kept1
  <2>1. AckAll(ts) \in Seq(ToAgent)
    BY Acks
  <2>2. \A i \in 1..Len(AckAll(ts)) : AckAll(ts)[i] \in ToSet(AckAll(ts))
    BY <2>1, Carried
  <2>3. Lacks(AckAll(ts), "list")
    BY <2>2, Acks, Kinds DEF Lacks
  <2> QED
    BY <1>4, <1>7, <2>1, <2>3
<1> HIDE DEF Kept1
<1>8. ASSUME NEW t \in Orders, Order(t) PROVE Kept1
  BY <1>6, <1>8, Messages, Kinds DEF Order, OrderOf
<1>9. ASSUME NEW t \in Tasks, Cancel(t) PROVE Kept1
  <2> DEFINE m == [kind |-> "cancel", task |-> t]
  <2>1. SendAgent(<<m>>) /\ m \in ToAgent /\ m.kind # "list"
    BY <1>9, Messages DEF Cancel
  <2> HIDE DEF m
  <2> QED
    BY <1>6, <2>1
<1>10. ASSUME NEW o \in applying, Apply(o) PROVE Kept1
  <2>1. {o.task} \subseteq Tasks
    BY Outcome DEF TypeOK, PanelOK
  <2> QED
    BY <1>7, <1>10, <2>1 DEF Apply
<1>11. ASSUME Reconcile PROVE Kept1
  BY <1>7, <1>11 DEF Reconcile
<1>12. ASSUME TakeOrder \/ TakeCancel \/ TakeAck \/ TakeList PROVE Kept1
  <2>1. toAgent # <<>> /\ toAgent' = Tail(toAgent)
    BY <1>12 DEF TakeOrder, TakeCancel, TakeAck, TakeList, HeadIs
  <2> QED
    BY <1>2, <2>1
<1>13. ASSUME Cut \/ AgentCrash \/ PanelRestart PROVE Kept1
  <2>1. toAgent' = <<>>
    BY <1>13 DEF Cut, AgentCrash, PanelRestart, Close, Unplugged
  <2> QED
    BY <1>3, <2>1
<1>14. ASSUME TakeReply \/ TakeProgress \/ TakeEvent \/ WriteJournal \/ (\E u \in
           Tasks : Start(u)) \/ (\E u \in Tasks : Progress(u)) \/ (\E u \in Tasks :
           Finish(u)) \/ (\E u \in Tasks : End(u)) \/ (\E u \in Scheduled : Tick(u)) \/ (\E
           u \in Scheduled : StartScheduled(u)) \/ (\E u \in Tasks : Recover(u)) \/ (\E u
           \in Tasks : Recovered(u)) \/ PersistEvents \/ (\E o \in outbox : AckEvent(o)) \/
           Connect \/ AgentBoot \/ (\E u \in asking : OrderTimeout(u)) \/ ListTimeout
        PROVE
           Kept1
  <2>1. toAgent' = toAgent
    BY <1>14 DEF TakeReply, TakeProgress, TakeEvent, WriteJournal, Start, Progress,
       Finish, End, Tick, StartScheduled, Recover, Recovered, PersistEvents, AckEvent,
       Connect, AgentBoot, OrderTimeout, ListTimeout, panelVars, wireVars, agentVars
  <2> QED
    BY <1>5, <2>1
<1>15. CASE UNCHANGED vars
  BY <1>5, <1>15 DEF vars, wireVars, Kept1
<1> QED
  BY <1>8, <1>9, <1>10, <1>11, <1>12, <1>13, <1>14, <1>15 DEF Next, PanelNext, AgentNext,
     Operator, FaultNext, Kept1

\* A list is written by TakeList alone.
LEMMA ListingsMove ==
    ASSUME TypeOK, [Next]_vars
    PROVE  \/ TakeList
           \/ /\ Lacks(toPanel, "listing") => Lacks(toPanel', "listing")
              /\ HasOne(toPanel, "listing") => HasOne(toPanel', "listing")
<1> SUFFICES ASSUME ~TakeList
             PROVE  /\ Lacks(toPanel, "listing") => Lacks(toPanel', "listing")
                    /\ HasOne(toPanel, "listing") => HasOne(toPanel', "listing")
  OBVIOUS
<1>0. Len(toPanel) \in Nat
  BY DEF TypeOK, WireOK
<1>1. ASSUME NEW i \in 1..Len(toPanel'), toPanel'[i].kind = "listing"
      PROVE  \E k \in 1..Len(toPanel) :
                 /\ toPanel[k] = toPanel'[i]
                 /\ \A j \in 1..(i - 1) : \E l \in 1..(k - 1) : toPanel[l] = toPanel'[j]
  BY <1>1, ListingMoves
<1>2. ASSUME Lacks(toPanel, "listing") PROVE Lacks(toPanel', "listing")
  BY <1>1, <1>2 DEF Lacks
<1>3. ASSUME HasOne(toPanel, "listing"), NEW i \in 1..Len(toPanel'), NEW j \in 1..Len(toPanel'),
             toPanel'[i].kind = "listing", toPanel'[j].kind = "listing", j \in 1..(i - 1)
      PROVE  FALSE
  <2>1. PICK k \in 1..Len(toPanel) : /\ toPanel[k] = toPanel'[i]
                                     /\ \E l \in 1..(k - 1) : toPanel[l] = toPanel'[j]
    BY <1>1, <1>3
  <2>2. PICK l \in 1..(k - 1) : toPanel[l] = toPanel'[j]
    BY <2>1
  <2>3. l \in 1..Len(toPanel) /\ l # k
    BY <1>0
  <2> QED
    BY <1>3, <2>1, <2>2, <2>3 DEF HasOne
<1>4. ASSUME HasOne(toPanel, "listing") PROVE HasOne(toPanel', "listing")
  <2> SUFFICES ASSUME NEW i \in 1..Len(toPanel'), NEW j \in 1..Len(toPanel'),
                      toPanel'[i].kind = "listing", toPanel'[j].kind = "listing", i # j
               PROVE  FALSE
    BY DEF HasOne
  <2>1. i \in Int /\ j \in Int /\ i >= 1 /\ j >= 1
    OBVIOUS
  <2>2. j \in 1..(i - 1) \/ i \in 1..(j - 1)
    BY <2>1
  <2> QED
    BY <1>3, <1>4, <2>2
<1> QED
  BY <1>2, <1>4

\* A session opens after the channels were emptied.
LEMMA PhaseMoves ==
    ASSUME TypeOK, [Next]_vars
    PROVE  phase' \in {"offline", "up"} =>
               phase \in {"offline", "up"} \/ (toAgent' = <<>> /\ toPanel' = <<>>)
<1> DEFINE Moved ==
        phase' \in {"offline", "up"} =>
            phase \in {"offline", "up"} \/ (toAgent' = <<>> /\ toPanel' = <<>>)
<1>1. CASE AskList
  BY <1>1 DEF AskList
<1>2. CASE Reconcile
  BY <1>2 DEF Reconcile
<1>3. CASE Connect
  BY <1>3 DEF Connect, Online
<1>4. CASE Cut
  BY <1>4 DEF Cut, Close, Unplugged
<1>5. CASE AgentCrash
  BY <1>5 DEF AgentCrash, Close, Unplugged
<1>6. CASE PanelRestart
  BY <1>6 DEF PanelRestart, Unplugged
<1>7. CASE ListTimeout
  BY <1>7 DEF ListTimeout
<1>8. CASE (\E u \in Orders : Order(u)) \/ (\E u \in Tasks : Cancel(u)) \/
         TakeReply \/ TakeProgress \/ TakeEvent \/ (\E o \in applying : Apply(o)) \/
         WriteJournal \/ TakeOrder \/ (\E u \in Tasks : Start(u)) \/ TakeCancel \/ TakeAck
         \/ TakeList \/ (\E u \in Tasks : Progress(u)) \/ (\E u \in Tasks : Finish(u)) \/
         (\E u \in Tasks : End(u)) \/ (\E u \in Scheduled : Tick(u)) \/ (\E u \in Scheduled
         : StartScheduled(u)) \/ (\E u \in Tasks : Recover(u)) \/ (\E u \in Tasks :
         Recovered(u)) \/ PersistEvents \/ (\E o \in outbox : AckEvent(o)) \/ AgentBoot \/
         (\E u \in asking : OrderTimeout(u))
  BY <1>8 DEF Order, Cancel, panelVars, TakeReply, TakeProgress, TakeEvent, Apply,
     WriteJournal, TakeOrder, Start, TakeCancel, TakeAck, TakeList, Progress, Finish, End,
     Tick, StartScheduled, Recover, Recovered, PersistEvents, AckEvent, AgentBoot,
     OrderTimeout
<1>9. CASE UNCHANGED vars
  BY <1>9 DEF vars, panelVars
<1> QED
  BY <1>1, <1>2, <1>3, <1>4, <1>5, <1>6, <1>7, <1>8, <1>9 DEF Next, PanelNext, AgentNext,
     Operator, FaultNext

\* The list is asked once in a session, and read at most once.
THEOREM ListedOnceHolds == Spec => []ListedOnce
<1>1. Init => ListedOnce
  BY DEF Init, ListedOnce, Lacks, HasOne
<1>2. Core /\ ListedOnce /\ [Next]_vars => ListedOnce'
  <2> SUFFICES ASSUME TypeOK, ListedOnce, [Next]_vars
               PROVE  ListedOnce'
    BY DEF Core
  <2>0. /\ toAgent \in Seq(ToAgent) /\ toPanel \in Seq(ToPanel)
        /\ phase \in {"offline", "up"} => Lacks(toAgent, "list") /\ Lacks(toPanel, "listing")
        /\ HasOne(toAgent, "list") /\ HasOne(toPanel, "listing")
        /\ Lacks(toAgent, "list") \/ Lacks(toPanel, "listing")
    BY DEF TypeOK, WireOK, ListedOnce
  <2>1. CASE AskList
    <3>1. phase = "up" /\ phase' = "listing" /\ toPanel' = toPanel
      BY <2>1 DEF AskList
    <3>2. toAgent' = toAgent \o <<[kind |-> "list"]>>
      BY <2>1, <3>1 DEF AskList, SendAgent, Online
    <3>3. HasOne(toAgent', "list")
      BY <2>0, <3>1, <3>2, Counting, Messages
    <3> QED
      BY <2>0, <3>1, <3>3 DEF ListedOnce
  <2>2. CASE TakeList
    <3>1. /\ toAgent # <<>> /\ Head(toAgent).kind = "list" /\ toAgent' = Tail(toAgent)
          /\ phase' = phase
      BY <2>2 DEF TakeList, HeadIs, panelVars
    <3>2. ~Lacks(toAgent, "list") /\ Lacks(toAgent', "list") /\ HasOne(toAgent', "list")
      BY <2>0, <3>1, Counting
    <3>3. PICK m \in ToPanel : toPanel' = <<>> \/ toPanel' = Append(toPanel, m)
      <4>1. [t \in Tasks |-> journal[t].st] \in Known
        BY Records DEF Known, TypeOK, JournalOK
      <4> QED
        BY <2>2, <4>1, Messages DEF TakeList, SendPanel, ListingOf
    <3>4. HasOne(toPanel', "listing")
      <4>1. Lacks(toPanel, "listing")
        BY <2>0, <3>2
      <4>2. HasOne(<<>>, "listing") /\ HasOne(Append(toPanel, m), "listing")
        BY <2>0, <4>1, Counting
      <4> QED
        BY <3>3, <4>2
    <3> QED
      BY <2>0, <3>1, <3>2, <3>4 DEF ListedOnce
  <2>3. CASE ~AskList /\ ~TakeList
    <3>1. /\ Lacks(toAgent, "list") => Lacks(toAgent', "list")
          /\ HasOne(toAgent, "list") => HasOne(toAgent', "list")
          /\ Lacks(toPanel, "listing") => Lacks(toPanel', "listing")
          /\ HasOne(toPanel, "listing") => HasOne(toPanel', "listing")
      BY <2>3, ListsMove, ListingsMove
    <3>2. phase' \in {"offline", "up"} =>
              Lacks(toAgent', "list") /\ Lacks(toPanel', "listing")
      <4>1. CASE toAgent' = <<>> /\ toPanel' = <<>>
        BY <2>0, <4>1, Counting
      <4>2. CASE phase \in {"offline", "up"}
        BY <2>0, <3>1, <4>2
      <4> QED
        BY <4>1, <4>2, PhaseMoves
    <3> QED
      BY <2>0, <3>1, <3>2 DEF ListedOnce
  <2> QED
    BY <2>1, <2>2, <2>3
<1> QED
  BY <1>1, <1>2, CoreHolds, PTL DEF Spec

\* A fault is recorded for good.
LEMMA FaultMoves ==
    ASSUME TypeOK, [Next]_vars
    PROVE  faults' = faults \/ \E kind \in Faults : faults' = Append(faults, kind)
<1> DEFINE Moved ==
        faults' = faults \/ \E kind \in Faults : faults' = Append(faults, kind)
<1>1. CASE Cut
  BY <1>1 DEF Cut, Fault
<1>2. CASE AgentCrash
  BY <1>2 DEF AgentCrash, Fault
<1>3. CASE PanelRestart
  BY <1>3 DEF PanelRestart, Fault
<1>4. ASSUME NEW u \in asking, OrderTimeout(u) PROVE Moved
  BY <1>4 DEF OrderTimeout, Fault
<1>5. CASE ListTimeout
  BY <1>5 DEF ListTimeout, Fault
<1>6. CASE (\E u \in Orders : Order(u)) \/ (\E u \in Tasks : Cancel(u)) \/
         TakeReply \/ TakeProgress \/ TakeEvent \/ (\E o \in applying : Apply(o)) \/ AskList
         \/ Reconcile \/ WriteJournal \/ TakeOrder \/ (\E u \in Tasks : Start(u)) \/
         TakeCancel \/ TakeAck \/ TakeList \/ (\E u \in Tasks : Progress(u)) \/ (\E u \in
         Tasks : Finish(u)) \/ (\E u \in Tasks : End(u)) \/ (\E u \in Scheduled : Tick(u))
         \/ (\E u \in Scheduled : StartScheduled(u)) \/ (\E u \in Tasks : Recover(u)) \/ (\E
         u \in Tasks : Recovered(u)) \/ PersistEvents \/ (\E o \in outbox : AckEvent(o)) \/
         Connect \/ AgentBoot
  BY <1>6 DEF Order, histVars, countVars, Cancel, TakeReply, TakeProgress, TakeEvent,
     Apply, AskList, Reconcile, WriteJournal, TakeOrder, Start, TakeCancel, TakeAck,
     TakeList, Progress, Finish, End, Tick, StartScheduled, Recover, Recovered,
     PersistEvents, AckEvent, Connect, AgentBoot
<1>7. CASE UNCHANGED vars
  BY <1>7 DEF vars, countVars, histVars
<1> QED
  BY <1>1, <1>2, <1>3, <1>4, <1>5, <1>6, <1>7 DEF Next, PanelNext, AgentNext, Operator,
     FaultNext

-----------------------------------------------------------------------------
(* The journal of the agent prevails.                                      *)

\* A step does not make a task begin again once it has begun.
LEMMA JournalKeeps ==
    ASSUME TypeOK, TypeOK', Single, Rowed, Untouched, Running, [Next]_vars, NEW t \in Tasks,
           up, recovering = {}, journal[t].st # "none"
    PROVE  \/ journal'[t].st = journal[t].st
           \/ Finish(t) /\ t \in active \ ending
           \/ /\ journal'[t].st = "none" /\ journal[t].st \in Final
              /\ journal[t].acked \/ t \in Acknowledged
<1>1. t \notin Ahead
  BY DEF Untouched
<1>2. ~(t \in Scheduled /\ StartScheduled(t) /\ t \in marking)
  BY <1>1, Begins
<1> QED
  BY <1>2, JournalMoves

\* Without a crash of the agent its journal never takes back what it told.
THEOREM KeptHolds == Spec => []Kept
<1>1. Init => Kept
  <2> SUFFICES ASSUME Init PROVE Kept
    OBVIOUS
  <2>1. Told = {} /\ Listed = {}
    BY DEF Init, Told, Listed, ToSet
  <2>2. Scheduled \subseteq Tasks
    BY DEF Tasks
  <2> QED
    BY <2>1, <2>2, Blank DEF Init, Kept, Launched
<1>2. Core /\ Core' /\ Acked /\ Over /\ Overtaken /\ Owned /\ ListedOnce /\ Kept
          /\ [Next]_vars => Kept'
  <2> SUFFICES ASSUME Core, Core', Acked, Over, Overtaken, Owned, ListedOnce, Kept, [Next]_vars,
                      "crash" \notin ToSet(faults')
               PROVE  /\ up' /\ recovering' = {}
                      /\ \A t \in Tasks :
                             /\ t \notin disowned' /\ row'[t] \in Final =>
                                    journal'[t].st \in {"none", row'[t]}
                             /\ t \in Scheduled =>
                                    /\ row'[t] \in Active => journal'[t].st # "none"
                                    /\ t \in Launched' => row'[t] \notin Final
                      /\ \A o \in Told' : journal'[o.task].st \in {"none", o.verdict}
                      /\ \A known \in Listed' : \A t \in Tasks :
                             /\ known[t] \in Final => journal'[t].st \in {"none", known[t]}
                             /\ known[t] # "none" => journal'[t].st # "none" \/ row'[t] \in Final
                             /\ known[t] = "none" /\ t \in Scheduled => row'[t] \notin Active
    BY Domains DEF Core, Kept
  <2>0. /\ TypeOK /\ TypeOK' /\ Single /\ Rowed /\ Untouched /\ Down /\ Running
        /\ Orders \subseteq Tasks /\ Scheduled \subseteq Tasks /\ Orders \cap Scheduled = {}
        /\ toPanel \in Seq(ToPanel) /\ Len(toPanel) \in Nat /\ ending \subseteq active
        /\ disowned' \subseteq Orders /\ disowned \subseteq Orders
        /\ Tasks = Orders \cup Scheduled
    BY Domains DEF Core, TypeOK, WireOK, HistoryOK, Tasks
  <2>1. "crash" \notin ToSet(faults) /\ ~AgentCrash
    <3>1. \A kind \in Faults : ToSet(Append(faults, kind)) = ToSet(faults) \cup {kind}
      BY <2>0, Carried DEF TypeOK, HistoryOK
    <3>2. AgentCrash => "crash" \in Faults /\ faults' = Append(faults, "crash")
      BY DEF AgentCrash, Fault
    <3> QED
      BY <2>0, <3>1, <3>2, FaultMoves
  <2>2. /\ up /\ recovering = {}
        /\ \A t \in Tasks \ disowned : row[t] \in Final => journal[t].st \in {"none", row[t]}
        /\ \A t \in Scheduled : row[t] \in Active => journal[t].st # "none"
        /\ \A t \in Scheduled : t \in Launched => row[t] \notin Final
        /\ \A o \in Told : journal[o.task].st \in {"none", o.verdict}
        /\ \A known \in Listed : \A t \in Tasks :
               /\ known[t] \in Final => journal[t].st \in {"none", known[t]}
               /\ known[t] # "none" => journal[t].st # "none" \/ row[t] \in Final
               /\ known[t] = "none" /\ t \in Scheduled => row[t] \notin Active
    BY <2>1 DEF Kept
  <2>3. up' /\ recovering' = {} /\ ~AgentBoot
    <3>1. ~AgentBoot
      BY <2>2 DEF AgentBoot
    <3>2. up'
      BY <2>0, <2>1, <2>2, UpMoves
    <3>3. ASSUME NEW t \in recovering' PROVE FALSE
      <4>1. t \in Tasks
        BY <2>0 DEF TypeOK, RunOK
      <4> QED
        BY <2>0, <2>2, <3>1, <4>1, RunMoves
    <3> QED
      BY <3>1, <3>2, <3>3
  <2>4. ASSUME NEW t \in Tasks, journal[t].st # "none"
        PROVE  \/ journal'[t].st = journal[t].st
               \/ Finish(t) /\ t \in active \ ending
               \/ /\ journal'[t].st = "none" /\ journal[t].st \in Final
                  /\ row[t] \in Final
    BY <2>0, <2>2, <2>4, JournalKeeps, Blank DEF Acked
  <2>5. ASSUME NEW t \in Tasks, t \notin Ahead, journal[t].st = "none"
        PROVE  journal'[t].st = "none"
    <3>1. t \notin active \ ending
      BY <2>0, <2>5 DEF Running, Launched
    <3>2. /\ ~(TakeOrder /\ t = Head(toAgent).task /\ t \in Ordered)
          /\ ~(t \in Scheduled /\ StartScheduled(t) /\ t \in marking)
      BY <2>0, <2>5, Begins
    <3> QED
      BY <2>0, <2>2, <2>3, <2>5, <3>1, <3>2, JournalMoves
  <2>6. ASSUME NEW t \in Tasks, NEW st \in Final, journal[t].st \in {"none", st}, t \notin Ahead,
               t \notin Launched
        PROVE  journal'[t].st \in {"none", st}
    BY <2>4, <2>5, <2>6 DEF Launched
  <2>7. ASSUME NEW t \in Tasks, row[t] \notin Final, row'[t] \in Final
        PROVE  \/ t \in disowned'
               \/ TakeReply /\ t \in Refused
               \/ \E o \in Told : \E x \in applying : x = o /\ Apply(x) /\ o.task = t
                      /\ row'[t] = o.verdict
               \/ \E known \in Listed :
                      /\ Reconcile
                      /\ \/ known[t] \in Final /\ row'[t] = known[t]
                         \/ /\ row[t] \in Active /\ known[t] = "none" /\ (t \in asking =>
                                   t \in disowned')
                            /\ toPanel # <<>> /\ Head(toPanel) = ListingOf(known)
    <3>1. CASE row[t] \in Active
      BY <2>0, <2>7, <3>1, RowCloses, Blank
    <3>2. CASE row[t] = "none"
      BY <2>0, <2>7, <3>2, RowOpens, Blank
    <3> QED
      BY <2>0, <2>7, <3>1, <3>2 DEF TypeOK, PanelOK
  <2>8. ASSUME NEW t \in Tasks \ disowned', NEW known \in Listed, row[t] \in Active,
               known[t] = "none", t \in asking => t \in disowned',
               toPanel # <<>>, Head(toPanel) = ListingOf(known)
        PROVE  t \in Orders /\ journal[t].st = "none"
    <3>1. t \in Orders
      BY <2>0, <2>2, <2>8
    <3>2. 1 \in 1..Len(toPanel) /\ toPanel[1].kind = "listing" /\ toPanel[1].known[t] = "none"
      BY <2>0, <2>8, Kinds
    <3>3. t \notin disowned
      BY <2>0, <2>8, AskingMoves
    <3> QED
      BY <2>8, <3>1, <3>2, <3>3 DEF Overtaken
  <2>9. ASSUME NEW t \in Tasks, t \notin disowned', row'[t] \in Final
        PROVE  journal'[t].st \in {"none", row'[t]}
    <3>1. t \notin disowned
      BY <2>0, <2>9, AskingMoves
    <3>2. CASE row[t] \in Final
      <4>1. row'[t] = row[t]
        BY <2>0, <3>2, RowMoves
      <4>2. t \notin Launched
        BY <2>0, <2>2, <3>1, <3>2, Blank DEF Owned
      <4>3. t \notin Ahead
        BY <2>0, <3>1, <3>2, Blank, Domains DEF Ahead, Owned, Rowed
      <4> QED
        BY <2>2, <2>6, <3>1, <3>2, <4>1, <4>2, <4>3
    <3>3. CASE row[t] \notin Final
      <4>1. CASE TakeReply /\ t \in Refused
        BY <2>0, <4>1 DEF Over, TakeReply, agentVars
      <4>2. ASSUME NEW o \in applying, Apply(o), o \in Told, o.task = t, row'[t] = o.verdict
            PROVE  journal'[t].st \in {"none", row'[t]}
        BY <2>2, <4>2 DEF Apply, agentVars
      <4>3. ASSUME NEW known \in Listed, Reconcile, known[t] \in Final, row'[t] = known[t]
            PROVE  journal'[t].st \in {"none", row'[t]}
        BY <2>2, <4>3 DEF Reconcile, agentVars
      <4>4. ASSUME NEW known \in Listed, Reconcile, row[t] \in Active, known[t] = "none",
                   t \in asking => t \in disowned',
                   toPanel # <<>>, Head(toPanel) = ListingOf(known)
            PROVE  journal'[t].st \in {"none", row'[t]}
        <5>1. journal[t].st = "none"
          BY <2>8, <2>9, <4>4
        <5> QED
          BY <4>4, <5>1 DEF Reconcile, agentVars
      <4> QED
        BY <2>7, <2>9, <3>3, <4>1, <4>2, <4>3, <4>4
    <3> QED
      BY <3>2, <3>3
  <2>10. ASSUME NEW t \in Scheduled, row'[t] \in Active
         PROVE  journal'[t].st # "none"
    <3>1. t \in Tasks /\ t \notin Orders /\ row[t] \notin Final
      BY <2>0, <2>10, RowMoves, Blank
    <3>2. journal[t].st # "none"
      <4>1. CASE row[t] \in Active
        BY <2>2, <4>1
      <4>2. CASE row[t] = "none"
        BY <2>0, <2>2, <2>10, <3>1, <4>2, RowOpens, Outcome, Domains, Blank
      <4> QED
        BY <2>0, <3>1, <4>1, <4>2 DEF TypeOK, PanelOK
    <3> QED
      BY <2>0, <2>4, <3>1, <3>2, FinishWrites, Blank
  <2>11. ASSUME NEW t \in Scheduled, t \in Launched'
         PROVE  row'[t] \notin Final
    <3>1. t \in Tasks /\ t \notin Orders /\ t \notin disowned'
      BY <2>0
    <3>2. CASE t \in Launched
      <4>1. row[t] \notin Final
        BY <2>2, <3>2
      <4>2. /\ \A o \in Told : o.task # t
            /\ \A known \in Listed : known[t] \notin Final
        BY <3>2 DEF Over, Launched
      <4> QED
        BY <2>2, <2>7, <3>1, <4>1, <4>2 DEF Refused
    <3>3. CASE t \notin Launched
      <4>1. t \in Ahead
        BY <2>0, <2>11, <3>1, <3>3, LaunchedMoves
      <4>2. row[t] = "none"
        BY <2>0, <3>1, <4>1 DEF Ahead, Ordered, Rowed
      <4>3. /\ \A o \in Told : o.task # t
            /\ \A known \in Listed : known[t] = "none"
        BY <2>0, <4>1 DEF Untouched
      <4> QED
        BY <2>7, <3>1, <4>2, <4>3, Blank DEF Refused
    <3> QED
      BY <3>2, <3>3
  <2>12. ASSUME NEW o \in Told'
         PROVE  journal'[o.task].st \in {"none", o.verdict}
    <3>1. o \in Outcomes /\ o.task \in Tasks /\ o.verdict \in Final
      BY <2>0, Outcome DEF Told, TypeOK, PanelOK, EventOK
    <3>2. CASE o \in Told
      <4>1. o.task \notin Ahead /\ o.task \notin Launched
        BY <2>0, <3>2 DEF Untouched, Over, Launched
      <4> QED
        BY <2>2, <2>6, <3>1, <3>2, <4>1
    <3>3. CASE o \notin Told
      BY <2>0, <2>2, <2>12, <3>1, <3>3, ToldMoves
    <3> QED
      BY <3>2, <3>3
  <2>13. ASSUME NEW known \in Listed', NEW t \in Tasks
         PROVE  /\ known[t] \in Final => journal'[t].st \in {"none", known[t]}
                /\ known[t] # "none" => journal'[t].st # "none" \/ row'[t] \in Final
                /\ known[t] = "none" /\ t \in Scheduled => row'[t] \notin Active
    <3>1. CASE known \in Listed
      <4>1. ASSUME known[t] \in Final PROVE journal'[t].st \in {"none", known[t]}
        <5>1. t \notin Ahead /\ t \notin Launched
          BY <2>0, <3>1, <4>1, Blank DEF Untouched, Over
        <5> QED
          BY <2>2, <2>6, <3>1, <4>1, <5>1
      <4>2. ASSUME known[t] # "none" PROVE journal'[t].st # "none" \/ row'[t] \in Final
        <5>1. row[t] \in Final => row'[t] \in Final
          BY <2>0, RowMoves
        <5>2. journal[t].st # "none" \/ row[t] \in Final
          BY <2>2, <3>1, <4>2
        <5> QED
          BY <2>0, <2>4, <5>1, <5>2, FinishWrites, Blank
      <4>3. ASSUME known[t] = "none", t \in Scheduled PROVE row'[t] \notin Active
        <5>1. row[t] \notin Active /\ t \notin Orders
          BY <2>0, <2>2, <3>1, <4>3
        <5>2. ~Reconcile
          <6> SUFFICES ASSUME Reconcile PROVE FALSE
            OBVIOUS
          <6>1. toPanel # <<>> /\ Head(toPanel).kind = "listing" /\ toPanel' = Tail(toPanel)
            BY DEF Reconcile, HeadIs
          <6>2. Lacks(toPanel', "listing")
            BY <2>0, <6>1, Counting DEF ListedOnce
          <6>3. ListingOf(known) \in ToSet(toPanel')
            BY DEF Listed
          <6> QED
            BY <6>2, <6>3, Kinds DEF Lacks, ToSet
        <5>3. CASE row[t] \in Final
          BY <2>0, <5>3, RowMoves, Blank
        <5>4. CASE row[t] = "none"
          BY <2>0, <5>1, <5>2, <5>4, RowOpens, Outcome, Domains, Blank
        <5> QED
          BY <2>0, <5>1, <5>3, <5>4 DEF TypeOK, PanelOK
      <4> QED
        BY <4>1, <4>2, <4>3
    <3>2. CASE known \notin Listed
      <4>1. known = [u \in Tasks |-> journal[u].st] /\ UNCHANGED <<journal, row>>
        BY <2>0, <2>13, <3>2, ListedMoves
      <4>2. known[t] = journal[t].st
        BY <4>1
      <4> QED
        BY <2>2, <4>1, <4>2
    <3> QED
      BY <3>1, <3>2
  <2> QED
    BY <2>3, <2>9, <2>10, <2>11, <2>12, <2>13
<1> QED
  BY <1>1, <1>2, CoreHolds, AckedHolds, OverHolds, OvertakenHolds, OwnedHolds,
     ListedOnceHolds, PTL DEF Spec

\* Once the two sides have been reconciled the state of the agent prevails, without a crash of the
\* agent and for every row that was not closed before its answer.
THEOREM AgentPrevailsHolds == Spec => []AgentPrevails
<1>1. Kept => AgentPrevails
  BY DEF Kept, AgentPrevails
<1> QED
  BY <1>1, KeptHolds, PTL

=============================================================================
