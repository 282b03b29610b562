-------------------------- MODULE RustPeer_proofs --------------------------
(***************************************************************************)
(* Theorems about RustPeer: for any number of tasks, seeders and commands  *)
(* in the channel, a caller of the node is given its own reply, no caller  *)
(* is left without one, and no provider record goes out without an address.*)
(*                                                                         *)
(* The argument is about the keys of the maps of pending replies: an id    *)
(* that a behaviour gives out is new (IdsAreOld), so inserting an entry    *)
(* overwrites none, and the entry that an event finds is that of its own   *)
(* request (OwnEntry).                                                     *)
(***************************************************************************)
EXTENDS RustPeer, SequenceTheorems, FiniteSetTheorems, TLAPS

Commands == [kind : Kinds, about : Things \cup {None}, reply : Replies]
Requests == [behaviour : Behaviours, id : Nat, about : Things \cup {None},
             asker : Replies, addressed : BOOLEAN]
Calls == [n : Nat, state : {"idle", "waiting", "returned"}, answer : Answers]

KeyOf(o) == pending_key(o.behaviour, o.id)

(* While a call waits, its answer is prepared in its name.                 *)
WaitsForOwn ==
  \A t \in Tasks : call[t].state # "idle" => call[t].answer.to = <<t, call[t].n>>

IdsAreOld ==
  /\ \A o \in outstanding : o.id < next_id[o.behaviour]
  /\ \A p \in pending : p.key[2] < next_id[p.key[1]]

OwnEntry ==
  /\ \A p \in pending, o \in outstanding : p.key = KeyOf(o) => p.reply = o.asker
  /\ \A o1, o2 \in outstanding : KeyOf(o1) = KeyOf(o2) => o1 = o2

(* NoCallIsForgotten, for one call: that of the task t.  A command without *)
(* a reply channel does not count.                                         *)
Own(t) == <<t, call[t].n>>

Queued(t) ==
  \E i \in DOMAIN commands :
    commands[i].reply = Own(t) /\ commands[i].kind \notin Silent
Asked(t) ==
  \E p \in pending, o \in outstanding : p.reply = Own(t) /\ p.key = KeyOf(o)
Listens(t) == listening /\ Own(t) \in pending_listen

Remembered ==
  \A t \in Tasks :
    call[t].state = "waiting" => Queued(t) \/ Asked(t) \/ Listens(t)

NodeInv == NodeTypeOK /\ WaitsForOwn /\ IdsAreOld /\ OwnEntry /\ Remembered

(* What a step of the node's holders may do to the node.                   *)
HolderStep ==
  /\ NodeIdle
  /\ \/ \E t \in Tasks, kind \in Kinds, about \in Things \cup {None} :
          Send(t, kind, about)
     \/ \E ts \in SUBSET Tasks : call' = Dropped(call, ts) /\ UNCHANGED commands
     \/ UNCHANGED <<call, commands>>

LEMMA SendInv ==
  ASSUME NodeInv, NodeIdle, NEW t \in Tasks, NEW kind \in Kinds,
         NEW about \in Things \cup {None}, Send(t, kind, about)
  PROVE  NodeInv'
<1> DEFINE reply == <<t, call[t].n + 1>>
           command == [kind |-> kind, about |-> about, reply |-> reply]
<1>1. /\ call[t] \in Calls /\ call[t].state = "idle"
      /\ reply \in Replies
      /\ command \in Commands
  BY DEF Send, NodeInv, NodeTypeOK, Calls, Replies, Commands
<1>2. /\ commands \in Seq(Commands)
      /\ commands' = Append(commands, command)
      /\ Len(commands) < Capacity
  BY DEF Send, NodeInv, NodeTypeOK, Commands
<1>3. /\ commands' \in Seq(Commands)
      /\ Len(commands') = Len(commands) + 1
      /\ commands'[Len(commands) + 1] = command
      /\ \A i \in DOMAIN commands : i \in DOMAIN commands' /\ commands'[i] = commands[i]
  BY <1>1, <1>2
<1>4. /\ call' \in [Tasks -> Calls]
      /\ \A s \in Tasks : s # t => call'[s] = call[s]
      /\ \/ kind \in Silent /\ call'[t] = call[t]
         \/ /\ kind \notin Silent
            /\ call'[t] = [n |-> reply[2], state |-> "waiting",
                           answer |-> [ok |-> FALSE, to |-> reply]]
  <2>1. call \in [Tasks -> Calls]
    BY DEF NodeInv, NodeTypeOK, Calls
  <2>2. [n |-> reply[2], state |-> "waiting",
         answer |-> [ok |-> FALSE, to |-> reply]] \in Calls
    BY <1>1 DEF Calls, Answers
  <2> QED
    BY <2>1, <2>2 DEF Send
<1>5. NodeTypeOK'
  BY <1>2, <1>3, <1>4, NodeAssumption DEF NodeInv, NodeTypeOK, NodeIdle, Commands, Calls
<1>6. WaitsForOwn'
  BY <1>1, <1>4 DEF NodeInv, WaitsForOwn
<1>7. Remembered'
  <2> SUFFICES ASSUME NEW s \in Tasks, call'[s].state = "waiting"
               PROVE  Queued(s)' \/ Asked(s)' \/ Listens(s)'
    BY DEF Remembered
  <2>1. CASE s = t
    <3>1. call'[s].n = reply[2] /\ kind \notin Silent
      BY <1>1, <1>4, <2>1
    <3>2. Len(commands) + 1 \in DOMAIN commands'
      BY <1>2, <1>3
    <3>3. Queued(s)'
      BY <1>3, <2>1, <3>1, <3>2 DEF Queued, Own
    <3> QED
      BY <3>3
  <2>2. CASE s # t
    BY <1>3, <1>4, <2>2 DEF NodeInv, Remembered, Queued, Asked, Listens, Own, NodeIdle
  <2> QED
    BY <2>1, <2>2
<1> QED
  BY <1>5, <1>6, <1>7 DEF NodeInv, IdsAreOld, OwnEntry, NodeIdle, KeyOf

LEMMA DropInv ==
  ASSUME NodeInv, NodeIdle, UNCHANGED commands, NEW ts \in SUBSET Tasks,
         call' = Dropped(call, ts)
  PROVE  NodeInv'
<1>1. /\ call \in [Tasks -> Calls]
      /\ call' \in [Tasks -> Calls]
      /\ \A t \in Tasks : call'[t].n = call[t].n /\ call'[t].answer = call[t].answer
      /\ \A t \in Tasks : call'[t].state \in {"idle", call[t].state}
  BY DEF NodeInv, NodeTypeOK, Dropped, Calls
<1>2. NodeTypeOK'
  BY <1>1 DEF NodeInv, NodeTypeOK, NodeIdle, Calls
<1>3. WaitsForOwn'
  BY <1>1 DEF NodeInv, WaitsForOwn
<1>4. (IdsAreOld /\ OwnEntry)'
  BY DEF NodeInv, NodeIdle, IdsAreOld, OwnEntry, KeyOf
<1>5. Remembered'
  BY <1>1 DEF NodeInv, NodeIdle, Remembered, Queued, Asked, Listens, Own, KeyOf
<1> QED
  BY <1>2, <1>3, <1>4, <1>5 DEF NodeInv

LEMMA HolderInv ==
  ASSUME NodeInv, HolderStep PROVE NodeInv'
<1>1. CASE UNCHANGED <<call, commands>>
  BY <1>1 DEF HolderStep, NodeIdle, NodeInv, NodeTypeOK, WaitsForOwn, IdsAreOld,
              OwnEntry, Remembered, Queued, Asked, Listens, Own, KeyOf
<1> QED
  BY <1>1, SendInv, DropInv DEF HolderStep

(* oneshot::Sender::send touches one call, and only if it is the one that  *)
(* the reply is for.                                                       *)
LEMMA RepliedFacts ==
  ASSUME call \in [Tasks -> Calls], NEW reply \in Replies, NEW answer \in Answers,
         call' = Replied(call, reply, answer)
  PROVE  /\ call' \in [Tasks -> Calls]
         /\ \A t \in Tasks :
              /\ call'[t].n = call[t].n
              /\ call'[t] # call[t] => /\ Own(t) = reply
                                      /\ call'[t].state = "returned"
                                      /\ call'[t].answer = answer
              /\ Own(t) = reply => call'[t].state # "waiting"
<1>1. \A t \in Tasks :
        call'[t] = IF t = reply[1] /\ call[t].n = reply[2]
                      /\ call[t].state = "waiting"
                   THEN [call[t] EXCEPT !.state = "returned", !.answer = answer]
                   ELSE call[t]
  BY DEF Replied
<1>2. reply = <<reply[1], reply[2]>>
  BY DEF Replies
<1>3. ASSUME NEW t \in Tasks
      PROVE  /\ call'[t] \in Calls
             /\ call'[t].n = call[t].n
             /\ call'[t] # call[t] => /\ Own(t) = reply
                                     /\ call'[t].state = "returned"
                                     /\ call'[t].answer = answer
             /\ Own(t) = reply => call'[t].state # "waiting"
  <2>1. call[t] \in Calls
    OBVIOUS
  <2>2. CASE t = reply[1] /\ call[t].n = reply[2] /\ call[t].state = "waiting"
    <3>1. call'[t] = [n |-> call[t].n, state |-> "returned", answer |-> answer]
      BY <1>1, <2>1, <2>2 DEF Calls
    <3> QED
      BY <1>2, <2>1, <2>2, <3>1 DEF Calls, Own
  <2>3. CASE ~(t = reply[1] /\ call[t].n = reply[2] /\ call[t].state = "waiting")
    <3>1. call'[t] = call[t]
      BY <1>1, <2>3
    <3>2. Own(t) = reply => t = reply[1] /\ call[t].n = reply[2]
      BY DEF Own
    <3> QED
      BY <2>1, <2>3, <3>1, <3>2
  <2> QED
    BY <2>2, <2>3
<1>4. call' = [t \in Tasks |-> call'[t]]
  BY DEF Replied
<1> QED
  BY <1>3, <1>4

(* A call is answered, and what concerns the others stays as it is.        *)
LEMMA AnsweredWaits ==
  ASSUME NodeInv, NEW reply \in Replies,
         NEW answer \in Answers, answer.to = reply,
         call' = Replied(call, reply, answer)
  PROVE  /\ call' \in [Tasks -> Calls]
         /\ WaitsForOwn'
         /\ \A t \in Tasks : call'[t].state = "waiting" =>
              call[t].state = "waiting" /\ Own(t)' = Own(t) /\ Own(t) # reply
<1>1. call \in [Tasks -> Calls]
  BY DEF NodeInv, NodeTypeOK, Calls
<1> QED
  BY <1>1, RepliedFacts DEF NodeInv, WaitsForOwn, Own, Calls

(* recv takes the oldest command out of the channel.                       *)
LEMMA CommandTaken ==
  ASSUME NodeInv, commands # <<>>, commands' = Tail(commands)
  PROVE  /\ commands \in Seq(Commands)
         /\ Head(commands) \in Commands /\ Head(commands) = commands[1]
         /\ commands' \in Seq(Commands)
         /\ Len(commands') = Len(commands) - 1
         /\ Len(commands') \in Nat /\ Len(commands') <= Capacity
         /\ \A i \in DOMAIN commands :
              i # 1 => i - 1 \in DOMAIN commands' /\ commands'[i - 1] = commands[i]
<1>1. commands \in Seq(Commands) /\ Len(commands) <= Capacity
  BY DEF NodeInv, NodeTypeOK, Commands
<1>2. /\ Head(commands) \in Commands
      /\ commands' \in Seq(Commands)
      /\ Len(commands') = Len(commands) - 1
      /\ \A i \in 1 .. Len(commands') : commands'[i] = commands[i + 1]
  BY <1>1, HeadTailProperties
<1>3. Len(commands) \in Nat /\ Len(commands') \in Nat
  BY <1>1, <1>2
<1>4. DOMAIN commands = 1 .. Len(commands) /\ DOMAIN commands' = 1 .. Len(commands')
  BY <1>1, <1>2
<1>5. \A i \in DOMAIN commands :
        i # 1 => i - 1 \in DOMAIN commands' /\ commands'[i - 1] = commands[i]
  <2> SUFFICES ASSUME NEW i \in 1 .. Len(commands), i # 1
               PROVE  i - 1 \in 1 .. Len(commands') /\ commands'[i - 1] = commands[i]
    BY <1>4
  <2>1. i - 1 \in 1 .. Len(commands') /\ (i - 1) + 1 = i
    BY <1>2, <1>3
  <2> QED
    BY <1>2, <2>1
<1> QED
  BY <1>1, <1>2, <1>3, <1>5, NodeAssumption

(* A call that is in the channel stays there, or its command is the one    *)
(* that was taken.                                                         *)
LEMMA QueueShrinks ==
  ASSUME NodeInv, commands # <<>>, commands' = Tail(commands),
         NEW t \in Tasks, Own(t)' = Own(t), Queued(t)
  PROVE  \/ Queued(t)'
         \/ /\ Own(t) = Head(commands).reply
            /\ Head(commands).kind \notin Silent
<1>1. PICK i \in DOMAIN commands :
        commands[i].reply = Own(t) /\ commands[i].kind \notin Silent
  BY DEF Queued
<1>2. CASE i = 1
  BY <1>1, <1>2, CommandTaken
<1>3. CASE i # 1
  <2>1. i - 1 \in DOMAIN commands' /\ commands'[i - 1] = commands[i]
    BY <1>3, CommandTaken
  <2> QED
    BY <1>1, <2>1 DEF Queued
<1> QED
  BY <1>2, <1>3

LEMMA StartInv ==
  ASSUME NodeInv, commands # <<>>, commands' = Tail(commands),
         Head(commands).kind \in Behaviours, Start(Head(commands))
  PROVE  NodeInv'
<1> DEFINE c == Head(commands)
           b == c.kind
           id == next_id[b]
           entry == [key |-> pending_key(b, id), reply |-> c.reply]
           o == [behaviour |-> b, id |-> id, about |-> c.about,
                 asker |-> c.reply, addressed |-> external]
<1>1. /\ commands \in Seq(Commands) /\ c \in Commands
      /\ commands' \in Seq(Commands)
      /\ Len(commands') \in Nat /\ Len(commands') <= Capacity
  BY CommandTaken
<1>2. /\ id \in Nat /\ b \in Behaviours
      /\ c.reply \in Replies
      /\ o \in Requests
      /\ entry \in [key : Behaviours \X Nat, reply : Replies]
  BY <1>1 DEF NodeInv, NodeTypeOK, Commands, Requests, pending_key
<1>3. /\ next_id' = [next_id EXCEPT ![b] = id + 1]
      /\ outstanding' = outstanding \cup {o}
      /\ UNCHANGED <<call, pending_listen, listening, external>>
  BY DEF Start
<1>4. \A p \in pending : p.key # entry.key
  BY <1>2 DEF NodeInv, NodeTypeOK, IdsAreOld, pending_key
<1>5. pending' = pending \cup {entry}
  BY <1>4 DEF Start, Insert
<1>6. NodeTypeOK'
  BY <1>1, <1>2, <1>3, <1>5, NodeAssumption
     DEF NodeInv, NodeTypeOK, Commands, Requests
<1>7. IdsAreOld'
  BY <1>2, <1>3, <1>5 DEF NodeInv, NodeTypeOK, IdsAreOld, pending_key
<1>8. OwnEntry'
  <2>1. \A p \in pending, q \in outstanding : p.key = KeyOf(q) => p.reply = q.asker
    BY DEF NodeInv, OwnEntry
  <2>2. \A p \in pending : p.key # KeyOf(o)
    BY <1>4 DEF KeyOf
  <2>3. \A q \in outstanding : KeyOf(q) # entry.key
    BY <1>2 DEF NodeInv, NodeTypeOK, IdsAreOld, KeyOf, pending_key
  <2>4. entry.reply = o.asker /\ entry.key = KeyOf(o)
    BY DEF KeyOf
  <2> QED
    BY <1>3, <1>5, <2>1, <2>2, <2>3, <2>4 DEF NodeInv, OwnEntry, KeyOf
<1>9. Remembered'
  <2> SUFFICES ASSUME NEW t \in Tasks, call'[t].state = "waiting"
               PROVE  Queued(t)' \/ Asked(t)' \/ Listens(t)'
    BY DEF Remembered
  <2>1. call[t].state = "waiting" /\ Own(t)' = Own(t)
    BY <1>3 DEF Own
  <2>2. CASE Asked(t)
    BY <1>3, <1>5, <2>1, <2>2 DEF Asked, KeyOf
  <2>3. CASE Listens(t)
    BY <1>3, <2>1, <2>3 DEF Listens
  <2>4. CASE Queued(t)
    <3>1. CASE Queued(t)'
      BY <3>1
    <3>2. CASE Own(t) = c.reply
      <4>1. entry \in pending' /\ o \in outstanding' /\ entry.key = KeyOf(o)
        BY <1>3, <1>5 DEF KeyOf
      <4> QED
        BY <2>1, <3>2, <4>1 DEF Asked, KeyOf
    <3> QED
      BY <2>1, <2>4, <3>1, <3>2, QueueShrinks
  <2> QED
    BY <2>1, <2>2, <2>3, <2>4 DEF NodeInv, Remembered
<1> QED
  BY <1>3, <1>6, <1>7, <1>8, <1>9 DEF NodeInv, WaitsForOwn

(* A command that is answered at once, or not at all.                      *)
LEMMA AtOnceInv ==
  ASSUME NodeInv, commands # <<>>, commands' = Tail(commands),
         UNCHANGED <<next_id, pending, pending_listen, outstanding, listening>>,
         external' \in BOOLEAN,
         \/ Head(commands).kind \in Silent /\ UNCHANGED call
         \/ \E ok \in BOOLEAN :
              call' = Replied(call, Head(commands).reply,
                              [ok |-> ok, to |-> Head(commands).reply])
  PROVE  NodeInv'
<1> DEFINE c == Head(commands)
<1>1. c.reply \in Replies
  BY CommandTaken DEF Commands
<1>2. /\ call' \in [Tasks -> Calls]
      /\ WaitsForOwn'
      /\ \A t \in Tasks : call'[t].state = "waiting" =>
           /\ call[t].state = "waiting" /\ Own(t)' = Own(t)
           /\ Own(t) # c.reply \/ c.kind \in Silent
  <2>1. CASE c.kind \in Silent /\ UNCHANGED call
    BY <2>1 DEF NodeInv, NodeTypeOK, Calls, WaitsForOwn, Own
  <2>2. ASSUME NEW ok \in BOOLEAN,
               call' = Replied(call, c.reply, [ok |-> ok, to |-> c.reply])
        PROVE  <1>2
    <3>1. [ok |-> ok, to |-> c.reply] \in Answers
      BY <1>1 DEF Answers
    <3> QED
      BY <1>1, <2>2, <3>1, AnsweredWaits
  <2> QED
    BY <2>1, <2>2
<1>3. NodeTypeOK'
  BY <1>2, CommandTaken DEF NodeInv, NodeTypeOK, Commands, Calls
<1>4. (IdsAreOld /\ OwnEntry)'
  BY DEF NodeInv, IdsAreOld, OwnEntry, KeyOf
<1>5. Remembered'
  <2> SUFFICES ASSUME NEW t \in Tasks, call'[t].state = "waiting"
               PROVE  Queued(t)' \/ Asked(t)' \/ Listens(t)'
    BY DEF Remembered
  <2>1. /\ call[t].state = "waiting" /\ Own(t)' = Own(t)
        /\ Own(t) # c.reply \/ c.kind \in Silent
    BY <1>2
  <2>2. Asked(t) => Asked(t)'
    BY <2>1 DEF Asked, KeyOf
  <2>3. Listens(t) => Listens(t)'
    BY <2>1 DEF Listens
  <2>4. Queued(t) => Queued(t)'
    BY <2>1, QueueShrinks
  <2> QED
    BY <2>1, <2>2, <2>3, <2>4 DEF NodeInv, Remembered
<1> QED
  BY <1>2, <1>3, <1>4, <1>5 DEF NodeInv

LEMMA ListenOnInv ==
  ASSUME NodeInv, commands # <<>>, commands' = Tail(commands),
         ListenOn(Head(commands))
  PROVE  NodeInv'
<1> DEFINE c == Head(commands)
<1>1. c.reply \in Replies
  BY CommandTaken DEF Commands
<1>2. NodeTypeOK'
  BY <1>1, CommandTaken DEF NodeInv, NodeTypeOK, Commands, ListenOn
<1>3. (WaitsForOwn /\ IdsAreOld /\ OwnEntry)'
  BY DEF NodeInv, WaitsForOwn, IdsAreOld, OwnEntry, KeyOf, ListenOn
<1>4. Remembered'
  <2> SUFFICES ASSUME NEW t \in Tasks, call'[t].state = "waiting"
               PROVE  Queued(t)' \/ Asked(t)' \/ Listens(t)'
    BY DEF Remembered
  <2>1. call[t].state = "waiting" /\ Own(t)' = Own(t)
    BY DEF ListenOn, Own
  <2>2. Asked(t) => Asked(t)'
    BY <2>1 DEF Asked, KeyOf, ListenOn
  <2>3. Listens(t) \/ Own(t) = c.reply => Listens(t)'
    BY <2>1 DEF Listens, ListenOn
  <2>4. Queued(t) => Queued(t)' \/ Own(t) = c.reply
    BY <2>1, QueueShrinks
  <2> QED
    BY <2>1, <2>2, <2>3, <2>4 DEF NodeInv, Remembered
<1> QED
  BY <1>2, <1>3, <1>4 DEF NodeInv

LEMMA CommandInv ==
  ASSUME NodeInv, on_command PROVE NodeInv'
<1> DEFINE c == Head(commands)
<1>1. /\ commands # <<>> /\ commands' = Tail(commands)
      /\ \/ c.kind \in Behaviours /\ Start(c)
         \/ c.kind \in {"kad", "listen"} /\ Refuse(c)
         \/ c.kind = "listen" /\ ListenOn(c)
         \/ /\ c.kind = "listen_addrs"
            /\ call' = Replied(call, c.reply, Ok(c.reply))
            /\ UNCHANGED <<next_id, pending, pending_listen, outstanding,
                           listening, external>>
         \/ /\ c.kind \in Silent
            /\ external' \in {TRUE, external}
            /\ UNCHANGED <<call, next_id, pending, pending_listen, outstanding,
                           listening>>
  BY DEF on_command, Silent
<1>2. external \in BOOLEAN
  BY DEF NodeInv, NodeTypeOK
<1>3. CASE Refuse(c)
  BY <1>1, <1>2, <1>3, AtOnceInv DEF Refuse, Err
<1>4. CASE /\ call' = Replied(call, c.reply, Ok(c.reply))
           /\ UNCHANGED <<next_id, pending, pending_listen, outstanding,
                          listening, external>>
  BY <1>1, <1>2, <1>4, AtOnceInv DEF Ok
<1>5. CASE /\ c.kind \in Silent
           /\ external' \in {TRUE, external}
           /\ UNCHANGED <<call, next_id, pending, pending_listen, outstanding,
                          listening>>
  BY <1>1, <1>2, <1>5, AtOnceInv
<1> QED
  BY <1>1, <1>3, <1>4, <1>5, StartInv, ListenOnInv

LEMMA NewListenAddrInv ==
  ASSUME NodeInv, NEW advertise \in BOOLEAN, NewListenAddr(advertise)
  PROVE  NodeInv'
<1>1. call \in [Tasks -> Calls] /\ external \in BOOLEAN
  BY DEF NodeInv, NodeTypeOK, Calls
<1>2. ASSUME NEW t \in Tasks
      PROVE  /\ call'[t] \in Calls
             /\ call'[t].n = call[t].n
             /\ call'[t].answer.to = call[t].answer.to
             /\ call'[t].state # "idle" => call[t].state # "idle"
             /\ call'[t].state = "waiting" =>
                  call'[t] = call[t] /\ Own(t) \notin pending_listen
  <2>1. CASE call[t].state = "waiting" /\ Own(t) \in pending_listen
    <3>1. call'[t] = [call[t] EXCEPT !.state = "returned", !.answer.ok = TRUE]
      BY <2>1 DEF NewListenAddr, Own
    <3> DEFINE c == call[t]
           a == [c.answer EXCEPT !.ok = TRUE]
    <3>3. c \in Calls /\ c.answer \in Answers
      BY <1>1 DEF Calls
    <3>4. a \in Answers /\ a.to = c.answer.to
      BY <3>3 DEF Answers
    <3>5. call'[t] = [c EXCEPT !.state = "returned", !.answer = a]
      BY <3>1
    <3>6. /\ call'[t] \in Calls
          /\ call'[t].n = c.n
          /\ call'[t].state = "returned"
          /\ call'[t].answer = a
      <4> HIDE DEF a
      <4> QED
        BY <3>3, <3>4, <3>5 DEF Calls
    <3> QED
      BY <2>1, <3>4, <3>6
  <2>2. CASE ~(call[t].state = "waiting" /\ Own(t) \in pending_listen)
    <3>1. call'[t] = call[t]
      BY <2>2 DEF NewListenAddr, Own
    <3> QED
      BY <1>1, <2>2, <3>1
  <2> QED
    BY <2>1, <2>2
<1>3. call' \in [Tasks -> Calls]
  <2>1. call' = [t \in Tasks |-> call'[t]]
    BY DEF NewListenAddr
  <2> QED
    BY <1>2, <2>1
<1>4. NodeTypeOK'
  BY <1>1, <1>3 DEF NodeInv, NodeTypeOK, NewListenAddr, Calls
<1>5. WaitsForOwn'
  BY <1>2 DEF NodeInv, WaitsForOwn
<1>6. (IdsAreOld /\ OwnEntry)'
  BY DEF NodeInv, IdsAreOld, OwnEntry, KeyOf, NewListenAddr
<1>7. Remembered'
  <2> SUFFICES ASSUME NEW t \in Tasks, call'[t].state = "waiting"
               PROVE  Queued(t)' \/ Asked(t)'
    BY DEF Remembered
  <2>1. call'[t] = call[t] /\ Own(t)' = Own(t) /\ ~Listens(t)
    BY <1>2 DEF Own, Listens
  <2> QED
    BY <2>1 DEF NodeInv, Remembered, Queued, Asked, KeyOf, NewListenAddr
<1> QED
  BY <1>4, <1>5, <1>6, <1>7 DEF NodeInv

LEMMA EndedInv ==
  ASSUME NodeInv, NEW o \in outstanding, Ended(o) PROVE NodeInv'
<1> DEFINE found == {p \in pending : p.key = KeyOf(o)}
<1>1. PICK ok \in BOOLEAN : AnswerPending(o, [ok |-> ok, to |-> o.asker])
  BY DEF Ended, Ok, Err
<1> DEFINE answer == [ok |-> ok, to |-> o.asker]
<1>2. /\ pending' = pending \ found
      /\ outstanding' = outstanding \ {o}
      /\ \/ found = {} /\ UNCHANGED call
         \/ \E p \in found : call' = Replied(call, p.reply, answer)
  BY <1>1 DEF Ended, AnswerPending, KeyOf
<1>3. \A p \in found : p.reply = o.asker
  BY DEF NodeInv, OwnEntry
<1>4. o.asker \in Replies /\ answer \in Answers
  BY DEF NodeInv, NodeTypeOK, Answers
<1>5. /\ call' \in [Tasks -> Calls]
      /\ WaitsForOwn'
      /\ \A t \in Tasks : call'[t].state = "waiting" =>
           /\ call[t].state = "waiting" /\ Own(t)' = Own(t)
           /\ Own(t) # o.asker \/ found = {}
  <2>1. CASE found = {} /\ UNCHANGED call
    BY <2>1 DEF NodeInv, NodeTypeOK, Calls, WaitsForOwn, Own
  <2>2. CASE call' = Replied(call, o.asker, answer)
    BY <1>4, <2>2, AnsweredWaits
  <2> QED
    BY <1>2, <1>3, <2>1, <2>2
<1>6. NodeTypeOK'
  BY <1>2, <1>5 DEF NodeInv, NodeTypeOK, Ended, Calls
<1>7. (IdsAreOld /\ OwnEntry)'
  BY <1>2 DEF NodeInv, IdsAreOld, OwnEntry, KeyOf, Ended
<1>8. Remembered'
  <2> SUFFICES ASSUME NEW t \in Tasks, call'[t].state = "waiting"
               PROVE  Queued(t)' \/ Asked(t)' \/ Listens(t)'
    BY DEF Remembered
  <2>1. /\ call[t].state = "waiting" /\ Own(t)' = Own(t)
        /\ Own(t) # o.asker \/ found = {}
    BY <1>5
  <2>2. CASE Asked(t)
    <3>1. PICK p \in pending, q \in outstanding : p.reply = Own(t) /\ p.key = KeyOf(q)
      BY <2>2 DEF Asked
    <3>2. p \notin found
      BY <1>3, <2>1, <3>1
    <3>3. q # o
      BY <3>1, <3>2
    <3> QED
      BY <1>2, <2>1, <3>1, <3>2, <3>3 DEF Asked, KeyOf
  <2>3. Queued(t) \/ Listens(t) => Queued(t)' \/ Listens(t)'
    BY <2>1 DEF Queued, Listens, Ended
  <2> QED
    BY <2>1, <2>2, <2>3 DEF NodeInv, Remembered
<1> QED
  BY <1>5, <1>6, <1>7, <1>8 DEF NodeInv

-----------------------------------------------------------------------------
(* announce_all is only about sites that there are.                        *)
KnownSites == sites \subseteq Stored \cup {Uri} /\ todo \subseteq sites

LEMMA InitNode ==
  Init => NodeInv /\ KnownSites
<1> SUFFICES ASSUME Init PROVE NodeInv /\ KnownSites
  OBVIOUS
<1>1. NodeInit /\ sites = Stored /\ todo = sites
  BY DEF Init
<1>2. \A t \in Tasks : /\ <<t, 0>> \in Replies
                       /\ Err(<<t, 0>>) \in Answers
                       /\ Err(<<t, 0>>).to = <<t, 0>>
  BY DEF Replies, Answers, Err
<1>3. call \in [Tasks -> Calls]
  BY <1>1, <1>2 DEF NodeInit, Calls
<1>4. NodeTypeOK
  <2>1. commands \in Seq(Commands) /\ Len(commands) = 0
    BY <1>1 DEF NodeInit
  <2>2. next_id \in [Behaviours -> Nat]
    BY <1>1 DEF NodeInit
  <2>3. Len(commands) <= Capacity
    BY <2>1, NodeAssumption
  <2>4. /\ pending = {} /\ pending_listen = {} /\ outstanding = {}
        /\ listening \in BOOLEAN /\ external \in BOOLEAN
    BY <1>1 DEF NodeInit
  <2> QED
    BY <1>3, <2>1, <2>2, <2>3, <2>4 DEF NodeTypeOK, Calls, Commands
<1>5. \A t \in Tasks : call[t].state = "idle"
  BY <1>1 DEF NodeInit
<1> QED
  BY <1>1, <1>4, <1>5
     DEF NodeInit, NodeInv, WaitsForOwn, IdsAreOld, OwnEntry, Remembered, KnownSites

(* The steps of the tasks that hold the handle are calls, and replies taken *)
(* or no longer waited for.                                                *)
LEMMA Taken ==
  ASSUME Take, NodeIdle PROVE HolderStep
BY PeerAssumption DEF Take, HolderStep

LEMMA MainHolds ==
  ASSUME KnownSites, MainSteps PROVE HolderStep /\ KnownSites'
<1> USE DEF KnownSites
<1>0. /\ Main \in Tasks /\ Seeders \subseteq Tasks /\ Seeders \subseteq Things
      /\ Stored \cup {Uri} \subseteq Things
      /\ {"listen", "listen_addrs", "naming", "providers", "external", "peer",
          "kad", "bundle"} \subseteq Kinds
  BY PeerAssumption DEF Kinds, Behaviours, Silent
<1>1. CASE MainCalls
  BY <1>0, <1>1 DEF MainCalls, HolderStep
<1>2. CASE Listened
  BY <1>2, Taken DEF Listened
<1>3. CASE GotListenAddrs
  BY <1>3, Taken DEF GotListenAddrs
<1>4. CASE Resolved
  BY <1>4, Taken DEF Resolved
<1>5. CASE GotProviders
  BY <1>5, Taken DEF GotProviders
<1>6. CASE NoSeederLeft
  BY <1>6 DEF NoSeederLeft, HolderStep, NodeIdle, nodeVars
<1>7. CASE WriteSite
  BY <1>7 DEF WriteSite, HolderStep, NodeIdle, nodeVars
<1>8. CASE Announced
  BY <1>8, Taken DEF Announced
<1>9. CASE AnnounceNext
  <2>1. PICK site \in todo : Send(Main, "kad", site) /\ todo' = todo \ {site}
    BY <1>9 DEF AnnounceNext
  <2> QED
    BY <1>0, <1>9, <2>1 DEF AnnounceNext, HolderStep
<1>10. CASE SkipSite
  BY <1>10 DEF SkipSite, HolderStep, NodeIdle, nodeVars
<1>11. CASE Provided
  BY <1>11, Taken DEF Provided, peerVars
<1>12. CASE AllAnnounced
  BY <1>12 DEF AllAnnounced, HolderStep, NodeIdle, nodeVars
<1>13. CASE Tick
  BY <1>13 DEF Tick, HolderStep, NodeIdle, nodeVars
<1>14. CASE \E s \in Seeders : Launch(s) \/ Request(s) \/ Accept(s) \/ Discard(s)
  <2> PICK s \in Seeders : Launch(s) \/ Request(s) \/ Accept(s) \/ Discard(s)
    BY <1>14
  <2>1. CASE Launch(s)
    BY <2>1 DEF Launch, HolderStep, NodeIdle, nodeVars
  <2>2. CASE Request(s)
    BY <1>0, <2>2 DEF Request, HolderStep, peerVars
  <2>3. CASE Accept(s)
    BY <1>0, <2>3 DEF Accept, HolderStep
  <2>4. CASE Discard(s)
    <3>1. {s} \in SUBSET Tasks
      BY <1>0
    <3> QED
      BY <2>4, <3>1 DEF Discard, HolderStep
  <2> QED
    BY <2>1, <2>2, <2>3, <2>4
<1> QED
  BY <1>1, <1>2, <1>3, <1>4, <1>5, <1>6, <1>7, <1>8, <1>9, <1>10, <1>11, <1>12,
     <1>13, <1>14 DEF MainSteps

LEMMA GuestHolds ==
  ASSUME NEW g \in Guests, GuestCalls(g) \/ GuestStops(g) PROVE HolderStep
<1>1. /\ g \in Tasks /\ {g} \in SUBSET Tasks
      /\ {"naming", "bundle"} \subseteq Kinds
  BY PeerAssumption DEF Kinds, Behaviours
<1>2. CASE GuestCalls(g)
  BY <1>1, <1>2 DEF GuestCalls, HolderStep
<1>3. CASE GuestStops(g)
  BY <1>1, <1>3 DEF GuestStops, HolderStep
<1> QED
  BY <1>2, <1>3

LEMMA StepInv ==
  ASSUME NodeInv, KnownSites, [Next]_vars PROVE NodeInv' /\ KnownSites'
<1>1. CASE MainSteps
  BY <1>1, MainHolds, HolderInv
<1>2. CASE Interrupt
  <2>1. HolderStep
    BY <1>2 DEF Interrupt, HolderStep, NodeIdle, nodeVars
  <2> QED
    BY <1>2, <2>1, HolderInv DEF Interrupt, KnownSites
<1>3. CASE \E g \in Guests : GuestCalls(g) \/ GuestStops(g)
  BY <1>3, GuestHolds, HolderInv DEF GuestCalls, GuestStops, peerVars, KnownSites
<1>4. CASE OnCommand
  BY <1>4, CommandInv DEF OnCommand, peerVars, KnownSites
<1>5. CASE OnNewListenAddr
  <2> DEFINE advertise == ~ options.external
  <2>1. advertise \in BOOLEAN /\ NewListenAddr(advertise)
    BY <1>5 DEF OnNewListenAddr
  <2> HIDE DEF advertise
  <2> QED
    BY <1>5, <2>1, NewListenAddrInv DEF OnNewListenAddr, peerVars, KnownSites
<1>6. CASE OnEnded
  BY <1>6, EndedInv DEF OnEnded, peerVars, KnownSites
<1>7. CASE UNCHANGED vars
  <2>1. HolderStep
    BY <1>7 DEF vars, HolderStep, NodeIdle, nodeVars
  <2> QED
    BY <1>7, <2>1, HolderInv DEF vars, peerVars, KnownSites
<1> QED
  BY <1>1, <1>2, <1>3, <1>4, <1>5, <1>6, <1>7 DEF Next

(* The invariant that both theorems rest on holds throughout.              *)
THEOREM Invariant ==
  Spec => [](NodeInv /\ KnownSites)
<1>1. Init => NodeInv /\ KnownSites
  BY InitNode
<1>2. NodeInv /\ KnownSites /\ [Next]_vars => (NodeInv /\ KnownSites)'
  BY StepInv
<1> QED
  BY <1>1, <1>2, PTL DEF Spec

(* The caller of a node method gets the reply to that very call: node.rs   *)
(* finds the reply channel by protocol and request id, and a late reply    *)
(* goes to a channel that was dropped.                                     *)
THEOREM RepliesReachTheirCallers ==
  Spec => []RepliesMatch
<1>1. NodeInv => RepliesMatch
  BY DEF NodeInv, WaitsForOwn, RepliesMatch
<1> QED
  BY <1>1, Invariant, PTL

(* Whatever a caller waits for is still on its way: a command in the       *)
(* channel, a request that the swarm has to end, or an address to listen   *)
(* on.  No interleaving of calls, replies and failures loses an entry of   *)
(* the pending maps of node.rs.                                            *)
THEOREM EveryCallIsRemembered ==
  Spec => []NoCallIsForgotten
<1>1. NodeInv => NoCallIsForgotten
  BY DEF NodeInv, Remembered, NoCallIsForgotten, Queued, Asked, Listens, Own, KeyOf
<1> QED
  BY <1>1, Invariant, PTL
-----------------------------------------------------------------------------
(* The argument for the addresses of provider records is about the order   *)
(* of commands: main announces nothing before an address is known, or an   *)
(* "external" command is in the channel ahead of the announcement.         *)
SomeAddress ==
  external \/ \E j \in DOMAIN commands : commands[j].kind = "external"

ExternalFirst ==
  \A i \in DOMAIN commands : commands[i].kind = "kad" =>
    external \/ \E j \in DOMAIN commands : j < i /\ commands[j].kind = "external"

(* While main listens it has asked for nothing else, so its call ends well *)
(* only with an address, which the node then advertises.                   *)
MainListens ==
  /\ \A i \in DOMAIN commands :
       commands[i].reply[1] = Main => commands[i].kind = "listen"
  /\ \A p \in pending : p.reply[1] # Main
  /\ \/ options.external \/ external
     \/ ~ (call[Main].state = "returned" /\ call[Main].answer.ok)

AddressInv ==
  /\ AnnouncedWithAddresses
  /\ ExternalFirst
  /\ pc \notin {"listen", "external", "exited"} => SomeAddress
  /\ pc = "listen" => MainListens

LEMMA SendAddress ==
  ASSUME NodeInv, NodeIdle, ExternalFirst, NEW t \in Tasks, NEW kind \in Kinds,
         NEW about \in Things \cup {None}, Send(t, kind, about),
         kind = "kad" => SomeAddress
  PROVE  /\ ExternalFirst'
         /\ SomeAddress \/ kind = "external" => SomeAddress'
         /\ \A i \in DOMAIN commands' :
              \/ i \in DOMAIN commands /\ commands'[i] = commands[i]
              \/ commands'[i].reply[1] = t /\ commands'[i].kind = kind
         /\ \A s \in Tasks \ {t} : call'[s] = call[s]
         /\ call'[t] = call[t] \/ call'[t].state = "waiting"
<1> DEFINE reply == <<t, call[t].n + 1>>
           command == [kind |-> kind, about |-> about, reply |-> reply]
           n == Len(commands)
<1>1. command \in Commands
  BY DEF NodeInv, NodeTypeOK, Commands, Replies
<1>2. /\ commands \in Seq(Commands)
      /\ commands' = Append(commands, command)
  BY DEF Send, NodeInv, NodeTypeOK, Commands
<1>3. /\ DOMAIN commands = 1..n /\ DOMAIN commands' = 1..(n + 1) /\ n \in Nat
      /\ commands'[n + 1] = command
      /\ \A i \in DOMAIN commands : commands'[i] = commands[i]
  BY <1>1, <1>2
<1>4. ExternalFirst'
  <2> SUFFICES ASSUME NEW i \in DOMAIN commands', commands'[i].kind = "kad"
               PROVE  external \/ \E j \in DOMAIN commands' :
                                    j < i /\ commands'[j].kind = "external"
    BY DEF ExternalFirst, NodeIdle
  <2>1. CASE i \in DOMAIN commands
    BY <1>3, <2>1 DEF ExternalFirst
  <2>2. CASE i = n + 1
    BY <1>3, <2>2 DEF SomeAddress
  <2> QED
    BY <1>3, <2>1, <2>2
<1>5. SomeAddress \/ kind = "external" => SomeAddress'
  BY <1>3 DEF SomeAddress, NodeIdle
<1>6. \A i \in DOMAIN commands' :
        \/ i \in DOMAIN commands /\ commands'[i] = commands[i]
        \/ commands'[i].reply[1] = t /\ commands'[i].kind = kind
  BY <1>3
<1>7. /\ \A s \in Tasks \ {t} : call'[s] = call[s]
      /\ call'[t] = call[t] \/ call'[t].state = "waiting"
  BY DEF Send, NodeInv, NodeTypeOK
<1> QED
  BY <1>4, <1>5, <1>6, <1>7

LEMMA CommandAddress ==
  ASSUME NodeInv, AnnouncedWithAddresses, ExternalFirst, on_command
  PROVE  /\ AnnouncedWithAddresses'
         /\ ExternalFirst'
         /\ SomeAddress => SomeAddress'
         /\ external => external'
<1> DEFINE c == Head(commands)
           n == Len(commands)
<1>1. /\ commands \in Seq(Commands) /\ commands # <<>>
      /\ commands' = Tail(commands)
  BY DEF on_command, NodeInv, NodeTypeOK, Commands
<1>2. /\ n \in Nat \ {0} /\ DOMAIN commands = 1..n /\ DOMAIN commands' = 1..(n - 1)
      /\ c = commands[1]
      /\ \A i \in 1..(n - 1) : commands'[i] = commands[i + 1]
  BY <1>1
<1>3. /\ external => external'
      /\ c.kind = "external" => external'
  BY DEF on_command, Start, Refuse, ListenOn, Behaviours
<1>4. ExternalFirst'
  <2> SUFFICES ASSUME NEW i \in 1..(n - 1), commands'[i].kind = "kad", ~ external'
               PROVE  \E j \in 1..(n - 1) : j < i /\ commands'[j].kind = "external"
    BY <1>2 DEF ExternalFirst
  <2>1. PICK j \in 1..n : j < i + 1 /\ commands[j].kind = "external"
    BY <1>2, <1>3 DEF ExternalFirst
  <2>2. j # 1 /\ j - 1 \in 1..(n - 1) /\ commands'[j - 1] = commands[j]
    BY <1>2, <1>3, <2>1
  <2> QED
    BY <2>1, <2>2
<1>5. SomeAddress => SomeAddress'
  <2> SUFFICES ASSUME SomeAddress, ~ external'
               PROVE  \E j \in 1..(n - 1) : commands'[j].kind = "external"
    BY <1>2 DEF SomeAddress
  <2>1. PICK j \in 1..n : commands[j].kind = "external"
    BY <1>2, <1>3 DEF SomeAddress
  <2>2. j # 1 /\ j - 1 \in 1..(n - 1) /\ commands'[j - 1] = commands[j]
    BY <1>2, <1>3, <2>1
  <2> QED
    BY <2>1, <2>2
<1>6. AnnouncedWithAddresses'
  <2>1. c.kind = "kad" => external
    BY <1>2 DEF ExternalFirst
  <2>2. outstanding' = outstanding
        \/ outstanding' = outstanding \cup
             {[behaviour |-> c.kind, id |-> next_id[c.kind], about |-> c.about,
               asker |-> c.reply, addressed |-> external]}
    BY DEF on_command, Start, Refuse, ListenOn
  <2> QED
    BY <2>1, <2>2 DEF AnnouncedWithAddresses
<1> QED
  BY <1>3, <1>4, <1>5, <1>6

(* While main listens, a command of another task changes nothing for main. *)
LEMMA CommandMain ==
  ASSUME NodeInv, MainListens, on_command, UNCHANGED options
  PROVE  MainListens'
<1> DEFINE c == Head(commands)
           n == Len(commands)
<1>1. /\ commands \in Seq(Commands) /\ commands # <<>>
      /\ commands' = Tail(commands)
  BY DEF on_command, NodeInv, NodeTypeOK, Commands
<1>2. /\ n \in Nat \ {0} /\ DOMAIN commands = 1..n /\ DOMAIN commands' = 1..(n - 1)
      /\ c = commands[1]
      /\ \A i \in 1..(n - 1) : commands'[i] = commands[i + 1]
  BY <1>1
<1>3. \A i \in DOMAIN commands' :
        commands'[i].reply[1] = Main => commands'[i].kind = "listen"
  BY <1>2 DEF MainListens
<1>4. c.reply[1] = Main => c.kind = "listen"
  BY <1>2 DEF MainListens
<1>5. \A p \in pending' : p.reply[1] # Main
  <2>1. \/ UNCHANGED pending
        \/ /\ c.kind \in Behaviours
           /\ \A p \in pending' : p \in pending \/ p.reply = c.reply
    BY DEF on_command, Start, Refuse, ListenOn, Insert
  <2> QED
    BY <1>4, <2>1 DEF MainListens, Behaviours
<1>6. /\ external => external'
      /\ \/ call'[Main] = call[Main]
         \/ ~ call'[Main].answer.ok
  <2>1. Main \in Tasks /\ call \in [Tasks -> Calls] /\ c.reply \in Replies
    BY PeerAssumption, <1>1, CommandTaken DEF NodeInv, NodeTypeOK, Calls, Commands
  <2>2. CASE Refuse(c)
    <3>1. Err(c.reply) \in Answers /\ ~ Err(c.reply).ok
      BY <2>1 DEF Answers, Err
    <3> QED
      BY <2>1, <2>2, <3>1, RepliedFacts DEF Refuse
  <2>3. CASE c.kind = "listen_addrs" /\ call' = Replied(call, c.reply, Ok(c.reply))
             /\ UNCHANGED external
    <3>1. Ok(c.reply) \in Answers
      BY <2>1 DEF Answers, Ok
    <3> QED
      BY <1>4, <2>1, <2>3, <3>1, RepliedFacts DEF Own
  <2>4. CASE UNCHANGED call /\ (external => external')
    BY <2>4
  <2>5. \/ Refuse(c)
        \/ c.kind = "listen_addrs" /\ call' = Replied(call, c.reply, Ok(c.reply))
             /\ UNCHANGED external
        \/ UNCHANGED call /\ (external => external')
    BY DEF on_command, Start, ListenOn
  <2> HIDE DEF c
  <2> QED
    BY <2>2, <2>3, <2>4, <2>5
<1> QED
  BY <1>3, <1>5, <1>6 DEF MainListens

Early == {"listen", "external", "exited"}

(* A call by a holder of the handle.                                       *)
LEMMA SendKeeps ==
  ASSUME NodeInv, AddressInv, NodeIdle, UNCHANGED options, NEW t \in Tasks,
         NEW kind \in Kinds, NEW about \in Things \cup {None},
         Send(t, kind, about),
         kind = "kad" => pc \notin Early,
         t = Main /\ pc = "listen" => kind = "listen",
         \/ UNCHANGED pc
         \/ pc' # "listen" /\ (pc \notin Early \/ kind = "external")
  PROVE  AddressInv'
<1>1. kind = "kad" => SomeAddress
  BY DEF AddressInv, Early
<1>2. /\ ExternalFirst'
      /\ SomeAddress \/ kind = "external" => SomeAddress'
      /\ \A i \in DOMAIN commands' :
           \/ i \in DOMAIN commands /\ commands'[i] = commands[i]
           \/ commands'[i].reply[1] = t /\ commands'[i].kind = kind
      /\ \A s \in Tasks \ {t} : call'[s] = call[s]
      /\ call'[t] = call[t] \/ call'[t].state = "waiting"
  BY <1>1, SendAddress DEF AddressInv
<1>3. AnnouncedWithAddresses'
  BY DEF AddressInv, AnnouncedWithAddresses, NodeIdle
<1>4. (pc \notin Early)' => SomeAddress'
  BY <1>2 DEF AddressInv, Early
<1>5. ASSUME pc' = "listen" PROVE MainListens'
  <2>1. pc = "listen" /\ MainListens /\ Main \in Tasks
    BY <1>5, PeerAssumption DEF AddressInv
  <2>2. call'[Main] = call[Main] \/ call'[Main].state = "waiting"
    BY <1>2, <2>1
  <2>3. \A i \in DOMAIN commands' :
          commands'[i].reply[1] = Main => commands'[i].kind = "listen"
    BY <1>2, <2>1 DEF MainListens
  <2> QED
    BY <2>1, <2>2, <2>3 DEF MainListens, NodeIdle
<1> QED
  BY <1>2, <1>3, <1>4, <1>5 DEF AddressInv, Early

(* A reply taken, a call given up, or a step that is not about the node.   *)
LEMMA OthersKeep ==
  ASSUME AddressInv, NodeIdle, UNCHANGED <<commands, options>>,
         \/ pc' # "listen"
         \/ /\ pc = "listen"
            /\ call'[Main] = call[Main] \/ call'[Main].state = "idle",
         pc' \in Early \/ pc \notin Early \/ external
  PROVE  AddressInv'
<1>1. AnnouncedWithAddresses' /\ ExternalFirst'
  BY DEF AddressInv, AnnouncedWithAddresses, ExternalFirst, NodeIdle
<1>2. (pc \notin Early)' => SomeAddress'
  BY DEF AddressInv, SomeAddress, NodeIdle, Early
<1>3. pc' = "listen" => MainListens'
  BY DEF AddressInv, MainListens, NodeIdle
<1> QED
  BY <1>1, <1>2, <1>3 DEF AddressInv, Early

LEMMA DroppedCalls ==
  ASSUME NodeInv, NEW ts \in SUBSET Tasks, call' = Dropped(call, ts)
  PROVE  /\ Main \in ts => call'[Main].state = "idle"
         /\ Main \notin ts => call'[Main] = call[Main]
BY PeerAssumption DEF NodeInv, NodeTypeOK, Dropped

LEMMA MainKeepsAddress ==
  ASSUME NodeInv, KnownSites, AddressInv, MainSteps PROVE AddressInv'
<1>0. /\ Main \in Tasks /\ Seeders \subseteq Tasks /\ Main \notin Seeders
      /\ {Main} \in SUBSET Tasks /\ \A s \in Seeders : {s} \in SUBSET Tasks
      /\ Seeders \subseteq Things /\ Stored \cup {Uri} \subseteq Things
      /\ {"listen", "listen_addrs", "naming", "providers", "external", "peer",
          "kad", "bundle"} \subseteq Kinds
  BY PeerAssumption DEF Kinds, Behaviours, Silent
<1> USE DEF Go, Early
<1>1. CASE MainCalls
  <2>1. NodeIdle /\ UNCHANGED options
    BY <1>1 DEF MainCalls
  <2>2. CASE pc \in {"listen", "listen_addrs", "naming", "providers"}
             /\ Send(Main, pc, None) /\ UNCHANGED pc
    BY <1>0, <2>1, <2>2, SendKeeps
  <2>3. CASE pc = "external" /\ Send(Main, pc, None) /\ pc' = "listen_addrs"
    BY <1>0, <2>1, <2>3, SendKeeps
  <2>4. CASE pc = "peer" /\ Send(Main, pc, None) /\ pc' \in {"kad", "naming"}
    BY <1>0, <2>1, <2>4, SendKeeps
  <2>5. CASE pc = "seed" /\ Send(Main, "kad", Uri) /\ UNCHANGED pc
    BY <1>0, <2>1, <2>5, SendKeeps
  <2> QED
    BY <1>1, <2>2, <2>3, <2>4, <2>5 DEF MainCalls
<1>2. CASE Listened
  <2>1. NodeIdle /\ UNCHANGED <<commands, options>> /\ pc = "listen"
    BY <1>2 DEF Listened, Take
  <2>2. call'[Main].state = "idle"
    BY <1>0, <1>2, DroppedCalls DEF Listened, Take
  <2>3. options.external \/ external \/ ~ call[Main].answer.ok
    BY <1>2, <2>1 DEF AddressInv, MainListens, Listened, Take
  <2>4. pc' \in Early \/ external
    BY <1>2, <2>3 DEF Listened
  <2> QED
    BY <2>1, <2>2, <2>4, OthersKeep
<1>3. CASE GotListenAddrs
  BY <1>3, OthersKeep DEF GotListenAddrs, Take
<1>4. CASE Resolved
  BY <1>4, OthersKeep DEF Resolved, Take
<1>5. CASE GotProviders
  BY <1>5, OthersKeep DEF GotProviders, Take
<1>6. CASE NoSeederLeft
  BY <1>6, OthersKeep DEF NoSeederLeft, nodeVars, NodeIdle
<1>7. CASE WriteSite
  BY <1>7, OthersKeep DEF WriteSite, nodeVars, NodeIdle
<1>8. CASE Announced
  BY <1>8, OthersKeep DEF Announced, Take
<1>9. CASE AnnounceNext
  <2>1. PICK site \in todo : Send(Main, "kad", site)
    BY <1>9 DEF AnnounceNext
  <2>2. site \in Things
    BY <1>0 DEF KnownSites
  <2> QED
    BY <1>0, <1>9, <2>1, <2>2, SendKeeps DEF AnnounceNext
<1>10. CASE SkipSite
  BY <1>10, OthersKeep DEF SkipSite, nodeVars, NodeIdle
<1>11. CASE Provided
  BY <1>11, OthersKeep DEF Provided, Take, peerVars
<1>12. CASE AllAnnounced
  BY <1>12, OthersKeep DEF AllAnnounced, nodeVars, NodeIdle
<1>13. CASE Tick
  BY <1>13, OthersKeep DEF Tick, nodeVars, NodeIdle
<1>14. CASE \E s \in Seeders : Launch(s) \/ Request(s) \/ Accept(s) \/ Discard(s)
  <2> PICK s \in Seeders : Launch(s) \/ Request(s) \/ Accept(s) \/ Discard(s)
    BY <1>14
  <2>1. CASE Launch(s)
    BY <2>1, OthersKeep DEF Launch, nodeVars, NodeIdle
  <2>2. CASE Request(s)
    BY <1>0, <2>2, SendKeeps DEF Request, peerVars
  <2>3. CASE Accept(s)
    BY <2>3, OthersKeep DEF Accept
  <2>4. CASE Discard(s)
    BY <2>4, OthersKeep DEF Discard
  <2> QED
    BY <2>1, <2>2, <2>3, <2>4
<1> QED
  BY <1>1, <1>2, <1>3, <1>4, <1>5, <1>6, <1>7, <1>8, <1>9, <1>10, <1>11, <1>12,
     <1>13, <1>14 DEF MainSteps

LEMMA NodeKeepsAddress ==
  ASSUME NodeInv, AddressInv, UNCHANGED peerVars,
         OnCommand \/ OnNewListenAddr \/ OnEnded
  PROVE  AddressInv'
<1>0. Main \in Tasks /\ call \in [Tasks -> Calls] /\ UNCHANGED <<options, pc>>
  BY PeerAssumption DEF NodeInv, NodeTypeOK, Calls, peerVars
<1>1. CASE OnCommand
  <2>1. /\ AnnouncedWithAddresses' /\ ExternalFirst'
        /\ SomeAddress => SomeAddress'
    BY <1>1, CommandAddress DEF OnCommand, AddressInv
  <2>2. pc' = "listen" => MainListens'
    BY <1>0, <1>1, CommandMain DEF OnCommand, AddressInv
  <2> QED
    BY <1>0, <2>1, <2>2 DEF AddressInv
<1>2. CASE OnNewListenAddr
  <2>1. /\ external' = (external \/ ~ options.external)
        /\ UNCHANGED <<commands, pending, outstanding>>
    BY <1>2 DEF OnNewListenAddr, NewListenAddr
  <2>2. AnnouncedWithAddresses' /\ ExternalFirst' /\ (SomeAddress => SomeAddress')
    BY <2>1 DEF AddressInv, AnnouncedWithAddresses, ExternalFirst, SomeAddress
  <2>3. pc' = "listen" => MainListens'
    BY <1>0, <2>1 DEF AddressInv, MainListens
  <2> QED
    BY <1>0, <2>2, <2>3 DEF AddressInv
<1>3. CASE OnEnded
  <2>1. PICK o \in outstanding : Ended(o)
    BY <1>3 DEF OnEnded
  <2>2. PICK answer \in {Ok(o.asker), Err(o.asker)} : AnswerPending(o, answer)
    BY <2>1 DEF Ended
  <2>3. /\ UNCHANGED <<commands, external>>
        /\ outstanding' \subseteq outstanding /\ pending' \subseteq pending
    BY <2>1, <2>2 DEF Ended, AnswerPending
  <2>4. AnnouncedWithAddresses' /\ ExternalFirst' /\ (SomeAddress => SomeAddress')
    BY <2>3 DEF AddressInv, AnnouncedWithAddresses, ExternalFirst, SomeAddress
  <2>5. ASSUME pc' = "listen" PROVE MainListens'
    <3>1. MainListens
      BY <1>0, <2>5 DEF AddressInv
    <3>2. answer \in Answers
      <4>1. o.asker \in Replies
        BY DEF NodeInv, NodeTypeOK
      <4>2. Ok(o.asker) \in Answers /\ Err(o.asker) \in Answers
        BY <4>1 DEF Answers, Ok, Err
      <4>3. answer = Ok(o.asker) \/ answer = Err(o.asker)
        BY <2>2
      <4> QED
        BY <4>2, <4>3
    <3>3. UNCHANGED call \/ \E p \in pending : call' = Replied(call, p.reply, answer)
      BY <2>2 DEF AnswerPending
    <3>4. \A p \in pending : p.reply \in Replies /\ p.reply[1] # Main
      BY <3>1 DEF MainListens, NodeInv, NodeTypeOK
    <3>5. call'[Main] = call[Main]
      BY <1>0, <3>2, <3>3, <3>4, RepliedFacts DEF Own
    <3> QED
      BY <1>0, <2>3, <3>1, <3>5 DEF MainListens
  <2> QED
    BY <1>0, <2>4, <2>5 DEF AddressInv
<1> QED
  BY <1>1, <1>2, <1>3

LEMMA AddressStep ==
  ASSUME NodeInv, KnownSites, AddressInv, [Next]_vars PROVE AddressInv'
<1>1. CASE MainSteps
  BY <1>1, MainKeepsAddress
<1>2. CASE Interrupt
  BY <1>2, OthersKeep DEF Interrupt, nodeVars, NodeIdle, Go, Early
<1>3. CASE \E g \in Guests : GuestCalls(g) \/ GuestStops(g)
  <2> PICK g \in Guests : GuestCalls(g) \/ GuestStops(g)
    BY <1>3
  <2>1. /\ g \in Tasks /\ {g} \in SUBSET Tasks /\ g # Main
        /\ {"naming", "bundle"} \subseteq Kinds
    BY PeerAssumption DEF Kinds, Behaviours
  <2>2. CASE GuestCalls(g)
    BY <2>1, <2>2, SendKeeps DEF GuestCalls, peerVars
  <2>3. CASE GuestStops(g)
    <3>1. call'[Main] = call[Main]
      BY <2>1, <2>3, DroppedCalls DEF GuestStops
    <3> QED
      BY <2>3, <3>1, OthersKeep DEF GuestStops, peerVars
  <2> QED
    BY <2>2, <2>3
<1>4. CASE OnCommand \/ OnNewListenAddr \/ OnEnded
  BY <1>4, NodeKeepsAddress DEF OnCommand, OnNewListenAddr, OnEnded
<1>5. CASE UNCHANGED vars
  BY <1>5, OthersKeep DEF vars, nodeVars, peerVars, NodeIdle
<1> QED
  BY <1>1, <1>2, <1>3, <1>4, <1>5 DEF Next

(* No provider record is published without an address: listen is answered  *)
(* only when a listener reported one, an --external address is put into    *)
(* the channel before the first announcement, and the channel keeps the    *)
(* order (bin/mdp2p-node.rs, node.rs).                                     *)
THEOREM RecordsHaveAddresses ==
  Spec => []AnnouncedWithAddresses
<1>1. Init => AddressInv
  <2> SUFFICES ASSUME Init PROVE AddressInv
    OBVIOUS
  <2>1. /\ DOMAIN commands = {} /\ pending = {} /\ outstanding = {}
        /\ pc = "listen"
    BY DEF Init, NodeInit
  <2>2. call[Main].state = "idle"
    BY PeerAssumption DEF Init, NodeInit
  <2> QED
    BY <2>1, <2>2 DEF AddressInv, AnnouncedWithAddresses, ExternalFirst, MainListens
<1>2. NodeInv /\ KnownSites /\ AddressInv /\ [Next]_vars => AddressInv'
  BY AddressStep
<1>3. AddressInv => AnnouncedWithAddresses
  BY DEF AddressInv
<1> QED
  BY <1>1, <1>2, <1>3, Invariant, PTL DEF Spec
-----------------------------------------------------------------------------
AttemptsTyped ==
  attempt \in [Seeders -> {"unknown", "queued", "running", "done"}]

LEMMA AttemptsInv == Spec => []AttemptsTyped
<1>1. Init => AttemptsTyped
  BY DEF Init, AttemptsTyped
<1>2. AttemptsTyped /\ [Next]_vars => AttemptsTyped'
  BY DEF AttemptsTyped, Next, MainSteps, MainCalls, Listened, GotListenAddrs,
         Resolved, GotProviders, NoSeederLeft, WriteSite, Announced,
         AnnounceNext, SkipSite, Provided, AllAnnounced, Tick, Launch, Request,
         Accept, Discard, Interrupt, GuestCalls, GuestStops, OnCommand,
         OnNewListenAddr, OnEnded, vars, peerVars
<1> QED
  BY <1>1, <1>2, PTL DEF Spec

(* A download that ends without a bundle has tried every provider it was   *)
(* given, however many there are and however few may run at once: only     *)
(* NoSeederLeft ends it so, when nothing runs, and then a queued seeder    *)
(* could have been launched since MAX_PARALLEL_SEEDERS is positive         *)
(* (fetch.rs).                                                             *)
THEOREM AllProvidersAreTried ==
  Spec => EveryProviderIsTried
<1> DEFINE Tried == \A s \in Seeders : attempt[s] \in {"unknown", "done"}
<1>1. AttemptsTyped /\ [Next]_vars
        => [pc = "download" /\ pc' = "exited" => Tried]_vars
  <2> SUFFICES ASSUME AttemptsTyped, Next,
                      pc = "download", pc' = "exited"
               PROVE  Tried
    OBVIOUS
  <2>1. NoSeederLeft
    BY DEF Next, MainSteps, MainCalls, Listened, GotListenAddrs, Resolved,
           GotProviders, WriteSite, Announced, AnnounceNext, SkipSite,
           Provided, AllAnnounced, Tick, Launch, Request, Accept, Discard,
           Interrupt, GuestCalls, GuestStops, OnCommand, OnNewListenAddr,
           OnEnded, peerVars, Go
  <2>2. MayLaunch
    <3>1. Cardinality(Running) = 0
      BY <2>1, FS_EmptySet DEF NoSeederLeft
    <3> QED
      BY <3>1, PeerAssumption DEF MayLaunch
  <2>3. ASSUME NEW s \in Seeders PROVE attempt[s] \in {"unknown", "done"}
    <3>1. attempt[s] # "queued"
      BY <2>1, <2>2 DEF NoSeederLeft
    <3>2. attempt[s] # "running"
      BY <2>1 DEF NoSeederLeft, Running
    <3> QED
      BY <3>1, <3>2 DEF AttemptsTyped
  <2> QED
    BY <2>3
<1> QED
  BY <1>1, AttemptsInv, PTL DEF Spec, EveryProviderIsTried
=============================================================================
