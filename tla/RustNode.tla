------------------------------ MODULE RustNode ------------------------------
(***************************************************************************)
(* The node of the Rust client (rust/mdp2p-node/src/node.rs): one task     *)
(* drives the swarm and answers the commands of any number of holders of   *)
(* a Node handle.  A call sends a command with the sending end of a oneshot*)
(* channel and awaits the other end; dropping the call loses the reply.    *)
(*                                                                         *)
(* This module has the calls and the event loop; RustPeer has the program  *)
(* that makes the calls.  The swarm itself is rust-libp2p: it ends every   *)
(* request and every query exactly once, with a result or a failure.       *)
(***************************************************************************)
EXTENDS Naturals, FiniteSets, Sequences

CONSTANTS
  Tasks,     \* the futures that hold a handle
  Things,    \* what a command can be about: a seeder, or a site
  Capacity,  \* mpsc::channel(64)
  None

ASSUME NodeAssumption ==
  /\ Capacity \in Nat \ {0}
  /\ None \notin Things

VARIABLES
  commands,       \* the channel to the event loop
  call,           \* call[t]: the call that t is in, or was in last
  next_id,        \* next_id[b]: the next id that behaviour b gives out
  pending,        \* pending_json, pending_providers and pending_provide
  pending_listen, \* the calls of listen without an answer
  outstanding,    \* requests and queries that the swarm has not ended
  listening,      \* has listen_on succeeded?
  external        \* does the node know an address to advertise?

nodeVars == <<commands, call, next_id, pending, pending_listen, outstanding,
              listening, external>>

\* The kinds of request, under the name of the behaviour that sends them.
Behaviours == {"naming", "bundle", "providers", "kad"}
\* Command::AddExternalAddress and AddPeer carry no reply channel.
Silent == {"external", "peer"}
Kinds == Behaviours \cup Silent \cup {"listen", "listen_addrs"}

\* The n-th call of t, and the oneshot channel made for it.
Replies == Tasks \X Nat
\* What is sent through one: a result or an error, of the call `to`.
Answers == [ok : BOOLEAN, to : Replies]
-----------------------------------------------------------------------------
\* Node::call, and the two methods that only send
Send(t, kind, about) ==
  /\ call[t].state = "idle"
  /\ Len(commands) < Capacity
  /\ LET reply == <<t, call[t].n + 1>> IN
       /\ commands' = Append(commands,
                             [kind |-> kind, about |-> about, reply |-> reply])
       /\ call' = [call EXCEPT ![t] =
                     IF kind \in Silent THEN @
                     ELSE [n |-> reply[2], state |-> "waiting",
                           answer |-> [ok |-> FALSE, to |-> reply]]]

\* The future of the call is dropped, and the receiving end with it.
Dropped(calls, ts) ==
  [t \in Tasks |-> IF t \in ts THEN [calls[t] EXCEPT !.state = "idle"]
                   ELSE calls[t]]

Ok(reply) == [ok |-> TRUE, to |-> reply]
Err(reply) == [ok |-> FALSE, to |-> reply]

\* oneshot::Sender::send: lost unless the receiver is still there
Replied(calls, reply, answer) ==
  [t \in Tasks |->
     IF t = reply[1] /\ calls[t].n = reply[2] /\ calls[t].state = "waiting"
     THEN [calls[t] EXCEPT !.state = "returned", !.answer = answer]
     ELSE calls[t]]
-----------------------------------------------------------------------------
(* Definitions marked BROKEN are faulty variants of the definition that    *)
(* follows them; no action uses one.                                       *)

(* BROKEN: the protocol is no part of the key of pending_json. *)
key_of_id(behaviour, id) ==
  <<IF behaviour = "bundle" THEN "naming" ELSE behaviour, id>>

\* The key of a request or query in the map that has its reply channel.
pending_key(behaviour, id) == <<behaviour, id>>

\* HashMap::insert
Insert(map, key, reply) ==
  {p \in map : p.key # key} \cup {[key |-> key, reply |-> reply]}

\* The behaviour sends a request, or starts a query.
Start(command) ==
  LET b == command.kind
      id == next_id[b]
  IN /\ next_id' = [next_id EXCEPT ![b] = id + 1]
     /\ pending' = Insert(pending, pending_key(b, id), command.reply)
     /\ outstanding' = outstanding \cup
          {[behaviour |-> b, id |-> id, about |-> command.about,
            asker |-> command.reply, addressed |-> external]}
     /\ UNCHANGED <<call, pending_listen, listening, external>>

\* start_providing and listen_on may refuse.
Refuse(command) ==
  /\ call' = Replied(call, command.reply, Err(command.reply))
  /\ UNCHANGED <<next_id, pending, pending_listen, outstanding, listening,
                 external>>

(* BROKEN: listen is answered without waiting for an address. *)
ListenOnAndReply(command) ==
  /\ listening' = TRUE
  /\ call' = Replied(call, command.reply, Ok(command.reply))
  /\ UNCHANGED <<next_id, pending, pending_listen, outstanding, external>>

\* The reply waits for SwarmEvent::NewListenAddr.
ListenOn(command) ==
  /\ listening' = TRUE
  /\ pending_listen' = pending_listen \cup {command.reply}
  /\ UNCHANGED <<call, next_id, pending, outstanding, external>>

on_command ==
  /\ commands # << >>
  /\ commands' = Tail(commands)
  /\ LET command == Head(commands) IN
       \/ command.kind \in Behaviours /\ Start(command)
       \/ command.kind \in {"kad", "listen"} /\ Refuse(command)
       \/ command.kind = "listen" /\ ListenOn(command)
       \/ /\ command.kind = "listen_addrs"
          /\ call' = Replied(call, command.reply, Ok(command.reply))
          /\ UNCHANGED <<next_id, pending, pending_listen, outstanding,
                         listening, external>>
       \/ /\ command.kind = "external"
          /\ external' = TRUE
          /\ UNCHANGED <<call, next_id, pending, pending_listen, outstanding,
                         listening>>
       \/ /\ command.kind = "peer"
          /\ UNCHANGED <<call, next_id, pending, pending_listen, outstanding,
                         listening, external>>

(* An address of some listener, which need not be the listener that the    *)
(* oldest pending call asked for: all of them are answered.                *)
NewListenAddr(advertise_listen_addrs) ==
  /\ listening
  /\ external' = (external \/ advertise_listen_addrs)
  /\ call' = [t \in Tasks |->
                IF call[t].state = "waiting"
                   /\ <<t, call[t].n>> \in pending_listen
                THEN [call[t] EXCEPT !.state = "returned", !.answer.ok = TRUE]
                ELSE call[t]]
  /\ pending_listen' = {}
  /\ UNCHANGED <<commands, next_id, pending, outstanding, listening>>

(* BROKEN: only responses are looked up, an OutboundFailure is logged. *)
OnlyResponsesAnswer(o, answer) ==
  IF ~ answer.ok THEN UNCHANGED <<pending, call>>
  ELSE /\ pending' = {p \in pending :
                        p.key # pending_key(o.behaviour, o.id)}
       /\ \E p \in pending :
            /\ p.key = pending_key(o.behaviour, o.id)
            /\ call' = Replied(call, p.reply, answer)

\* The entry is removed from its map, and its caller answered.
AnswerPending(o, answer) ==
  LET found == {p \in pending : p.key = pending_key(o.behaviour, o.id)}
  IN /\ pending' = pending \ found
     /\ IF found = {} THEN UNCHANGED call
        ELSE \E p \in found : call' = Replied(call, p.reply, answer)

(* Event::Message or Event::OutboundFailure of a request, and the end of a *)
(* StartProviding query.                                                   *)
Ended(o) ==
  /\ outstanding' = outstanding \ {o}
  /\ \E answer \in {Ok(o.asker), Err(o.asker)} : AnswerPending(o, answer)
  /\ UNCHANGED <<commands, next_id, pending_listen, listening, external>>
-----------------------------------------------------------------------------
NodeInit ==
  /\ commands = << >>
  /\ call = [t \in Tasks |-> [n |-> 0, state |-> "idle", answer |-> Err(<<t, 0>>)]]
  /\ next_id = [b \in Behaviours |-> 1]
  /\ pending = {}
  /\ pending_listen = {}
  /\ outstanding = {}
  /\ listening = FALSE
  /\ external = FALSE

NodeTypeOK ==
  /\ commands \in Seq([kind : Kinds, about : Things \cup {None},
                       reply : Replies])
  /\ Len(commands) <= Capacity
  /\ call \in [Tasks -> [n : Nat, state : {"idle", "waiting", "returned"},
                         answer : Answers]]
  /\ next_id \in [Behaviours -> Nat]
  /\ pending \subseteq [key : Behaviours \X Nat, reply : Replies]
  /\ pending_listen \subseteq Replies
  /\ outstanding \subseteq
       [behaviour : Behaviours, id : Nat, about : Things \cup {None},
        asker : Replies, addressed : BOOLEAN]
  /\ listening \in BOOLEAN
  /\ external \in BOOLEAN
-----------------------------------------------------------------------------
(* A caller is given the result, or the failure, of its own request,       *)
(* though the counters of the behaviours give out the same ids ("Request   *)
(* ids are per behaviour (each counter starts at 1), so the protocol is    *)
(* part of the key", node.rs) and though the replies to dropped calls come *)
(* while their task is in a later call.                                    *)
RepliesMatch ==
  \A t \in Tasks :
    call[t].state = "returned" => call[t].answer.to = <<t, call[t].n>>

(* No call waits for a reply that nobody will send: its command is still   *)
(* in the channel, or its reply channel is in the map under the key of a   *)
(* request or query that the swarm will end, or it waits for an address of *)
(* a listener.                                                             *)
NoCallIsForgotten ==
  \A t \in Tasks :
    call[t].state = "waiting" =>
      LET reply == <<t, call[t].n>> IN
        \/ \E i \in DOMAIN commands : commands[i].reply = reply
        \/ \E p \in pending, o \in outstanding :
             /\ p.reply = reply
             /\ p.key = pending_key(o.behaviour, o.id)
        \/ listening /\ reply \in pending_listen

(* A provider record never goes out while the node knows no address to put *)
(* into it: "a provider record without addresses is useless to readers"    *)
(* (node.rs, NodeConfig).                                                  *)
AnnouncedWithAddresses ==
  \A o \in outstanding : o.behaviour = "kad" => o.addressed
=============================================================================
