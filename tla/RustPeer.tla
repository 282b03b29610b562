------------------------------ MODULE RustPeer ------------------------------
(***************************************************************************)
(* The program mdp2p-node (bin/mdp2p-node.rs) with its commands fetch and  *)
(* serve, on the node of RustNode: the calls that main, fetch_site and     *)
(* announce_all make and the order they make them in, the parallel attempts*)
(* of fetch_site, and what SiteStore has in its index.  What fetch_site    *)
(* checks of names, pins and bundles is module RustFetch.                  *)
(***************************************************************************)
EXTENDS RustNode

CONSTANTS
  Main,        \* the task of main
  Guests,      \* other tasks with a clone of the handle (lib.rs exports it)
  Seeders,     \* the providers that the naming server may list
  Honest,      \* those that serve an acceptable bundle within the timeout
  MaxParallel, \* MAX_PARALLEL_SEEDERS
  Stored,      \* the sites found by rescan
  Uri,         \* the site to fetch
  Listeners,   \* the number of --listen addresses
  MaxCalls,    \* bounds the calls of a guest
  MaxRounds    \* bounds the announcements of serve

ASSUME PeerAssumption ==
  /\ Tasks = {Main} \cup Guests \cup Seeders
  /\ Main \notin Guests \cup Seeders
  /\ Guests \cap Seeders = {}
  /\ Things = Seeders \cup Stored \cup {Uri}
  /\ IsFiniteSet(Seeders)
  /\ Honest \subseteq Seeders
  /\ {MaxParallel, Listeners, MaxRounds} \subseteq Nat \ {0}
  /\ MaxCalls \in Nat

VARIABLES
  options, \* the command, and whether --external is given
  pc,      \* where main is: mostly the kind of the call it makes next
  left,    \* the listen addresses still to be listened on
  attempt, \* attempt[s]: the future that launch(s) made
  winner,  \* the seeder whose bundle was accepted, or None
  sites,   \* the index of SiteStore
  todo,    \* the sites that announce_all has not come to
  round    \* the number of times announce_all ran

peerVars == <<options, pc, left, attempt, winner, sites, todo, round>>
vars == <<nodeVars, peerVars>>

Running == {s \in Seeders : attempt[s] = "running"}
NodeIdle == UNCHANGED <<next_id, pending, pending_listen, outstanding,
                        listening, external>>
-----------------------------------------------------------------------------
(* main *)

Go(to) == pc' = to

\* A call of main's script that no other action makes.
MainCalls ==
  /\ \/ pc \in {"listen", "listen_addrs", "naming", "providers"}
        /\ Send(Main, pc, None) /\ Go(pc)
     \/ pc = "external" /\ Send(Main, pc, None) /\ Go("listen_addrs")
     \/ /\ pc = "peer"
        /\ Send(Main, pc, None)
        /\ Go(IF options.command = "serve" THEN "kad" ELSE "naming")
     \/ pc = "seed" /\ Send(Main, "kad", Uri) /\ Go("seed")
  /\ NodeIdle
  /\ UNCHANGED <<options, left, attempt, winner, sites, todo, round>>

\* main takes the reply of its call.
Take == /\ call[Main].state = "returned"
        /\ call' = Dropped(call, {Main})
        /\ UNCHANGED commands

\* listen(addr).await? for each address
Listened ==
  /\ pc = "listen"
  /\ Take
  /\ left' = left - 1
  /\ Go(IF ~ call[Main].answer.ok THEN "exited"
        ELSE IF left' > 0 THEN "listen"
        ELSE IF options.external THEN "external"
        ELSE "listen_addrs")
  /\ NodeIdle
  /\ UNCHANGED <<options, attempt, winner, sites, todo, round>>

GotListenAddrs ==
  /\ pc = "listen_addrs"
  /\ Take
  /\ Go("peer")
  /\ NodeIdle
  /\ UNCHANGED <<options, left, attempt, winner, sites, todo, round>>
-----------------------------------------------------------------------------
(* fetch_site *)

\* An error, or a record or pin that is refused, leaves fetch_site.
Resolved ==
  /\ pc = "naming"
  /\ Take
  /\ \/ call[Main].answer.ok /\ Go("providers")
     \/ Go("exited")
  /\ NodeIdle
  /\ UNCHANGED <<options, left, attempt, winner, sites, todo, round>>

\* The providers other than this node; with none there is nothing to do.
GotProviders ==
  /\ pc = "providers"
  /\ Take
  /\ \/ /\ call[Main].answer.ok
        /\ \E found \in (SUBSET Seeders) \ {{}} :
             attempt' = [s \in Seeders |->
                           IF s \in found THEN "queued" ELSE "unknown"]
        /\ Go("download")
     \/ Go("exited") /\ UNCHANGED attempt
  /\ NodeIdle
  /\ UNCHANGED <<options, left, winner, sites, todo, round>>

(* BROKEN: launch is called for the first MAX_PARALLEL_SEEDERS only. *)
MayLaunchFirst ==
  Cardinality({s \in Seeders : attempt[s] \in {"running", "done"}})
    < MaxParallel

\* As many at once as `take` allows, and one more for each that ends.
MayLaunch == Cardinality(Running) < MaxParallel

\* The future of an attempt is made; tokio's timeout starts.
Launch(s) ==
  /\ pc = "download"
  /\ winner = None
  /\ attempt[s] = "queued"
  /\ MayLaunch
  /\ attempt' = [attempt EXCEPT ![s] = "running"]
  /\ UNCHANGED <<nodeVars, options, pc, left, winner, sites, todo, round>>

\* It asks its seeder for the bundle.
Request(s) ==
  /\ pc = "download"
  /\ attempt[s] = "running"
  /\ Send(s, "bundle", s)
  /\ NodeIdle
  /\ UNCHANGED peerVars

\* The bundle is accepted: `break`, and the other futures are dropped.
Accept(s) ==
  /\ pc = "download"
  /\ call[s].state = "returned"
  /\ call[s].answer.ok
  /\ winner' = s
  /\ call' = Dropped(call, Seeders)
  /\ attempt' = [t \in Seeders |-> "done"]
  /\ Go("store")
  /\ NodeIdle
  /\ UNCHANGED <<commands, options, left, sites, todo, round>>

\* seeder_timeout, for the dial and the download, however far they are
SeederTimesOut(s) ==
  /\ s \notin Honest
  /\ attempt[s] = "running"
  /\ call[s].state # "returned"

\* The attempt failed, its bundle is no good, or it timed out.
Discard(s) ==
  /\ pc = "download"
  /\ \/ SeederTimesOut(s)
     \/ /\ call[s].state = "returned"
        /\ s \in Honest => ~ call[s].answer.ok
  /\ call' = Dropped(call, {s})
  /\ attempt' = [attempt EXCEPT ![s] = "done"]
  /\ NodeIdle
  /\ UNCHANGED <<commands, options, pc, left, winner, sites, todo, round>>

\* in_flight is empty, and so is the queue.
NoSeederLeft ==
  /\ pc = "download"
  /\ Running = {}
  /\ (\E s \in Seeders : attempt[s] = "queued") => ~ MayLaunch
  /\ Go("exited")
  /\ UNCHANGED <<nodeVars, options, left, attempt, winner, sites, todo,
                 round>>

\* write_site and record_visit; either may fail and end the program.
WriteSite ==
  /\ pc = "store"
  /\ \/ /\ sites' = sites \cup {Uri}
        /\ Go(IF options.command = "seed" THEN "seed" ELSE "exited")
     \/ Go("exited") /\ UNCHANGED sites
  /\ UNCHANGED <<nodeVars, options, left, attempt, winner, todo, round>>

\* `if let Err(e)`: a failed announcement is logged.
Announced ==
  /\ pc = "seed"
  /\ Take
  /\ Go("waiting")
  /\ NodeIdle
  /\ UNCHANGED <<options, left, attempt, winner, sites, todo, round>>
-----------------------------------------------------------------------------
(* serve *)

\* announce_all: provide for one site after the other
AnnounceNext ==
  /\ pc = "kad"
  /\ \E site \in todo :
       /\ Send(Main, "kad", site)
       /\ todo' = todo \ {site}
  /\ NodeIdle
  /\ UNCHANGED <<options, pc, left, attempt, winner, sites, round>>

\* A directory that lost its manifest is passed over.
SkipSite ==
  /\ pc = "kad"
  /\ call[Main].state = "idle"
  /\ \E site \in todo : todo' = todo \ {site}
  /\ UNCHANGED <<nodeVars, options, pc, left, attempt, winner, sites, round>>

\* Provided or not, announce_all goes on.
Provided ==
  /\ pc = "kad"
  /\ Take
  /\ NodeIdle
  /\ UNCHANGED peerVars

AllAnnounced ==
  /\ pc = "kad"
  /\ call[Main].state = "idle"
  /\ todo = {}
  /\ round' = round + 1
  /\ Go("waiting")
  /\ UNCHANGED <<nodeVars, options, left, attempt, winner, sites, todo>>

\* The hourly tick.
Tick ==
  /\ pc = "waiting"
  /\ options.command = "serve"
  /\ round < MaxRounds
  /\ todo' = sites
  /\ Go("kad")
  /\ UNCHANGED <<nodeVars, options, left, attempt, winner, sites, round>>

\* ctrl_c
Interrupt ==
  /\ pc = "waiting"
  /\ Go("exited")
  /\ UNCHANGED <<nodeVars, options, left, attempt, winner, sites, todo,
                 round>>
-----------------------------------------------------------------------------
\* Another holder of the handle asks for a bundle, or the naming server.
GuestCalls(g) ==
  /\ call[g].n < MaxCalls
  /\ \E b \in {"naming", "bundle"} : Send(g, b, None)
  /\ NodeIdle
  /\ UNCHANGED peerVars

\* It has its answer, or no longer wants one.
GuestStops(g) ==
  /\ call[g].state # "idle"
  /\ call' = Dropped(call, {g})
  /\ NodeIdle
  /\ UNCHANGED <<commands, peerVars>>

OnCommand == on_command /\ UNCHANGED peerVars
OnNewListenAddr == NewListenAddr(~ options.external) /\ UNCHANGED peerVars
OnEnded == /\ \E o \in outstanding : Ended(o)
           /\ UNCHANGED peerVars
-----------------------------------------------------------------------------
Init ==
  /\ NodeInit
  /\ options \in [command : {"fetch", "seed", "serve"}, external : BOOLEAN]
  /\ pc = "listen"
  /\ left = Listeners
  /\ attempt = [s \in Seeders |-> "unknown"]
  /\ winner = None
  /\ sites = Stored
  /\ todo = sites
  /\ round = 0

MainSteps ==
  \/ MainCalls \/ Listened \/ GotListenAddrs
  \/ Resolved \/ GotProviders \/ NoSeederLeft \/ WriteSite \/ Announced
  \/ AnnounceNext \/ SkipSite \/ Provided \/ AllAnnounced \/ Tick
  \/ \E s \in Seeders : Launch(s) \/ Request(s) \/ Accept(s) \/ Discard(s)

Next ==
  /\ pc # "exited"
  /\ \/ MainSteps
     \/ Interrupt
     \/ \E g \in Guests : GuestCalls(g) \/ GuestStops(g)
     \/ OnCommand
     \/ OnNewListenAddr
     \/ OnEnded

(* tokio runs what is ready and its timeouts expire, the event loop takes  *)
(* its commands, a listener reports an address, and the swarm ends what it *)
(* started.  Nothing is asked of a guest, or of a seeder's answer.         *)
Fairness ==
  /\ WF_vars(pc # "exited" /\ MainSteps)
  /\ WF_vars(pc # "exited" /\ OnCommand)
  /\ WF_vars(pc # "exited" /\ OnNewListenAddr)
  /\ WF_vars(pc # "exited" /\ OnEnded)

Spec == Init /\ [][Next]_vars /\ Fairness
-----------------------------------------------------------------------------
(* Every variable stays within its type. *)
TypeOK ==
  /\ NodeTypeOK
  /\ options \in [command : {"fetch", "seed", "serve"}, external : BOOLEAN]
  /\ pc \in {"listen", "external", "listen_addrs", "peer", "naming",
             "providers", "download", "store", "seed", "kad", "waiting",
             "exited"}
  /\ left \in 0..Listeners
  /\ attempt \in [Seeders -> {"unknown", "queued", "running", "done"}]
  /\ winner \in Seeders \cup {None}
  /\ sites \subseteq Stored \cup {Uri}
  /\ todo \subseteq sites
  /\ round \in 0..MaxRounds

(* "First valid seeder wins" (fetch.rs): a download that ends without a    *)
(* bundle has had the answer of every provider it was given, those it      *)
(* launched when another one failed included.                              *)
EveryProviderIsTried ==
  [][pc = "download" /\ pc' = "exited" =>
       \A s \in Seeders : attempt[s] \in {"unknown", "done"}]_vars

(* fetch comes to its end, and serve to every one of its announcements,    *)
(* however seeders and naming server behave.                               *)
ProgramGoesOn ==
  <>(pc = "exited" \/ (options.command = "seed" /\ pc = "waiting")
     \/ round = MaxRounds)
=============================================================================
