-------------------------------- MODULE Door --------------------------------
(***************************************************************************)
(* The HTTP server (httpd.c): home accepts the clients and hands each, as  *)
(* a connection, to a client loop, whose server sets it up, serves it and  *)
(* gives it back.  Home and a loop share a lane of atomic words, by which  *)
(* the loop shows how many of its connections idle, and home asks it to    *)
(* close some of those and hands it a policy; every loop takes the bytes   *)
(* of the requests' bodies from the same budgets.                          *)
(*                                                                         *)
(* The messages are members of what they are about, so that each is on its *)
(* way at most once: those of a connection are told by where it is, those  *)
(* of a lane are counted.  What a client sends, and what the application   *)
(* makes of it, is left to chance, and so is what a step's share allows;   *)
(* a TLS handshake is a busy spell without a request.                      *)
(***************************************************************************)
EXTENDS Naturals, FiniteSets, Sequences, SequencesExt, FiniteSetsExt

CONSTANTS
  Lane,      \* the client loops
  Conn,      \* the storage of connections, numbered from one
  Address,   \* the clients' addresses
  Cap,       \* the connections that an address may have (limits.clients)
  FdBudget,  \* the descriptors that clients may hold
  Bodies,    \* the bytes that bodies may take in all (lim.bodies)
  Share,     \* and those of one address (lim.client_bodies)
  Policies,  \* bound: the policies that come by reload, and the first
  Asks       \* bound: the connections that a loop is asked to close and has not

VARIABLES
  home,    \* its door: what it does, the connections it has out, its policy
  lane,    \* each loop's lane: home's count, the atomics, the messages out
  srv,     \* each loop's server
  conn,    \* each connection
  client,  \* each address' entry in home's table
  bodies,  \* hub->bodies
  app,     \* the connections whose streams the application has
  refs     \* the references that the servers and the lanes have to policies

doorvars == <<home, lane, srv, conn, client, bodies, app, refs>>

Policy == 1 .. Policies
Spare  == [at |-> "spare", lane |-> 0, client |-> 0, held |-> 0, req |-> "none",
           bodyin |-> FALSE, ends |-> "no"]
Served == {"idle", "busy", "lingers"}

DTypeOK ==
  /\ home \in [at : {"shut", "open", "drained", "gone"}, conns : Nat, policy : Policy]
  /\ lane \in [Lane -> [conns : Nat, evicts : Nat, idles : Nat, slot : 0 .. Policies,
                        evict : Nat, handover : Nat]]
  /\ \A l \in Lane : /\ srv[l].at \in {"runs", "drains", "exits", "gone"}
                     /\ srv[l].conns \in Nat /\ srv[l].idle \in Seq(Conn)
                     /\ srv[l].evicting \in Nat /\ srv[l].policy \in 0 .. Policies
                     /\ srv[l].late \in BOOLEAN /\ srv[l].mid \in Conn \cup {0}
  /\ conn \in [Conn -> [at : {"spare", "sent", "taken", "closed", "back", "lost"} \cup Served,
                        lane : Lane \cup {0}, client : Address \cup {0}, held : Nat,
                        req : {"none", "open", "over"}, bodyin : BOOLEAN,
                        ends : {"no", "last", "doomed"}]]
  /\ client \in [Address -> [conns : Nat, held : Nat]]
  /\ bodies \in Nat /\ app \subseteq Conn /\ refs \in [Policy -> Nat]

DInit ==
  /\ home = [at |-> "shut", conns |-> 0, policy |-> 1]
  /\ lane = [l \in Lane |-> [conns |-> 0, evicts |-> 0, idles |-> 0, slot |-> 0,
                             evict |-> 0, handover |-> 0]]
  /\ srv = [l \in Lane |-> [at |-> "runs", conns |-> 0, idle |-> <<>>, evicting |-> 0,
                            policy |-> 1, late |-> FALSE, mid |-> 0]]
  /\ conn = [c \in Conn |-> Spare]
  /\ client = [a \in Address |-> [conns |-> 0, held |-> 0]]
  /\ bodies = 0 /\ app = {}
  /\ refs = [p \in Policy |-> IF p = 1 THEN 1 + Cardinality(Lane) ELSE 0]

Mine(l, at) == {c \in Conn : conn[c].lane = l /\ conn[c].at \in at}
Turns(l)    == srv[l].at \in {"runs", "drains"} /\ srv[l].mid = 0
Stopped(l)  == srv[l].at \in {"exits", "gone"}

-----------------------------------------------------------------------------
(* Home.                                                                   *)

\* httpd_home_open(), unless drained already.
DOpen ==
  /\ home.at = "shut" /\ home' = [home EXCEPT !.at = "open"]
  /\ UNCHANGED <<lane, srv, conn, client, bodies, app, refs>>

\* A lane that shows more idle connections than it is asked to close.  Those
\* that the loop has taken on count no more, so that it may be asked for more
\* than it has.
Spares(l) == /\ lane[l].idles > lane[l].evicts
             /\ lane[l].evicts + srv[l].evicting < Asks

\* httpd_home_evict(): one more, of the lane with the oldest, which a message
\* tells of the first.
Evict(l) ==
  [lane EXCEPT ![l].evicts = @ + 1, ![l].evict = IF lane[l].evicts = 0 THEN @ + 1 ELSE @]

\* httpd_home_crowd(): the calls in flight take the clients' descriptors.
DCrowd ==
  /\ home.at \in {"open", "drained"}
  /\ \E l \in Lane : Spares(l) /\ lane' = Evict(l)
  /\ UNCHANGED <<home, srv, conn, client, bodies, app, refs>>

\* httpd_home_place(), once home has what it takes.
PlaceOn(c, a, l, lanes) ==
  /\ conn' = [conn EXCEPT ![c] = [Spare EXCEPT !.at = "sent", !.lane = l, !.client = a]]
  /\ client' = [client EXCEPT ![a].conns = @ + 1]
  /\ lane' = [lanes EXCEPT ![l].conns = @ + 1]
  /\ home' = [home EXCEPT !.conns = @ + 1]

\* httpd_home_take(): a client comes, under its address' cap.  Where clients
\* hold all the descriptors they may, jobs' among them, an idle one has to go.
\* Which loop weighs less is left to chance (httpd_home_lane()), and one
\* storage is as good as another.
DTake(c, a, l) ==
  /\ home.at = "open" /\ client[a].conns < Cap
  /\ conn[c].at = "spare" /\ \A d \in 1 .. c - 1 : conn[d].at # "spare"
  /\ \/ home.conns < FdBudget /\ PlaceOn(c, a, l, lane)
     \/ \E k \in Lane : Spares(k) /\ PlaceOn(c, a, l, Evict(k))
  /\ UNCHANGED <<srv, bodies, app, refs>>

\* httpd_conn_back(): home counts the connection no more, and keeps it.
DBack(c) ==
  /\ conn[c].at = "back"
  /\ IF home.at = "gone"
     THEN conn' = [conn EXCEPT ![c].at = "lost"] /\ UNCHANGED <<home, lane, client>>
     ELSE /\ conn' = [conn EXCEPT ![c] = Spare]
          /\ client' = [client EXCEPT ![conn[c].client].conns = @ - 1]
          /\ lane' = [lane EXCEPT ![conn[c].lane].conns = @ - 1]
          /\ home' = [home EXCEPT !.conns = @ - 1]
  /\ UNCHANGED <<srv, bodies, app, refs>>

Moved(p, n, q, m) == [x \in Policy |-> refs[x] + (IF x = p THEN n ELSE 0)
                                               - (IF x = q THEN m ELSE 0)]

\* httpd_home_policy(): home takes the next policy and hands it to every lane.
\* One that a loop has yet to take is let go of, its message on its way.
DPolicy ==
  LET p == home.policy + 1
      n == Cardinality(Lane)
      waits == {l \in Lane : lane[l].slot # 0}
  IN  /\ home.at = "open" /\ p \in Policy
      /\ home' = [home EXCEPT !.policy = p]
      /\ lane' = [l \in Lane |-> [lane[l] EXCEPT !.slot = p,
                    !.handover = IF l \in waits THEN @ ELSE @ + 1]]
      /\ refs' = [x \in Policy |->
                    refs[x] + (IF x = p THEN n + 1 ELSE 0) - (IF x = home.policy THEN 1 ELSE 0)
                      - Cardinality({l \in waits : lane[l].slot = x})]
      /\ UNCHANGED <<srv, conn, client, bodies, app>>

\* httpd_home_drain(): the door shuts for good.
DDrain ==
  /\ home.at \in {"shut", "open"} /\ home' = [home EXCEPT !.at = "drained"]
  /\ UNCHANGED <<lane, srv, conn, client, bodies, app, refs>>

\* httpd_home_destroy(), the client loops gone (Brainstem.tla).
DDestroy ==
  /\ home.at \in {"shut", "open", "drained"} /\ \A l \in Lane : srv[l].at = "gone"
  /\ home' = [home EXCEPT !.at = "gone"]
  /\ refs' = Moved(0, 0, home.policy, 1)
  /\ UNCHANGED <<lane, srv, conn, client, bodies, app>>

-----------------------------------------------------------------------------
(* The lane, as its loop has messages.                                     *)

\* httpd_conn_take(): the connection waits for a step to set it up.  A loop
\* that has stopped closes it and frees it, and home counts it ever after.
OnConn(l, c) ==
  /\ c \in Mine(l, {"sent"}) /\ srv[l].mid = 0
  /\ conn' = [conn EXCEPT ![c].at = IF Stopped(l) THEN "lost" ELSE "taken"]
  /\ UNCHANGED <<home, lane, srv, client, bodies, app, refs>>

\* httpd_lane_evict().
OnEvict(l) ==
  /\ lane[l].evict > 0 /\ srv[l].mid = 0
  /\ lane' = [lane EXCEPT ![l].evict = @ - 1, ![l].evicts = 0]
  /\ srv' = IF Stopped(l) THEN srv ELSE [srv EXCEPT ![l].evicting = @ + lane[l].evicts]
  /\ UNCHANGED <<home, conn, client, bodies, app, refs>>

\* httpd_lane_policy(): the loop takes the last policy, and lets go of the one
\* before, or if it has stopped of that one.
OnPolicy(l) ==
  LET p == lane[l].slot
      old == IF p = 0 \/ Stopped(l) THEN p ELSE srv[l].policy
  IN  /\ lane[l].handover > 0 /\ srv[l].mid = 0
      /\ lane' = [lane EXCEPT ![l].handover = @ - 1, ![l].slot = 0]
      /\ srv' = IF p = 0 \/ Stopped(l) THEN srv ELSE [srv EXCEPT ![l].policy = p]
      /\ refs' = Moved(0, 0, old, 1)
      /\ UNCHANGED <<home, conn, client, bodies, app>>

-----------------------------------------------------------------------------
(* The connections, on their loop.                                         *)

\* httpd_show_idle(), with the server's list.
Shown(l, list) == [lane EXCEPT ![l].idles = Len(list)]

\* httpd_conn_park(): the connection goes to the young end of a list.
Park(l, c, at) ==
  LET rest == SelectSeq(srv[l].idle, LAMBDA x : x # c)
      list == IF at = "idle" THEN Append(rest, c) ELSE rest
  IN  srv' = [srv EXCEPT ![l].idle = list] /\ lane' = Shown(l, list)

\* httpd_conn_unhold().
Unhold(c) ==
  /\ bodies' = bodies - conn[c].held
  /\ client' = [client EXCEPT ![conn[c].client].held = @ - conn[c].held]

\* A mistake the checks would catch: the bytes of its body stay counted.
CloseHolding(l, c, evicting) ==
  LET list == SelectSeq(srv[l].idle, LAMBDA x : x # c)
  IN  /\ srv' = [srv EXCEPT ![l].conns = @ - 1, ![l].idle = list, ![l].evicting = evicting,
                   ![l].at = IF srv[l].conns = 1 /\ @ = "drains" THEN "exits" ELSE @]
      /\ lane' = Shown(l, list)
      /\ conn' = [conn EXCEPT ![c].at = "closed", ![c].held = 0, ![c].req = "none"]
      /\ UNCHANGED <<bodies, client>> /\ app' = app \ {c}
      /\ UNCHANGED <<home, refs>>

\* httpd_conn_close(): the last of a server that drains ends its loop, the
\* application loses the stream, the budgets and the lists the connection,
\* which goes back to home as the loop reaps it.
CloseOne(l, c, evicting) ==
  LET list == SelectSeq(srv[l].idle, LAMBDA x : x # c)
  IN  /\ srv' = [srv EXCEPT ![l].conns = @ - 1, ![l].idle = list, ![l].evicting = evicting,
                   ![l].at = IF srv[l].conns = 1 /\ @ = "drains" THEN "exits" ELSE @]
      /\ lane' = Shown(l, list)
      /\ conn' = [conn EXCEPT ![c].at = "closed", ![c].held = 0, ![c].req = "none"]
      /\ Unhold(c) /\ app' = app \ {c}
      /\ UNCHANGED <<home, refs>>

\* httpd_take_step(), of one: httpd_conn_setup() sets the connection up, or
\* gives it back at once as the server drains or the loop cannot watch it.
TakeStep(l, c) ==
  /\ Turns(l) /\ c \in Mine(l, {"taken"})
  /\ \/ /\ srv[l].at = "runs"
        /\ LET list == Append(srv[l].idle, c)
           IN  /\ srv' = [srv EXCEPT ![l].conns = @ + 1, ![l].idle = list]
               /\ lane' = Shown(l, list)
        /\ conn' = [conn EXCEPT ![c].at = "idle"]
     \/ conn' = [conn EXCEPT ![c].at = "back"] /\ UNCHANGED <<srv, lane>>
  /\ UNCHANGED <<home, client, bodies, app, refs>>

\* httpd_evict_step(), of one: the least recently active.
EvictStep(l) ==
  LET list == srv[l].idle
  IN  /\ Turns(l) /\ srv[l].evicting > 0
      /\ IF list = <<>>
         THEN /\ srv' = [srv EXCEPT ![l].evicting = 0]
              /\ UNCHANGED <<home, lane, conn, client, bodies, app, refs>>
         ELSE CloseOne(l, Head(list), IF Len(list) = 1 THEN 0 ELSE srv[l].evicting - 1)

\* A connection whose step goes on with requests, and one that may begin one.
Steps(l, c)  == Turns(l) /\ c \in Mine(l, {"idle", "busy"}) /\ conn[c].ends # "doomed"
Begins(l, c) == Steps(l, c) /\ srv[l].at = "runs" /\ conn[c].req = "none" /\ conn[c].ends = "no"

\* httpd_conn_step() on input that makes no head yet, or in a handshake.
InputStep(l, c) ==
  /\ Begins(l, c) /\ conn[c].at = "idle"
  /\ conn' = [conn EXCEPT ![c].at = "busy"] /\ Park(l, c, "busy")
  /\ UNCHANGED <<home, client, bodies, app, refs>>

\* httpd_conn_begin(), with n bytes of a body counted: the application has the
\* stream, or a preflight is answered, at the connection's end if its body is
\* not in.
Begun(c, n, bodyin) ==
  \E to \in {"open", "over"} :
    /\ conn' = [conn EXCEPT ![c] = [@ EXCEPT !.at = "busy", !.req = to, !.bodyin = bodyin,
                  !.held = @ + n, !.ends = IF to = "over" /\ ~bodyin THEN "last" ELSE @]]
    /\ app' = IF to = "open" THEN app \cup {c} ELSE app

\* A head of a request that promises no body, or one in chunks.
HeadStep(l, c) ==
  /\ Begins(l, c) /\ \E bodyin \in BOOLEAN : Begun(c, 0, bodyin)
  /\ Park(l, c, "busy") /\ UNCHANGED <<home, client, bodies, refs>>

\* httpd_conn_fail(), and httpd_conn_refuse() of a head: the answer is the
\* connection's last, or one that has begun dooms it.
Failed(c) ==
  /\ \E ends \in IF c \in app THEN {"last", "doomed"} ELSE {"last"} :
       conn' = [conn EXCEPT ![c] = [@ EXCEPT !.at = "busy", !.req = "over", !.bodyin = FALSE,
                                     !.ends = ends]]
  /\ app' = app \ {c}

\* httpd_conn_hold(), of a byte of a body that the head tells of, or of a
\* chunk: first from all clients' budget.  Other loops go on meanwhile.
HoldStep(l, c) ==
  /\ Begins(l, c) \/ (Steps(l, c) /\ conn[c].req = "open" /\ ~conn[c].bodyin)
  /\ IF bodies + 1 <= Bodies
     THEN /\ bodies' = bodies + 1 /\ srv' = [srv EXCEPT ![l].mid = c]
          /\ UNCHANGED <<lane, conn, app>>
     ELSE Failed(c) /\ Park(l, c, "busy") /\ UNCHANGED bodies
  /\ UNCHANGED <<home, client, refs>>

\* Then from its address' budget, or the byte goes back.
HeldStep(l) ==
  LET c == srv[l].mid
      a == conn[c].client
      rest == SelectSeq(srv[l].idle, LAMBDA x : x # c)
  IN  /\ c # 0
      /\ srv' = [srv EXCEPT ![l].mid = 0, ![l].idle = rest] /\ lane' = Shown(l, rest)
      /\ IF client[a].held + 1 <= Share
         THEN /\ client' = [client EXCEPT ![a].held = @ + 1]
              /\ IF conn[c].req = "none" THEN Begun(c, 1, FALSE)
                 ELSE conn' = [conn EXCEPT ![c].held = @ + 1] /\ UNCHANGED app
              /\ UNCHANGED bodies
         ELSE bodies' = bodies - 1 /\ Failed(c) /\ UNCHANGED client
      /\ UNCHANGED <<home, refs>>

\* httpd_conn_body(): the body is all in.
BodyStep(l, c) ==
  /\ Steps(l, c) /\ conn[c].req = "open" /\ ~conn[c].bodyin
  /\ conn' = [conn EXCEPT ![c].bodyin = TRUE]
  /\ UNCHANGED <<home, lane, srv, client, bodies, app, refs>>

\* httpd_stream_end(): a response begun before the body is in, or as the
\* server drains, or that its framing ends, is the last, and one cut short
\* dooms the connection.
AppEnds(l, c) ==
  /\ Turns(l) /\ c \in Mine(l, {"busy"}) \cap app
  /\ \E ends \in IF conn[c].bodyin /\ srv[l].at = "runs" THEN {"no", "last", "doomed"}
                 ELSE {"last", "doomed"} :
       conn' = [conn EXCEPT ![c].req = "over", ![c].ends = ends]
  /\ app' = app \ {c}
  /\ UNCHANGED <<home, lane, srv, client, bodies, refs>>

\* httpd_conn_reset(): the request is done and its body in.
ResetStep(l, c) ==
  /\ Steps(l, c) /\ conn[c].req = "over" /\ conn[c].bodyin
  /\ Unhold(c)
  /\ conn' = [conn EXCEPT ![c] = [@ EXCEPT !.req = "none", !.bodyin = FALSE, !.held = 0]]
  /\ UNCHANGED <<home, lane, srv, app, refs>>

\* httpd_conn_wait(), with no request, no input and all output sent.
IdleStep(l, c) ==
  /\ Begins(l, c) /\ conn[c].at = "busy"
  /\ conn' = [conn EXCEPT ![c].at = "idle"] /\ Park(l, c, "idle")
  /\ UNCHANGED <<home, client, bodies, app, refs>>

\* httpd_conn_end(): no more requests, or the client's input ended within one.
\* What it still sends is discarded for a while.
LingerStep(l, c) ==
  /\ Steps(l, c) /\ ~conn[c].bodyin
  /\ conn' = [conn EXCEPT ![c] = [@ EXCEPT !.at = "lingers", !.held = 0, !.req = "none",
                                    !.ends = "last"]]
  /\ app' = app \ {c} /\ Unhold(c) /\ Park(l, c, "lingers")
  /\ UNCHANGED <<home, refs>>

\* httpd_conn_expire(): a slow head or body is answered.
FailStep(l, c) ==
  /\ Steps(l, c) /\ conn[c].at = "busy" /\ ~conn[c].bodyin
  /\ Failed(c) /\ UNCHANGED <<home, lane, srv, client, bodies, refs>>

\* httpd_conn_close() for the client's sake, or the application's: it hangs
\* up, or lingers no more, or an error dooms the connection.
HangUp(l, c) == Turns(l) /\ c \in Mine(l, Served) /\ CloseOne(l, c, srv[l].evicting)

\* httpd_conn_release(), as the loop reaps what it watched.
Release(l, c) ==
  /\ srv[l].mid = 0 /\ c \in Mine(l, {"closed"})
  /\ conn' = [conn EXCEPT ![c].at = "back"]
  /\ UNCHANGED <<home, lane, srv, client, bodies, app, refs>>

-----------------------------------------------------------------------------
(* The end of a loop.                                                      *)

\* httpd_drain().
DrainLoop(l) ==
  /\ srv[l].at = "runs" /\ srv[l].mid = 0
  /\ srv' = [srv EXCEPT ![l].at = IF srv[l].conns = 0 THEN "exits" ELSE "drains"]
  /\ UNCHANGED <<home, lane, conn, client, bodies, app, refs>>

\* The drain's deadline passes.
Deadline(l) ==
  /\ srv[l].at = "drains" /\ ~srv[l].late
  /\ srv' = [srv EXCEPT ![l].late = TRUE]
  /\ UNCHANGED <<home, lane, conn, client, bodies, app, refs>>

\* A mistake the checks would catch: only what idles is closed.
DrainIdle(l) ==
  /\ Turns(l) /\ srv[l].at = "drains" /\ srv[l].idle # <<>>
  /\ CloseOne(l, Head(srv[l].idle), srv[l].evicting)

\* httpd_drain_step(), of one: the idle connections, then if late any other.
DrainStep(l) ==
  /\ Turns(l) /\ srv[l].at = "drains"
  /\ IF srv[l].idle # <<>> THEN CloseOne(l, Head(srv[l].idle), srv[l].evicting)
     ELSE srv[l].late /\ \E c \in Mine(l, {"busy", "lingers"}) :
            CloseOne(l, c, srv[l].evicting)

\* The loop ends for want of anything else than its drain.
Breaks(l) ==
  /\ srv[l].at = "runs" /\ srv[l].mid = 0
  /\ srv' = [srv EXCEPT ![l].at = "exits"]
  /\ UNCHANGED <<home, lane, conn, client, bodies, app, refs>>

\* httpd_destroy(): every connection closes and goes back to home.
Destroy(l) ==
  LET M == Mine(l, {"taken", "closed"} \cup Served)
      held(a) == MapThenSumSet(LAMBDA c : conn[c].held, {c \in M : conn[c].client = a})
  IN  /\ srv[l].at = "exits"
      /\ srv' = [srv EXCEPT ![l] = [@ EXCEPT !.at = "gone", !.conns = 0, !.idle = <<>>,
                                      !.evicting = 0, !.policy = 0]]
      /\ lane' = Shown(l, <<>>)
      /\ conn' = [c \in Conn |-> IF c \in M
                    THEN [conn[c] EXCEPT !.at = "back", !.held = 0, !.req = "none"]
                    ELSE conn[c]]
      /\ bodies' = bodies - MapThenSumSet(LAMBDA c : conn[c].held, M)
      /\ client' = [a \in Address |-> [client[a] EXCEPT !.held = @ - held(a)]]
      /\ app' = app \ M
      /\ refs' = Moved(0, 0, srv[l].policy, 1)
      /\ UNCHANGED home

DNext ==
  \/ DOpen \/ DCrowd \/ DPolicy \/ DDrain \/ DDestroy
  \/ \E c \in Conn : DBack(c)
  \/ \E c \in Conn, a \in Address, l \in Lane : DTake(c, a, l)
  \/ \E l \in Lane :
       \/ OnEvict(l) \/ OnPolicy(l) \/ EvictStep(l) \/ HeldStep(l)
       \/ DrainLoop(l) \/ Deadline(l) \/ DrainStep(l) \/ Breaks(l) \/ Destroy(l)
       \/ \E c \in Conn :
            \/ OnConn(l, c) \/ TakeStep(l, c) \/ InputStep(l, c) \/ HeadStep(l, c)
            \/ HoldStep(l, c) \/ BodyStep(l, c) \/ AppEnds(l, c) \/ ResetStep(l, c)
            \/ IdleStep(l, c) \/ LingerStep(l, c) \/ FailStep(l, c) \/ HangUp(l, c)
            \/ Release(l, c)

-----------------------------------------------------------------------------
\* What home, the lanes, the addresses and the servers count is what there is:
\* a connection counts from the time it is placed until it is back, whatever
\* ends it meanwhile (httpd_home_place(), httpd_conn_back(), httpd_conn_close()).
DoorCounts ==
  LET out == {c \in Conn : conn[c].at # "spare"}
  IN  /\ home.conns = Cardinality(out)
      /\ \A l \in Lane : /\ lane[l].conns = Cardinality({c \in out : conn[c].lane = l})
                         /\ srv[l].conns = Cardinality(Mine(l, Served))
                         /\ Mine(l, {"idle"}) = ToSet(srv[l].idle)
                         /\ lane[l].idles = Cardinality(Mine(l, {"idle"}))
      /\ \A a \in Address :
           client[a].conns = Cardinality({c \in out : conn[c].client = a})

\* The bytes that bodies take are counted by the budgets as long as their
\* connections hold them, and no longer, and no budget is exceeded, whatever
\* the loops take together (httpd_conn_hold(), httpd_conn_unhold()).
BudgetsTrue ==
  /\ bodies = MapThenSumSet(LAMBDA c : conn[c].held, Conn)
                + Cardinality({l \in Lane : srv[l].mid # 0})
  /\ bodies <= Bodies
  /\ \A a \in Address :
       /\ client[a].held <= Share
       /\ client[a].held = MapThenSumSet(LAMBDA c : IF conn[c].client = a THEN conn[c].held
                                                    ELSE 0, Conn)
  /\ \A c \in Conn : conn[c].held > 0 => conn[c].at = "busy"

\* A lane's message is on its way once while it has something to tell, and
\* not otherwise: posted twice it would break an inbox, posted never the loop
\* would keep its connections or its policy (httpd_home_evict(),
\* httpd_home_policy()).
PostedOnce ==
  \A l \in Lane : /\ lane[l].evict = (IF lane[l].evicts > 0 THEN 1 ELSE 0)
                  /\ lane[l].handover = (IF lane[l].slot # 0 THEN 1 ELSE 0)

\* A policy has the references of the servers, the lanes and home that have
\* it, whoever comes first (httpd_home_policy(), httpd_lane_policy()).
PoliciesTrue ==
  \A p \in Policy :
    refs[p] = (IF home.at # "gone" /\ home.policy = p THEN 1 ELSE 0)
                + Cardinality({l \in Lane : lane[l].slot = p})
                + Cardinality({l \in Lane : srv[l].policy = p})

\* The application has the streams of requests under way and no others: a
\* connection that idles, which home may have closed, has none, and one that
\* closes takes its own back first (httpd_conn_cancel(), httpd_conn_park()).
StreamsServed ==
  /\ app = {c \in Conn : conn[c].at \in Served /\ conn[c].req = "open"}
  /\ \A c \in Conn : conn[c].at = "idle" => conn[c].req = "none" /\ conn[c].ends = "no"
=============================================================================
