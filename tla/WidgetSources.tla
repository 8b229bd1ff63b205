--------------------------- MODULE WidgetSources ---------------------------
(***************************************************************************)
(* frontend/src/widget-source-cache.ts on the relay's taps: one request    *)
(* per widget hash goes to the worker, its leader; others wait for the     *)
(* leader's reply or are served from the cache of the session.             *)
(*                                                                         *)
(* Operators on the cache's state: sessionOf is the session its results    *)
(* are of.  A flight [hash, session, leader, waiters, listed] is found by  *)
(* its leader while that is unanswered, and by its hash while it is        *)
(* listed: until a newer one for the hash replaces it.                     *)
(***************************************************************************)
EXTENDS Integers, Sequences, SequencesExt

NoSources == [sessionOf |-> 0, cache |-> {}, flights |-> {}]

(* What a step leaves: the state, the replies to the client in their       *)
(* order, the requests that go on to the relay.                            *)
Step(s, replies, relayed) == [s |-> s, replies |-> replies, relayed |-> relayed]
reply(id, body) == [id |-> id, body |-> body]
Sourced(source) == [kind |-> "result", source |-> source]
Erred(kind)     == [kind |-> kind, source |-> 0]

sessionCache(s, session) ==
  IF session = s.sessionOf THEN s ELSE [s EXCEPT !.sessionOf = session, !.cache = {}]

listed(s, hash)   == {f \in s.flights : f.listed /\ f.hash = hash}
byLeader(s, id)   == {f \in s.flights : f.leader = id}
waitedBy(s, id)   == {f \in s.flights : f.listed /\ id \in ToSet(f.waiters)}
Swap(s, old, new) == [s EXCEPT !.flights = (@ \ old) \cup new]

(* A request for a hash. *)
interceptIn(before, session, id, hash) ==
  LET s      == sessionCache(before, session)
      cached == {c \in s.cache : c.hash = hash}
      joined == {f \in listed(s, hash) : f.session = session}
      flight == [hash |-> hash, session |-> session, leader |-> id, waiters |-> <<>>, listed |-> TRUE]
  IN  IF cached # {} THEN Step(s, SetToSeq({reply(id, Sourced(c.source)) : c \in cached}), {})
      ELSE IF joined # {}
      THEN Step(Swap(s, joined, {[f EXCEPT !.waiters = Append(@, id)] : f \in joined}), <<>>, {})
      ELSE Step(Swap(s, listed(s, hash), {[f EXCEPT !.listed = FALSE] : f \in listed(s, hash)} \cup {flight}),
                <<>>, {id})

(* A cancellation: a listed flight's waiter is answered here, any other    *)
(* one goes on to the worker.                                              *)
interceptCancel(s, id) ==
  LET left == waitedBy(s, id)
  IN  IF left = {} THEN Step(s, <<>>, {id})
      ELSE Step(Swap(s, left, {[f EXCEPT !.waiters = RemoveFirst(@, id)] : f \in left}),
                <<reply(id, Erred("cancelled"))>>, {})

(* The reply to a leader, on its way to the client. *)
onOut(before, session, id, body) ==
  LET f      == CHOOSE g \in byLeader(before, id) : TRUE
      landed == Swap(before, {f}, {})
      s      == IF body.kind = "result" /\ f.session = session
                THEN LET c == sessionCache(landed, session)
                     IN  [c EXCEPT !.cache = {e \in @ : e.hash # f.hash} \cup {[hash |-> f.hash, source |-> body.source]}]
                ELSE landed
      next   == [f EXCEPT !.leader = f.waiters[1], !.waiters = Tail(@)]
  IN  IF byLeader(before, id) = {} THEN Step(before, <<>>, {})
      ELSE IF body.kind = "cancelled" /\ f.waiters # <<>> /\ f.session = session
      THEN Step(Swap(before, {f}, {next}), <<>>, {next.leader})
      ELSE Step(s, [i \in DOMAIN f.waiters |-> reply(f.waiters[i], body)], {})
-----------------------------------------------------------------------------
(* Around it, external: a client that asks for the source of a hash once   *)
(* per request and cancels at any time, the sessions that follow one       *)
(* another, and the relay, which answers what it was handed, whenever and  *)
(* however it likes; a result is the source the session has.  hashOf:      *)
(* each request's hash.  asked: the session it was made in, 0 before;      *)
(* handed: the requests the relay has; said: the client's replies.         *)
NoRequests(hashOf) ==
  [s |-> NoSources, session |-> 1, asked |-> [id \in DOMAIN hashOf |-> 0], handed |-> {}, said |-> <<>>]

Took(p, st) == [p EXCEPT !.s = st.s, !.said = @ \o st.replies, !.handed = @ \cup st.relayed]

asks(p, hashOf, id) ==
  [Took(p, interceptIn(p.s, p.session, id, hashOf[id])) EXCEPT !.asked[id] = p.session]

cancels(p, id) == [Took(p, interceptCancel(p.s, id)) EXCEPT !.handed = p.handed]

answers(p, id, body) ==
  Took([p EXCEPT !.handed = @ \ {id}, !.said = Append(@, reply(id, body))], onOut(p.s, p.session, id, body))

Made(p) == {id \in DOMAIN p.asked : p.asked[id] # 0}
onPage(p, hashOf) ==
  {[p EXCEPT !.session = @ + 1]}
    \cup {asks(p, hashOf, id) : id \in DOMAIN p.asked \ Made(p)}
    \cup {cancels(p, id) : id \in Made(p)}
    \cup {answers(p, id, Sourced(p.asked[id])) : id \in p.handed}
    \cup {answers(p, id, Erred(kind)) : id \in p.handed, kind \in {"error", "cancelled"}}
=============================================================================
