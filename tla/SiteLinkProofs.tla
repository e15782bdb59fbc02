--------------------------- MODULE SiteLinkProofs ---------------------------
(***************************************************************************)
(* That a signed request is acted on once, for every width of the window,  *)
(* every number of requests and every site: the nonce of a request is as   *)
(* old as its receipt, its timestamp as old as its making, and whoever's   *)
(* clock is not ahead made it no later than it was received.               *)
(***************************************************************************)
EXTENDS SiteLink, TLAPS

(***************************************************************************)
(* Records of requests.                                                    *)
(***************************************************************************)

\* What is known of a request of a site whose clock is not ahead: one that has been
\* let in has its nonce on record, is out of time or comes from a site that is gone.
Once(c, there) ==
  /\ c.age >= 0 /\ c.nonce <= c.age
  /\ c.at = "handler" => ~c.served
  /\ c.served \/ c.at = "handler" => c.nonce # NoNonce \/ c.age > Window \/ ~there

\* A request that is the same in what Once looks at.
Alike(c, d) ==
  d \in Call /\ d.age = c.age /\ d.nonce = c.nonce /\ d.at = c.at /\ d.served = c.served

\* Forgetting is all that Kept does.
LEMMA KeptFacts == \A c : Kept(c) \in {c, Free}
  BY DEF Kept

\* A request is not the record of a free slot.
LEMMA CallIsUsed == \A c \in Call : c # Free
<1> SUFFICES ASSUME NEW c \in Call, c = Free PROVE FALSE
  OBVIOUS
<1>1. "age" \in DOMAIN c
  BY DEF Call
<1>2. "age" \notin DOMAIN Free
  BY DEF Free
<1> QED
  BY <1>1, <1>2

\* What the waiting, the network and the answer change is not looked at.
LEMMA WaitingAlike == \A c \in Call : Alike(c, [c EXCEPT !.waiting = FALSE])
  BY DEF Call, Alike

\* Nor is how many copies there are.
LEMMA CopiesAlike == \A c \in Call : \A n \in 0 .. 2 : Alike(c, [c EXCEPT !.copies = n])
  BY DEF Call, Alike

\* Nor is an answer.
LEMMA AnsweredAlike ==
  \A c \in Call : \A reply \in {"ok", "refused"} : Alike(c, Answered(c, reply))
<1> SUFFICES ASSUME NEW c \in Call, NEW reply \in {"ok", "refused"}
             PROVE  Alike(c, Answered(c, reply))
  OBVIOUS
<1>1. c.reply \in {"none", "ok", "refused"}
  BY DEF Call
<1>2. \A r \in {"none", "ok", "refused"} : Alike(c, [c EXCEPT !.reply = r])
  BY DEF Call, Alike
<1>3. (IF c.waiting /\ c.reply = "none" THEN reply ELSE c.reply) \in {"none", "ok", "refused"}
  BY <1>1
<1> QED
  BY <1>2, <1>3 DEF Answered

\* The control plane takes a request in, ...
TakenIn(c, b) == [c EXCEPT !.nonce = 0, !.at = "handler", !.seen = b]

\* One taken in is a request as old as before, with a new nonce.
LEMMA TakenInFacts ==
  \A c \in Call, b \in BOOLEAN :
    /\ TakenIn(c, b) \in Call /\ TakenIn(c, b).age = c.age /\ TakenIn(c, b).nonce = 0
    /\ TakenIn(c, b).at = "handler" /\ TakenIn(c, b).served = c.served
  BY DEF Call, TakenIn

\* ... lets it go, served or not, ...
LetGo(c) == [c EXCEPT !.at = "network"]
ServedAndGone(c) == [c EXCEPT !.at = "network", !.served = TRUE]

\* One let go is as old as before, and so is its nonce.
LEMMA LetGoFacts ==
  \A c \in Call :
    /\ LetGo(c) \in Call /\ LetGo(c).age = c.age /\ LetGo(c).nonce = c.nonce
    /\ LetGo(c).at = "network" /\ LetGo(c).served = c.served
    /\ ServedAndGone(c) \in Call /\ ServedAndGone(c).age = c.age
    /\ ServedAndGone(c).nonce = c.nonce /\ ServedAndGone(c).at = "network"
  BY DEF Call, LetGo, ServedAndGone

\* ... and loses the row of its nonce.
Pruned(c) == [c EXCEPT !.nonce = NoNonce]

\* One whose row is gone is otherwise the same.
LEMMA PrunedFacts ==
  \A c \in Call :
    /\ Pruned(c) \in Call /\ Pruned(c).age = c.age /\ Pruned(c).nonce = NoNonce
    /\ Pruned(c).at = c.at /\ Pruned(c).served = c.served
  BY DEF Call, Pruned, NoNonce

\* Growing older.
LEMMA OlderFacts ==
  ASSUME NEW c \in Call
  PROVE  /\ OlderCall(c) \in Call
         /\ OlderCall(c).at = c.at /\ OlderCall(c).served = c.served
         /\ OlderCall(c).age = Older(c.age, Window + 1)
         /\ OlderCall(c).nonce = IF c.nonce = NoNonce THEN NoNonce
                                 ELSE Older(c.nonce, Window + 1)
<1>1. c.age \in Int /\ c.nonce \in {NoNonce} \cup Nat /\ Window \in Nat
  BY LinkAssumption DEF Call
<1>2. Older(c.age, Window + 1) \in Int
  BY <1>1 DEF Older
<1>3. c.nonce # NoNonce => Older(c.nonce, Window + 1) \in Nat
  BY <1>1 DEF Older
<1>4. (IF c.nonce = NoNonce THEN c.nonce ELSE Older(c.nonce, Window + 1)) \in {NoNonce} \cup Nat
  BY <1>1, <1>3
<1> QED
  BY <1>2, <1>4 DEF OlderCall, Call

-----------------------------------------------------------------------------
(***************************************************************************)
(* Steps on one request: the slot holds a request like the one before, or  *)
(* is free.                                                                *)
(***************************************************************************)
CallsOK == calls \in [Slots -> {Free} \cup Call]

\* The slot of a request is given to another record.
LEMMA SlotFacts ==
  ASSUME CallsOK, NEW i \in Slots, NEW c, calls' = [calls EXCEPT ![i] = c]
  PROVE  /\ c \in {Free} \cup Call => CallsOK'
         /\ calls'[i] = c
         /\ \A j \in Slots : j # i => calls'[j] = calls[j]
  BY DEF CallsOK

\* What holds of all requests of a site whose clock is not ahead.
AllOnce ==
  link.skew <= 0 => \A i \in Slots : Used(i) => Once(calls[i], known)

\* It is enough to look at the slot that changes.
LEMMA SlotOnce ==
  ASSUME CallsOK, AllOnce, NEW i \in Slots, NEW c \in {Free} \cup Call,
         calls' = [calls EXCEPT ![i] = c], link' = link, known' = known,
         link.skew <= 0 /\ c # Free => Once(c, known)
  PROVE  CallsOK' /\ AllOnce'
<1>1. CallsOK'
  BY SlotFacts
<1>2. ASSUME link'.skew <= 0, NEW j \in Slots, calls'[j] # Free
      PROVE  Once(calls'[j], known')
  <2>1. CASE j = i
    BY <1>2, <2>1, SlotFacts
  <2>2. CASE j # i
    BY <1>2, <2>2, SlotFacts DEF AllOnce, Used
  <2> QED
    BY <2>1, <2>2
<1> QED
  BY <1>1, <1>2 DEF AllOnce, Used

\* A request that is kept or forgotten keeps what is known of it.
LEMMA KeptOnce ==
  ASSUME NEW c \in Call, NEW there, Once(c, there)
  PROVE  Kept(c) \in {Free} \cup Call /\ (Kept(c) # Free => Once(Kept(c), there))
<1>1. CASE Kept(c) = c
  BY <1>1
<1>2. CASE Kept(c) = Free
  BY <1>2
<1> QED
  BY <1>1, <1>2, KeptFacts

\* So does one that looks like it.
LEMMA AlikeOnce ==
  ASSUME NEW c \in Call, NEW d, NEW there, Alike(c, d), Once(c, there)
  PROVE  d \in Call /\ Once(d, there)
  BY DEF Alike, Once

\* A slot that is used holds a request, of which the same is known as of all.
LEMMA InHandFacts ==
  ASSUME CallsOK, NEW i \in Slots, Used(i)
  PROVE  /\ calls[i] \in Call
         /\ AllOnce /\ link.skew <= 0 => Once(calls[i], known)
  BY DEF CallsOK, Used, AllOnce

-----------------------------------------------------------------------------
(***************************************************************************)
(* What every step does to the requests.                                   *)
(***************************************************************************)
LinkInv == LinkTypeOK /\ AllOnce

\* The parts of the types that the steps below look at.
LEMMA TypeFacts ==
  ASSUME LinkTypeOK
  PROVE  /\ CallsOK /\ link.skew \in Int
         /\ pending \subseteq Events /\ pushed \subseteq Events /\ wanted \in BOOLEAN
         /\ pusher \in {NoPusher} \cup [copy : SUBSET Events, event : Events]
  BY LinkAssumption DEF LinkTypeOK, CallsOK, LinkKinds

\* A new request is made at the site's time.
LEMMA SendOnce ==
  ASSUME LinkInv, NEW i \in Slots, NEW kind \in Classes, NEW content \in SUBSET Events,
         NEW waits \in BOOLEAN, Send(i, kind, content, waits),
         link' = link, known' = known
  PROVE  CallsOK' /\ AllOnce'
<1> DEFINE c == [kind |-> kind, content |-> content, age |-> 0 - link.skew, copies |-> 1,
                 nonce |-> NoNonce, at |-> "network", seen |-> FALSE, served |-> FALSE,
                 reply |-> "none", waiting |-> waits]
<1>1. c \in Call
  BY TypeFacts DEF LinkInv, Call, NoNonce
<1>2. link.skew <= 0 => Once(c, known)
  BY TypeFacts DEF LinkInv, Once, NoNonce
<1>3. calls' = [calls EXCEPT ![i] = c]
  BY DEF Send
<1> HIDE DEF c
<1> QED
  BY <1>1, <1>2, <1>3, SlotOnce, TypeFacts DEF LinkInv

\* A record put in a request's slot that looks like the request, kept or forgotten.
LEMMA AlikeSlot ==
  ASSUME LinkInv, NEW i \in Slots, Used(i), NEW d, Alike(calls[i], d),
         calls' = [calls EXCEPT ![i] = d] \/ calls' = [calls EXCEPT ![i] = Kept(d)],
         link' = link, known' = known
  PROVE  CallsOK' /\ AllOnce'
<1>1. calls[i] \in Call /\ CallsOK /\ (link.skew <= 0 => Once(calls[i], known))
  BY InHandFacts, TypeFacts DEF LinkInv
<1>2. d \in Call /\ (link.skew <= 0 => Once(d, known))
  BY <1>1, AlikeOnce DEF Alike
<1>3. Kept(d) \in {Free} \cup Call /\ (link.skew <= 0 /\ Kept(d) # Free => Once(Kept(d), known))
  BY <1>2, KeptOnce, KeptFacts
<1>4. CASE calls' = [calls EXCEPT ![i] = d]
  BY <1>1, <1>2, <1>4, SlotOnce DEF LinkInv
<1>5. CASE calls' = [calls EXCEPT ![i] = Kept(d)]
  BY <1>1, <1>3, <1>5, SlotOnce DEF LinkInv
<1> QED
  BY <1>4, <1>5

\* An answer that is heard, or given up, changes nothing that is looked at.
LEMMA SettledOnce ==
  ASSUME LinkInv, NEW i \in Slots, Used(i), calls' = Settled(i), link' = link, known' = known
  PROVE  CallsOK' /\ AllOnce'
<1>1. calls[i] \in Call
  BY InHandFacts, TypeFacts DEF LinkInv
<1>2. Alike(calls[i], [calls[i] EXCEPT !.waiting = FALSE])
  BY <1>1, WaitingAlike
<1>3. calls' = [calls EXCEPT ![i] = Kept([calls[i] EXCEPT !.waiting = FALSE])]
  BY DEF Settled
<1> QED
  BY <1>2, <1>3, AlikeSlot

\* Neither does what the network does to a request.
LEMMA NetworkOnce ==
  ASSUME LinkInv, NEW i \in Slots, Copy(i) \/ Lose(i)
  PROVE  CallsOK' /\ AllOnce'
<1>1. Used(i) /\ link' = link /\ known' = known
  BY DEF Copy, Lose, NetFrame, SiteFrame, PlaneFrame
<1>2. calls[i] \in Call
  BY <1>1, InHandFacts, TypeFacts DEF LinkInv
<1>3. CASE Copy(i)
  <2>1. calls[i].copies + 1 \in 0 .. 2
    BY <1>3 DEF Copy
  <2>2. calls' = [calls EXCEPT ![i] = [calls[i] EXCEPT !.copies = calls[i].copies + 1]]
    BY <1>3 DEF Copy
  <2> QED
    BY <1>1, <1>2, <2>1, <2>2, CopiesAlike, AlikeSlot
<1>4. CASE Lose(i)
  <2>1. calls' = [calls EXCEPT ![i] = Kept([calls[i] EXCEPT !.copies = 0])]
    BY <1>4 DEF Lose
  <2>2. 0 \in 0 .. 2
    OBVIOUS
  <2>3. Alike(calls[i], [calls[i] EXCEPT !.copies = 0])
    BY <1>2, <2>2, CopiesAlike, Zenon
  <2> QED
    BY <1>1, <2>1, <2>3, AlikeSlot
<1> QED
  BY <1>3, <1>4

\* A request is let in with its nonce: one that was let in before is out of time, its
\* nonce is on record or its site is gone.
LEMMA VerifyOnce ==
  ASSUME LinkInv, NEW i \in Slots, VerifySiteAuth(i)
  PROVE  CallsOK' /\ AllOnce'
<1>1. Used(i) /\ link' = link /\ known' = known
  BY DEF VerifySiteAuth, NetFrame, SiteFrame, PlaneFrame
<1>2. calls[i] \in Call /\ CallsOK /\ wanted \in BOOLEAN
      /\ (link.skew <= 0 => Once(calls[i], known))
  BY <1>1, InHandFacts, TypeFacts DEF LinkInv
<1> DEFINE c == [calls[i] EXCEPT !.copies = calls[i].copies - 1]
           d == TakenIn(c, wanted)
<1>3. calls[i].copies - 1 \in 0 .. 2
  BY <1>2 DEF VerifySiteAuth, Call
<1>4. Alike(calls[i], c)
  BY <1>2, <1>3, CopiesAlike
<1>5. c \in Call /\ (link.skew <= 0 => Once(c, known))
  BY <1>2, <1>4, AlikeOnce DEF Alike
<1>6. CASE Authentic(c)
  <2>1. calls' = [calls EXCEPT ![i] = d]
    BY <1>6 DEF VerifySiteAuth, TakenIn
  <2>2. d \in Call /\ d.age = c.age /\ d.nonce = 0 /\ d.at = "handler" /\ d.served = c.served
    BY <1>2, <1>5, TakenInFacts, Zenon
  <2>3. c.nonce = NoNonce /\ c.age <= Window /\ known
    BY <1>5, <1>6, LinkAssumption DEF Authentic, Call
  <2>4. c.age \in Int /\ Window \in Int /\ c.served \in BOOLEAN
    BY <1>5, LinkAssumption DEF Call
  <2>5. link.skew <= 0 => Once(d, known)
    BY <1>5, <2>2, <2>3, <2>4 DEF Once, NoNonce
  <2> HIDE DEF d
  <2> QED
    BY <1>1, <1>2, <2>1, <2>2, <2>5, SlotOnce DEF LinkInv
<1>7. CASE ~Authentic(c)
  <2>1. calls' = [calls EXCEPT ![i] = Kept(Answered(c, "refused"))]
    BY <1>7 DEF VerifySiteAuth
  <2>2. Alike(c, Answered(c, "refused"))
    BY <1>5, AnsweredAlike
  <2>3. Alike(calls[i], Answered(c, "refused"))
    BY <1>4, <2>2 DEF Alike
  <2> QED
    BY <1>1, <2>1, <2>3, AlikeSlot
<1> QED
  BY <1>6, <1>7

\* A request leaves the handler, refused, served or cut short: what has been served has
\* been let in.
LEMMA LeaveOnce ==
  ASSUME LinkInv, NEW i \in Slots, LimitRate(i) \/ Serve(i) \/ DieServing(i)
  PROVE  CallsOK' /\ AllOnce'
<1>1. Used(i) /\ calls[i].at = "handler" /\ link' = link /\ known' = known
  BY DEF LimitRate, Serve, DieServing, NetFrame, SiteFrame, PlaneFrame
<1>2. calls[i] \in Call /\ CallsOK /\ (link.skew <= 0 => Once(calls[i], known))
  BY <1>1, InHandFacts, TypeFacts DEF LinkInv
<1>3. \A reply \in {"ok", "refused"} :
        /\ Answered(calls[i], reply) \in Call
        /\ Answered(calls[i], reply).at = "handler"
        /\ link.skew <= 0 => Once(Answered(calls[i], reply), known)
  BY <1>1, <1>2, AnsweredAlike, AlikeOnce DEF Alike
<1>4. ASSUME NEW c \in Call, c.at = "handler", link.skew <= 0 => Once(c, known)
      PROVE  /\ LetGo(c) \in Call /\ (link.skew <= 0 => Once(LetGo(c), known))
             /\ ServedAndGone(c) \in Call /\ (link.skew <= 0 => Once(ServedAndGone(c), known))
  BY <1>4, LetGoFacts DEF Once
<1>5. ASSUME NEW c \in Call, link.skew <= 0 => Once(c, known),
             calls' = [calls EXCEPT ![i] = Kept(c)]
      PROVE  CallsOK' /\ AllOnce'
  <2>1. Kept(c) \in {Free} \cup Call /\ (link.skew <= 0 /\ Kept(c) # Free => Once(Kept(c), known))
    BY <1>5, KeptOnce, KeptFacts
  <2> QED
    BY <1>1, <1>2, <1>5, <2>1, SlotOnce DEF LinkInv
<1>6. CASE LimitRate(i)
  <2>1. calls' = [calls EXCEPT ![i] = Kept(LetGo(Answered(calls[i], "refused")))]
    BY <1>6 DEF LimitRate, Done, LetGo
  <2> QED
    BY <1>3, <1>4, <1>5, <2>1
<1>7. CASE Serve(i)
  <2>1. calls' = [calls EXCEPT ![i] = Kept(ServedAndGone(Answered(calls[i], "ok")))]
    BY <1>7 DEF Serve, ServedAndGone
  <2> QED
    BY <1>3, <1>4, <1>5, <2>1
<1>8. CASE DieServing(i)
  <2>1. calls' = [calls EXCEPT ![i] = Kept(LetGo(calls[i]))]
    BY <1>8 DEF DieServing, LetGo
  <2> QED
    BY <1>1, <1>2, <1>4, <1>5, <2>1
<1> QED
  BY <1>6, <1>7, <1>8

\* The prune job takes the nonces of requests that are out of time.
LEMMA PruneOnce ==
  ASSUME LinkInv, PruneNonces
  PROVE  CallsOK' /\ AllOnce'
<1>1. link' = link /\ known' = known /\ CallsOK
  BY TypeFacts DEF LinkInv, PruneNonces, NetFrame, SiteFrame, PlaneFrame
<1>2. calls' = [i \in Slots |->
        IF Used(i) /\ calls[i].nonce > Window THEN Pruned(calls[i]) ELSE calls[i]]
  BY DEF PruneNonces, Pruned
<1>3. ASSUME NEW i \in Slots
      PROVE  /\ calls'[i] \in {Free} \cup Call
             /\ link.skew <= 0 /\ calls'[i] # Free => Once(calls'[i], known)
  <2>1. CASE Used(i) /\ calls[i].nonce > Window
    <3>1. calls[i] \in Call /\ (link.skew <= 0 => Once(calls[i], known))
      BY <1>1, <2>1, InHandFacts DEF LinkInv
    <3>2. calls'[i] = Pruned(calls[i])
      BY <1>2, <2>1
    <3>3. calls[i].age \in Int /\ calls[i].nonce \in Int /\ Window \in Nat
      BY <3>1, LinkAssumption DEF Call, NoNonce
    <3>4. link.skew <= 0 => calls[i].age > Window
      BY <2>1, <3>1, <3>3 DEF Once
    <3> QED
      BY <3>1, <3>2, <3>3, <3>4, PrunedFacts DEF Once, NoNonce
  <2>2. CASE ~(Used(i) /\ calls[i].nonce > Window)
    <3>1. calls'[i] = calls[i]
      BY <1>2, <2>2
    <3> QED
      BY <1>1, <3>1, InHandFacts DEF LinkInv, CallsOK, Used
  <2> QED
    BY <2>1, <2>2
<1>4. CallsOK'
  BY <1>2, <1>3 DEF CallsOK
<1> QED
  BY <1>1, <1>3, <1>4 DEF AllOnce, Used

\* A site that is deleted takes its nonces along, and is not known any more.
LEMMA DeleteOnce ==
  ASSUME LinkInv, DeleteSite
  PROVE  CallsOK' /\ AllOnce'
<1>1. link' = link /\ known' = FALSE /\ CallsOK
  BY TypeFacts DEF LinkInv, DeleteSite, NetFrame, SiteFrame
<1>2. calls' = [i \in Slots |-> IF Used(i) THEN Pruned(calls[i]) ELSE Free]
  BY DEF DeleteSite, Pruned
<1>3. ASSUME NEW i \in Slots
      PROVE  /\ calls'[i] \in {Free} \cup Call
             /\ link.skew <= 0 /\ calls'[i] # Free => Once(calls'[i], FALSE)
  <2>1. CASE Used(i)
    <3>1. calls[i] \in Call /\ (link.skew <= 0 => Once(calls[i], known))
      BY <1>1, <2>1, InHandFacts DEF LinkInv
    <3>2. calls'[i] = Pruned(calls[i])
      BY <1>2, <2>1
    <3>3. calls[i].age \in Int
      BY <3>1 DEF Call
    <3> QED
      BY <3>1, <3>2, <3>3, PrunedFacts DEF Once, NoNonce
  <2>2. CASE ~Used(i)
    BY <1>2, <2>2
  <2> QED
    BY <2>1, <2>2
<1>4. CallsOK'
  BY <1>2, <1>3 DEF CallsOK
<1> QED
  BY <1>1, <1>3, <1>4 DEF AllOnce, Used

\* Timestamps and nonces grow older together.
LEMMA TickOnce ==
  ASSUME LinkInv, Tick
  PROVE  CallsOK' /\ AllOnce'
<1>1. link' = link /\ known' = known /\ CallsOK
  BY TypeFacts DEF LinkInv, Tick, SiteFrame
<1>2. calls' = [i \in Slots |-> IF Used(i) THEN Kept(OlderCall(calls[i])) ELSE Free]
  BY DEF Tick
<1>3. ASSUME NEW i \in Slots
      PROVE  /\ calls'[i] \in {Free} \cup Call
             /\ link.skew <= 0 /\ calls'[i] # Free => Once(calls'[i], known)
  <2>1. CASE Used(i)
    <3> DEFINE c == calls[i]
               d == OlderCall(calls[i])
    <3>1. c \in Call /\ (link.skew <= 0 => Once(c, known))
      BY <1>1, <2>1, InHandFacts DEF LinkInv
    <3>2. /\ d \in Call /\ d.at = c.at /\ d.served = c.served
          /\ d.age = Older(c.age, Window + 1)
          /\ d.nonce = IF c.nonce = NoNonce THEN NoNonce ELSE Older(c.nonce, Window + 1)
      BY <3>1, OlderFacts
    <3>3. c.age \in Int /\ c.nonce \in {NoNonce} \cup Nat /\ Window \in Nat
      BY <3>1, LinkAssumption DEF Call
    <3>4. ASSUME link.skew <= 0
          PROVE  Once(d, known)
      <4>1. c.age >= 0 /\ c.nonce <= c.age
        BY <3>1, <3>4 DEF Once
      <4>2. d.age >= 0 /\ d.nonce <= d.age
        BY <3>2, <3>3, <4>1 DEF Older, NoNonce
      <4>3. c.age > Window => d.age > Window
        BY <3>2, <3>3 DEF Older
      <4>4. c.nonce # NoNonce => d.nonce # NoNonce
        BY <3>2, <3>3 DEF Older, NoNonce
      <4> HIDE DEF d
      <4> QED
        BY <3>1, <3>2, <3>4, <4>2, <4>3, <4>4 DEF Once
    <3>5. calls'[i] = Kept(d)
      BY <1>2, <2>1
    <3> HIDE DEF d
    <3> QED
      BY <3>2, <3>4, <3>5, KeptFacts
  <2>2. CASE ~Used(i)
    BY <1>2, <2>2
  <2> QED
    BY <2>1, <2>2
<1>4. CallsOK'
  BY <1>2, <1>3 DEF CallsOK
<1> QED
  BY <1>1, <1>3, <1>4 DEF AllOnce, Used

\* No step loses track of a request that was let in.
LEMMA RequestsOnce ==
  ASSUME LinkInv, LinkNext
  PROVE  CallsOK' /\ AllOnce'
<1>0. CallsOK /\ AllOnce /\ wanted \in BOOLEAN
  BY TypeFacts DEF LinkInv
<1>1. ASSUME UNCHANGED <<link, calls>>, known' = known
      PROVE  CallsOK' /\ AllOnce'
  BY <1>0, <1>1 DEF CallsOK, AllOnce, Used
<1>2. ASSUME NEW i \in Slots, Beat(i)
      PROVE  CallsOK' /\ AllOnce'
  <2>1. Send(i, "heartbeat", {}, TRUE) /\ link' = link /\ known' = known
    BY <1>2 DEF Beat, SiteFrame, PlaneFrame
  <2> QED
    BY <2>1, SendOnce DEF Classes
<1>3. ASSUME NEW i \in Slots, Flush(i)
      PROVE  CallsOK' /\ AllOnce'
  <2>1. Send(i, "events", pending, TRUE) /\ link' = link /\ known' = known
    BY <1>3 DEF Flush, SiteFrame, PlaneFrame
  <2> QED
    BY <2>1, SendOnce, TypeFacts DEF Classes, LinkInv
<1>4. ASSUME NEW i \in Slots, NEW e \in Events, ReportEvent(i, e)
      PROVE  CallsOK' /\ AllOnce'
  <2>1. Send(i, "events", {e}, FALSE) /\ link' = link /\ known' = known
    BY <1>4 DEF ReportEvent, PlaneFrame
  <2> QED
    BY <2>1, SendOnce DEF Classes
<1>5. ASSUME NEW i \in Slots, HearHeartbeat(i) \/ HearEvents(i) \/ Timeout(i) \/ LoseAnswer(i)
      PROVE  CallsOK' /\ AllOnce'
  <2>1. Used(i) /\ calls' = Settled(i) /\ link' = link /\ known' = known
    BY <1>5 DEF HearHeartbeat, HearEvents, Timeout, LoseAnswer, Heard, SiteFrame, PlaneFrame
  <2> QED
    BY <2>1, SettledOnce
<1>6. CASE \E i \in Slots : SendHeartbeat(i) \/ SendHeartbeatTwice(i)
  BY <1>2, <1>6 DEF SendHeartbeat, SendHeartbeatTwice
<1>7. CASE \E i \in Slots : CallSteps(i)
  BY <1>5, <1>7, VerifyOnce, LeaveOnce DEF CallSteps
<1>8. CASE \E i \in Slots : Copy(i) \/ Lose(i) \/ LoseAnswer(i) \/ DieServing(i)
  BY <1>5, <1>8, NetworkOnce, LeaveOnce
<1>9. CASE (\E e \in Events : PushRead(e)) \/ PushWrite \/ DriftSteps
            \/ ToggleKillSwitch \/ Outage
  BY <1>1, <1>9 DEF PushRead, PushWrite, DriftSteps, DriftRead, DriftAct, ToggleKillSwitch,
                    Outage, NetFrame, SiteFrame, PlaneFrame
<1> QED
  BY <1>3, <1>4, <1>6, <1>7, <1>8, <1>9, PruneOnce, DeleteOnce, TickOnce
  DEF LinkNext, LinkFaultSteps, LinkOtherSteps

-----------------------------------------------------------------------------
(***************************************************************************)
(* The other variables keep their types.                                   *)
(***************************************************************************)
SiteOK ==
  /\ link \in Links /\ up \in BOOLEAN /\ switch \in BOOLEAN
  /\ pending \subseteq Events /\ pushed \subseteq Events /\ dropped \subseteq Events
  /\ pusher \in {NoPusher} \cup [copy : SUBSET Events, event : Events]
  /\ beatAge \in 0 .. 1
  /\ linkFaults \subseteq {"lost", "copied", "died", "overlap"}

PlaneOK ==
  /\ known \in BOOLEAN /\ wanted \in BOOLEAN /\ recorded \subseteq Events
  /\ lastBeat \in 0 .. Drift + 1
  /\ rates \in [Classes -> [count : 0 .. RateMax, age : 0 .. 1]]
  /\ alarm \in {"none", "open", "resolved"} /\ drift \in {"idle", "quiet", "gap"}
  /\ toggles \in Nat

\* The types, apart from one another.
LEMMA TypeParts == LinkTypeOK <=> SiteOK /\ PlaneOK /\ CallsOK
  BY DEF LinkTypeOK, SiteOK, PlaneOK, CallsOK

\* What a request holds is what the types say.
LEMMA HeldFacts ==
  ASSUME CallsOK, NEW i \in Slots, Used(i)
  PROVE  /\ calls[i].kind \in Classes /\ calls[i].content \subseteq Events
         /\ calls[i].seen \in BOOLEAN
  BY InHandFacts DEF Call

\* What the site keeps has its type after every step.
LEMMA SiteTypes ==
  ASSUME LinkTypeOK, LinkNext
  PROVE  SiteOK'
<1>0. SiteOK /\ CallsOK /\ link \in LinkKinds
  BY TypeParts, LinkAssumption DEF SiteOK
<1>1. ASSUME NetFrame, UNCHANGED linkFaults
      PROVE  SiteOK'
  BY <1>0, <1>1 DEF SiteOK, NetFrame, SiteFrame, OptionFrame
<1>2. ASSUME NEW f, Befalls(f)
      PROVE  linkFaults' \subseteq {"lost", "copied", "died", "overlap"}
  BY <1>0, <1>2 DEF Befalls, SiteOK, LinkKinds
<1>3. ASSUME NEW i \in Slots, Beat(i), linkFaults' \subseteq {"lost", "copied", "died", "overlap"}
      PROVE  SiteOK'
  BY <1>0, <1>3 DEF SiteOK, Beat, SiteFrame, OptionFrame
<1>4. CASE \E i \in Slots : SendHeartbeat(i) \/ SendHeartbeatTwice(i)
  BY <1>0, <1>2, <1>3, <1>4 DEF SendHeartbeat, SendHeartbeatTwice, SiteOK
<1>5. CASE \E i \in Slots : Flush(i)
  BY <1>0, <1>5 DEF SiteOK, Flush, SiteFrame, OptionFrame
<1>6. ASSUME NEW i \in Slots, HearHeartbeat(i)
      PROVE  SiteOK'
  <2>1. Used(i)
    BY <1>6 DEF HearHeartbeat, Heard
  <2>2. calls[i].seen \in BOOLEAN
    BY <1>0, <2>1, HeldFacts
  <2>3. (calls[i].reply = "ok" /\ calls[i].seen) \in BOOLEAN
    OBVIOUS
  <2> QED
    BY <1>0, <1>6, <2>3 DEF SiteOK, HearHeartbeat, SiteFrame, OptionFrame
<1>7. ASSUME NEW i \in Slots, HearEvents(i)
      PROVE  SiteOK'
  BY <1>0, <1>7 DEF SiteOK, HearEvents, SiteFrame, OptionFrame
<1>8. ASSUME NEW i \in Slots, Timeout(i)
      PROVE  SiteOK'
  BY <1>0, <1>8 DEF SiteOK, Timeout, SiteFrame, OptionFrame
<1>9. ASSUME NEW i \in Slots, LoseAnswer(i)
      PROVE  SiteOK'
  BY <1>0, <1>2, <1>9 DEF SiteOK, LoseAnswer, SiteFrame, OptionFrame
<1>10. ASSUME NEW i \in Slots, VerifySiteAuth(i) \/ LimitRate(i) \/ Serve(i)
       PROVE  SiteOK'
  BY <1>1, <1>10 DEF VerifySiteAuth, LimitRate, Serve
<1>11. ASSUME NEW i \in Slots, Copy(i) \/ Lose(i) \/ DieServing(i)
       PROVE  SiteOK'
  BY <1>0, <1>2, <1>11 DEF SiteOK, Copy, Lose, DieServing, NetFrame, SiteFrame, OptionFrame
<1>12. CASE PruneNonces \/ DriftSteps \/ ToggleKillSwitch \/ DeleteSite
  BY <1>1, <1>12 DEF PruneNonces, DriftSteps, DriftRead, DriftAct, ToggleKillSwitch, DeleteSite
<1>13. CASE Tick
  BY <1>0, <1>13 DEF SiteOK, Tick, SiteFrame, OptionFrame
<1>14. CASE Outage
  BY <1>0, <1>14 DEF SiteOK, Outage, OptionFrame
<1>15. ASSUME NEW e \in Events, PushRead(e)
       PROVE  SiteOK'
  BY <1>0, <1>15 DEF SiteOK, PushRead, OptionFrame
<1>16. CASE PushWrite
  <2>1. pusher \in [copy : SUBSET Events, event : Events]
    BY <1>0, <1>16 DEF SiteOK, PushWrite
  <2>2. pusher.copy \subseteq Events /\ pusher.event \in Events
    BY <2>1
  <2> QED
    BY <1>0, <1>16, <2>2 DEF SiteOK, PushWrite
<1>17. ASSUME NEW e \in Events, NEW i \in Slots, ReportEvent(i, e)
       PROVE  SiteOK'
  BY <1>0, <1>17 DEF SiteOK, ReportEvent
<1> QED
  BY <1>4, <1>5, <1>6, <1>7, <1>8, <1>9, <1>10, <1>11, <1>12, <1>13, <1>14, <1>15, <1>16, <1>17
  DEF LinkNext, CallSteps, LinkFaultSteps, LinkOtherSteps

\* Ages stop at their bound.
LEMMA AgeFacts ==
  ASSUME NEW bound \in Nat, NEW age \in 0 .. bound
  PROVE  Older(age, bound) \in 0 .. bound
  BY DEF Older

\* The limiter never counts more than it lets through.
LEMMA RateFacts ==
  ASSUME PlaneOK, NEW c \in Classes
  PROVE  /\ Rate(c) \in [count : 0 .. RateMax, age : 0 .. 1]
         /\ WithinRate(c) =>
              [Rate(c) EXCEPT !.count = @ + 1] \in [count : 0 .. RateMax, age : 0 .. 1]
<1>1. RateMax \in Nat
  BY LinkAssumption
<1>2. rates[c] \in [count : 0 .. RateMax, age : 0 .. 1]
  BY DEF PlaneOK
<1>3. Rate(c) \in [count : 0 .. RateMax, age : 0 .. 1]
  BY <1>1, <1>2 DEF Rate
<1>4. ASSUME WithinRate(c)
      PROVE  Rate(c).count + 1 \in 0 .. RateMax
  BY <1>1, <1>3, <1>4 DEF WithinRate
<1> QED
  BY <1>3, <1>4

\* What the control plane keeps has its type after every step.
LEMMA PlaneTypes ==
  ASSUME LinkTypeOK, LinkNext
  PROVE  PlaneOK'
<1>0. PlaneOK /\ CallsOK /\ RateMax \in Nat /\ Drift \in Nat
  BY TypeParts, LinkAssumption
<1>1. ASSUME PlaneFrame
      PROVE  PlaneOK'
  BY <1>0, <1>1 DEF PlaneOK, PlaneFrame
<1>2. CASE \E i \in Slots : SendHeartbeat(i) \/ SendHeartbeatTwice(i) \/ Flush(i)
  BY <1>1, <1>2 DEF SendHeartbeat, SendHeartbeatTwice, Beat, Flush
<1>3. CASE \E i \in Slots : \/ VerifySiteAuth(i) \/ LimitRate(i)
                            \/ HearHeartbeat(i) \/ HearEvents(i) \/ Timeout(i)
  BY <1>1, <1>3 DEF VerifySiteAuth, LimitRate, HearHeartbeat, HearEvents, Timeout
<1>4. CASE \E i \in Slots : Copy(i) \/ Lose(i) \/ LoseAnswer(i)
  BY <1>1, <1>4 DEF Copy, Lose, LoseAnswer
<1>5. CASE PushWrite \/ PruneNonces \/ Outage \/ \E e \in Events :
             PushRead(e) \/ \E i \in Slots : ReportEvent(i, e)
  BY <1>1, <1>5 DEF PushWrite, PruneNonces, Outage, PushRead, ReportEvent
<1>6. ASSUME NEW i \in Slots, Serve(i)
      PROVE  PlaneOK'
  <2>1. calls[i].kind \in Classes /\ calls[i].content \subseteq Events
    BY <1>0, <1>6, HeldFacts DEF Serve
  <2> DEFINE c == calls[i].kind
             r == [Rate(c) EXCEPT !.count = @ + 1]
  <2>2. r \in [count : 0 .. RateMax, age : 0 .. 1]
    BY <1>0, <1>6, <2>1, RateFacts DEF Serve
  <2>3. rates' = [rates EXCEPT ![c] = r]
    BY <1>6 DEF Serve
  <2>4. rates' \in [Classes -> [count : 0 .. RateMax, age : 0 .. 1]]
    <3> HIDE DEF r, c
    <3> QED
      BY <1>0, <2>2, <2>3 DEF PlaneOK
  <2>5. lastBeat' \in 0 .. Drift + 1
    BY <1>0, <1>6 DEF PlaneOK, Serve
  <2>6. recorded' \subseteq Events
    BY <1>0, <1>6, <2>1 DEF PlaneOK, Serve
  <2>7. UNCHANGED <<known, wanted, alarm, drift, toggles>>
    BY <1>6 DEF Serve
  <2> QED
    BY <1>0, <2>4, <2>5, <2>6, <2>7 DEF PlaneOK
<1>7. ASSUME NEW i \in Slots, DieServing(i)
      PROVE  PlaneOK'
  <2>1. calls[i].content \subseteq Events
    BY <1>0, <1>7, HeldFacts DEF DieServing
  <2>2. recorded' \subseteq Events
    BY <1>0, <1>7, <2>1 DEF PlaneOK, DieServing
  <2>3. rates' \in [Classes -> [count : 0 .. RateMax, age : 0 .. 1]]
    BY <1>0, <1>7 DEF DieServing
  <2>4. UNCHANGED <<known, wanted, lastBeat, alarm, drift, toggles>>
    BY <1>7 DEF DieServing
  <2> QED
    BY <1>0, <2>2, <2>3, <2>4 DEF PlaneOK
<1>8. CASE DriftSteps
  BY <1>0, <1>8 DEF PlaneOK, DriftSteps, DriftRead, DriftAct
<1>9. CASE ToggleKillSwitch
  <2>1. toggles + 1 \in Nat
    BY <1>0 DEF PlaneOK
  <2>2. toggles' \in Nat /\ wanted' \in BOOLEAN
    BY <1>9, <2>1 DEF ToggleKillSwitch
  <2>3. UNCHANGED <<known, recorded, lastBeat, rates, alarm, drift>>
    BY <1>9 DEF ToggleKillSwitch
  <2> QED
    BY <1>0, <2>2, <2>3, Zenon DEF PlaneOK
<1>10. CASE DeleteSite
  <2>1. known' \in BOOLEAN /\ alarm' \in {"none", "open", "resolved"}
    BY <1>10 DEF DeleteSite
  <2>2. UNCHANGED <<wanted, recorded, lastBeat, rates, drift, toggles>>
    BY <1>10 DEF DeleteSite
  <2> QED
    BY <1>0, <2>1, <2>2 DEF PlaneOK
<1>11. CASE Tick
  <2>1. lastBeat' \in 0 .. Drift + 1
    <3>1. lastBeat \in 0 .. Drift + 1 /\ Drift + 1 \in Nat
      BY <1>0 DEF PlaneOK
    <3>2. Older(lastBeat, Drift + 1) \in 0 .. Drift + 1
      BY <3>1, AgeFacts
    <3> QED
      BY <1>11, <3>1, <3>2 DEF Tick
  <2>2. rates' \in [Classes -> [count : 0 .. RateMax, age : 0 .. 1]]
    <3>1. rates' = [c \in Classes |-> [rates[c] EXCEPT !.age = 1]]
      BY <1>11 DEF Tick
    <3>2. \A c \in Classes : [rates[c] EXCEPT !.age = 1] \in [count : 0 .. RateMax, age : 0 .. 1]
      BY <1>0 DEF PlaneOK
    <3> QED
      BY <3>1, <3>2
  <2>3. UNCHANGED <<known, wanted, recorded, alarm, drift, toggles>>
    BY <1>11 DEF Tick
  <2> QED
    BY <1>0, <2>1, <2>2, <2>3 DEF PlaneOK
<1> QED
  BY <1>2, <1>3, <1>4, <1>5, <1>6, <1>7, <1>8, <1>9, <1>10, <1>11
  DEF LinkNext, CallSteps, LinkFaultSteps, LinkOtherSteps

-----------------------------------------------------------------------------
(***************************************************************************)
(* The invariant, and what follows from it.                                *)
(***************************************************************************)

\* At the start nothing is under way.
LEMMA LinkInvInit ==
  ASSUME LinkInit(Links)
  PROVE  LinkInv
<1>1. SiteOK
  <2>1. up \in BOOLEAN /\ switch \in BOOLEAN
    BY DEF LinkInit
  <2>2. link \in Links /\ pusher = NoPusher /\ beatAge = 1 /\ linkFaults = {}
        /\ pending = {} /\ pushed = {} /\ dropped = {}
    BY DEF LinkInit
  <2> QED
    BY <2>1, <2>2 DEF SiteOK
<1>2. PlaneOK
  <2>1. known \in BOOLEAN /\ wanted \in BOOLEAN /\ recorded \subseteq Events
    BY DEF LinkInit
  <2>2. lastBeat \in 0 .. Drift + 1 /\ toggles \in Nat
    BY LinkAssumption DEF LinkInit
  <2>3. rates \in [Classes -> [count : 0 .. RateMax, age : 0 .. 1]]
    BY LinkAssumption DEF LinkInit
  <2>4. alarm \in {"none", "open", "resolved"} /\ drift \in {"idle", "quiet", "gap"}
    BY DEF LinkInit
  <2> QED
    BY <2>1, <2>2, <2>3, <2>4 DEF PlaneOK
<1>3. CallsOK /\ AllOnce
  BY DEF LinkInit, CallsOK, AllOnce, Used
<1> QED
  BY <1>1, <1>2, <1>3, TypeParts DEF LinkInv

\* Every step of the site, the network and the control plane keeps the invariant.
LEMMA LinkInvNext ==
  ASSUME LinkInv, [LinkNext]_linkVars
  PROVE  LinkInv'
<1>1. CASE LinkNext
  <2>1. SiteOK' /\ PlaneOK' /\ CallsOK' /\ AllOnce'
    BY <1>1, SiteTypes, PlaneTypes, RequestsOnce DEF LinkInv
  <2> QED
    BY <2>1 DEF LinkInv, LinkTypeOK, SiteOK, PlaneOK, CallsOK
<1>2. CASE UNCHANGED linkVars
  BY <1>2 DEF LinkInv, LinkTypeOK, AllOnce, Used, linkVars
<1> QED
  BY <1>1, <1>2

\* The types hold, for every width of the window, limit of the rate and number of requests.
THEOREM LinkTypeCorrect == LinkSpec => []LinkTypeOK
<1>1. LinkInv => LinkTypeOK
  BY DEF LinkInv
<1> QED
  BY <1>1, LinkInvInit, LinkInvNext, PTL DEF LinkSpec

\* A request of a site whose clock is not ahead reaches its handler once, however often the
\* network delivers it, whatever the prune job takes and whenever the site is deleted.
THEOREM OnlyServedOnce == LinkSpec => []ServedOnce
<1>1. LinkInv => ServedOnce
  BY DEF LinkInv, AllOnce, Once, ServedOnce
<1> QED
  BY <1>1, LinkInvInit, LinkInvNext, PTL DEF LinkSpec
=============================================================================
