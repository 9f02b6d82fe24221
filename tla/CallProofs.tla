------------------------------ MODULE CallProofs ------------------------------
(***************************************************************************)
(* Proofs about 1:1 calls, for any two devices and every MaxCalls, MaxDesc *)
(* and MaxEvents: CallInv is an invariant, and with it TypeOK,             *)
(* MediaReleased and NoResurrection; so is ToldInv, and with it SameCall.  *)
(* A step changes one controller, and what it makes of it is put together  *)
(* from the private methods; so the first sections say of each method, and *)
(* of the server, that it keeps a sound controller sound, and an action    *)
(* has to answer for what it adds.  The second half does the same for what *)
(* the two have told each other.                                           *)
(***************************************************************************)
EXTENDS Call, SequenceTheorems, TLAPS

(* A controller of its type that is sound.                                 *)
Good(r, u) == r \in Controller /\ Sound(r, u)

-----------------------------------------------------------------------------
(* The server.                                                             *)

(* Other() is the other one of the two devices.                            *)
LEMMA OtherDevice == ASSUME NEW d \in Devices PROVE Other(d) \in Devices /\ Other(d) # d
<1> QED BY TwoDevices DEF Other

(* A frame of its type, alone or as a sequence.                            *)
LEMMA FrameTyped ==
    ASSUME NEW t \in FrameTypes, NEW c \in Nat, NEW s \in Nat
    PROVE  Frame(t, c, s) \in Frames /\ <<Frame(t, c, s)>> \in Seq(Frames)
<1> QED BY DEF Frame, Frames, CallIds

(* Writing to a socket keeps the network typed.                            *)
LEMMA PushTyped ==
    ASSUME NEW n \in Network, NEW p \in Devices, NEW f \in Frames
    PROVE  Push(n, p, f) \in Network
<1>1. n.down[p] \in Seq(Frames)
  BY DEF Network
<1>2. Append(n.down[p], f) \in Seq(Frames)
  BY <1>1, AppendProperties
<1>3. [n.down EXCEPT ![p] = Append(n.down[p], f)] \in [Devices -> Seq(Frames)]
  BY <1>2 DEF Network
<1>4. [n EXCEPT !.down = [n.down EXCEPT ![p] = Append(n.down[p], f)]] \in Network
  BY <1>3 DEF Network
<1>5. [n EXCEPT !.down[p] = Append(@, f)]
        = [n EXCEPT !.down = [n.down EXCEPT ![p] = Append(n.down[p], f)]]
  OBVIOUS
<1> QED BY <1>4, <1>5 DEF Push

(* So does the end of the line.                                            *)
LEMMA OverTyped == ASSUME NEW n \in Network PROVE Over(n) \in Network
<1> QED BY DEF Over, Network

(* And one frame that the server takes.                                    *)
LEMMA ServeTyped ==
    ASSUME NEW n \in Network, NEW d \in Devices, NEW f \in Frames
    PROVE  Serve(n, d, f) \in Network
<1>1. Other(d) \in Devices
  BY OtherDevice
<1>2. Push(n, d, Frame("hangup", f.call, 0)) \in Network
  <2>1. "hangup" \in FrameTypes /\ f.call \in Nat
    BY DEF FrameTypes, Frames, CallIds
  <2> QED BY <2>1, FrameTyped, PushTyped
<1>3. Push([n EXCEPT !.line = "live"], Other(d), f) \in Network
  <2>1. [n EXCEPT !.line = "live"] \in Network
    BY DEF Network
  <2> QED BY <2>1, <1>1, PushTyped
<1>4. Push(Over(n), Other(d), f) \in Network
  BY <1>1, OverTyped, PushTyped
<1>5. [n EXCEPT !.grace = @ \ {d}] \in Network
  BY DEF Network
<1>6. Push(n, Other(d), f) \in Network
  BY <1>1, PushTyped
<1> QED BY <1>2, <1>3, <1>4, <1>5, <1>6 DEF Serve

(* And the frames of a handler.                                            *)
LEMMA SentTyped ==
    ASSUME NEW n \in Network, NEW d \in Devices, NEW fs \in Seq(Frames)
    PROVE  Sent(n, d, fs) \in Network
<1>1. ASSUME NEW m \in Network, NEW k \in Nat \ {0}
      PROVE  Served(m, d, fs, k) \in Network
  <2>1. CASE k <= Len(fs)
    <3>1. fs[k] \in Frames
      BY <2>1, LenProperties
    <3> QED BY <3>1, <2>1, ServeTyped DEF Served
  <2>2. CASE ~(k <= Len(fs))
    BY <2>2 DEF Served
  <2> QED BY <2>1, <2>2
<1>2. Served(n, d, fs, 1) \in Network
  BY <1>1
<1>3. Served(Served(n, d, fs, 1), d, fs, 2) \in Network
  BY <1>1, <1>2
<1>4. Served(Served(Served(n, d, fs, 1), d, fs, 2), d, fs, 3) \in Network
  BY <1>1, <1>3
<1> QED BY <1>4 DEF Sent

(* The answer to an offer.                                                 *)
LEMMA OffersTyped ==
    ASSUME NEW n \in Network, NEW d \in Devices, NEW s \in Nat
    PROVE  Offers(n, d, s) \subseteq Network
<1> DEFINE m == [n EXCEPT !.id = @ + 1, !.line = "ringing", !.from = d]
<1>1. m \in Network
  <2>1. n.id + 1 \in CallIds
    BY DEF Network, CallIds
  <2> QED BY <2>1 DEF Network
<1>2. m.id \in Nat /\ {"ringing", "incoming", "error"} \subseteq FrameTypes
  BY <1>1 DEF Network, CallIds, FrameTypes
<1>3. Push(n, d, Frame("error", 0, 0)) \in Network
  BY <1>2, FrameTyped, PushTyped
<1>4. Push(m, d, Frame("ringing", m.id, 0)) \in Network
  BY <1>1, <1>2, FrameTyped, PushTyped
<1>5. Push(Push(m, d, Frame("ringing", m.id, 0)), Other(d), Frame("incoming", m.id, s)) \in Network
  BY <1>2, <1>4, OtherDevice, FrameTyped, PushTyped
<1> QED BY <1>3, <1>5 DEF Offers

-----------------------------------------------------------------------------
(* Private methods of the controller.                                      *)

(* What has happened stays so, and a sound controller stays sound.         *)
LEMMA GoodLater ==
    ASSUME NEW u, NEW v, u \subseteq v, NEW r, Good(r, u)
    PROVE  Good(r, v)
<1> QED BY DEF Good, Sound, Tapped

(* A controller that agrees with a sound one in what soundness is about,   *)
(* or has fewer promises or no deadline any more, is sound.                *)
Agree(q, r) ==
    /\ q.phase = r.phase /\ q.sess = r.sess /\ q.wait = r.wait
    /\ q.orphan = r.orphan /\ q.pc = r.pc
    /\ q.deadline => r.deadline
    /\ q.jobs \subseteq r.jobs
LEMMA AgreeGood ==
    ASSUME NEW u, NEW r, Good(r, u), NEW q \in Controller, Agree(q, r)
    PROVE  Good(q, u)
<1> QED BY DEF Good, Sound, Agree, JobsOfCall, OneOpening, Tapped, Busy

(* One promise less.                                                       *)
LEMMA TakenGood ==
    ASSUME NEW u, NEW d, Good(dev[d], u), NEW j \in dev[d].jobs
    PROVE  /\ Good(Taken(d, j), u) /\ j \in JobSet
           /\ Agree(Taken(d, j), dev[d])
           /\ Taken(d, j) = [dev[d] EXCEPT !.jobs = dev[d].jobs \ {j}]
<1>1. dev[d] \in Controller /\ j \in JobSet
  BY DEF Good, Controller
<1>2. Taken(d, j) \in Controller /\ Agree(Taken(d, j), dev[d])
  BY <1>1 DEF Taken, Controller, Agree
<1> QED BY <1>1, <1>2, AgreeGood DEF Taken

(* Bump() makes every promise late.                                        *)
LEMMA BumpLate ==
    ASSUME NEW r \in Controller
    PROVE  /\ Bump(r) \in Controller
           /\ \A j \in Bump(r).jobs : j.late
           /\ Bump(r) = [r EXCEPT !.jobs = Bump(r).jobs]
<1>1. \A j \in r.jobs : j \in JobSet /\ [j EXCEPT !.late = TRUE] \in JobSet
  BY DEF Controller, JobSet
<1>2. {[j EXCEPT !.late = TRUE] : j \in r.jobs} \subseteq JobSet
  BY <1>1
<1>3. \A j \in r.jobs : [j EXCEPT !.late = TRUE].late
  BY <1>1 DEF JobSet
<1> DEFINE S == {[j EXCEPT !.late = TRUE] : j \in r.jobs}
<1>5. Bump(r) = [r EXCEPT !.jobs = S]
  BY DEF Bump
<1> HIDE DEF S
<1>6. [r EXCEPT !.jobs = S] \in Controller /\ [r EXCEPT !.jobs = S].jobs = S
  BY <1>2 DEF Controller, S
<1>7. Bump(r).jobs = S
  BY <1>5, <1>6
<1>8. \A j \in S : j.late
  BY <1>3 DEF S
<1> QED BY <1>5, <1>6, <1>7, <1>8

(* finish() leaves the terminal screen, without media or timers.           *)
LEMMA FinishGood ==
    ASSUME NEW u, NEW r \in Controller, r.orphan = "none" \/ "again" \in u
    PROVE  Good(Finish(r), u) /\ ~Busy(Finish(r))
<1> DEFINE b == Bump(r)
           c == ClearRecovery(b)
           q == CloseSession(c)
           e == Finish(r)
<1>1. b \in Controller /\ (\A j \in b.jobs : j.late) /\ b.orphan = r.orphan
  BY BumpLate DEF Controller
<1>2. /\ c \in Controller /\ c.jobs = b.jobs /\ c.orphan = r.orphan /\ ~c.deadline
  <2> HIDE DEF b
  <2> QED BY <1>1 DEF ClearRecovery, Controller
<1>3. /\ q \in Controller /\ q.jobs = b.jobs /\ q.orphan = r.orphan /\ ~q.deadline
      /\ ~q.sess /\ q.pc = "new"
  <2> HIDE DEF b, c
  <2> QED BY <1>2 DEF CloseSession, Controller
<1>4. /\ e \in Controller /\ e.jobs = b.jobs /\ e.orphan = r.orphan /\ ~e.deadline
      /\ ~e.sess /\ e.pc = "new" /\ e.phase = "idle"
  <2>1. e = [q EXCEPT !.phase = "idle", !.call = 0, !.out = TRUE, !.ever = FALSE,
                !.wait = FALSE, !.offer = 0, !.mine = "none", !.theirs = "none"]
    BY DEF Finish
  <2>2. "idle" \in Phases /\ 0 \in CallIds
    BY DEF Phases, CallIds
  <2> HIDE DEF b, q, e
  <2> QED BY <1>3, <2>1, <2>2 DEF Controller
<1> HIDE DEF b, c, q, e
<1>5. Good(e, u) /\ ~Busy(e)
  BY <1>1, <1>4 DEF Good, Sound, JobsOfCall, OneOpening, Tapped, Late, Busy
<1> QED BY <1>5 DEF e

(* A call that begins has no media: every promise of before is late.       *)
LEMMA Begins ==
    ASSUME NEW u, NEW r, Good(r, u), ~r.sess, NEW b, b = Bump(r),
           NEW q \in Controller, q.jobs \subseteq b.jobs, ~q.sess, q.orphan = r.orphan,
           q.pc = r.pc, q.deadline = r.deadline
    PROVE  Good(q, u)
<1>1. \A j \in b.jobs : j.late
  BY BumpLate DEF Good
<1> QED BY <1>1 DEF Good, Sound, JobsOfCall, OneOpening, Tapped, Late, Busy

(* A further step of the session.                                          *)
LEMMA StartsGood ==
    ASSUME NEW u, NEW r, Good(r, u), r.sess,
           NEW s \in Steps \ {"open"}, NEW x \in Nat
    PROVE  /\ Good(Starts(r, s, x), u)
           /\ Starts(r, s, x).phase = r.phase /\ Starts(r, s, x).sess = r.sess
<1> DEFINE j == Job(s, x)
           q == Starts(r, s, x)
<1>1. j \in JobSet /\ j.step # "open"
  BY DEF Job, JobSet
<1>2. r \in Controller
  BY DEF Good
<1>3. q = [r EXCEPT !.jobs = r.jobs \cup {j}]
  BY DEF Starts
<1> HIDE DEF j, q
<1>4. /\ q \in Controller /\ q.jobs = r.jobs \cup {j}
      /\ q.phase = r.phase /\ q.sess = r.sess /\ q.wait = r.wait
      /\ q.orphan = r.orphan /\ q.pc = r.pc /\ q.deadline = r.deadline
  BY <1>1, <1>2, <1>3 DEF Controller
<1>5. Good(q, u)
  BY <1>1, <1>4 DEF Good, Sound, JobsOfCall, OneOpening, Tapped, Busy
<1> QED BY <1>4, <1>5 DEF q

(* Candidates flushed: nothing of what soundness is about changes.         *)
LEMMA FlushGood ==
    ASSUME NEW u, NEW r, Good(r, u), NEW can \in BOOLEAN
    PROVE  /\ Good(FlushLocal(can, r), u) /\ Agree(FlushLocal(can, r), r)
           /\ Good(FlushIce(r), u) /\ Agree(FlushIce(r), r)
           /\ FlushLocal(can, r).call = r.call /\ FlushLocal(can, r).ever = r.ever
           /\ FlushLocal(can, r).out = r.out
           /\ LocalIce(can, r) \in Seq(Frames)
<1>1. r \in Controller
  BY DEF Good
<1>2. /\ FlushLocal(can, r) \in Controller /\ Agree(FlushLocal(can, r), r)
      /\ FlushLocal(can, r).call = r.call /\ FlushLocal(can, r).ever = r.ever
      /\ FlushLocal(can, r).out = r.out
  BY <1>1 DEF FlushLocal, Controller, Agree
<1>3. FlushIce(r) \in Controller /\ Agree(FlushIce(r), r)
  BY <1>1 DEF FlushIce, Controller, Agree
<1>4. LocalIce(can, r) \in Seq(Frames)
  <2>1. r.call \in Nat /\ "ice" \in FrameTypes
    BY <1>1 DEF Controller, CallIds, FrameTypes
  <2> QED BY <2>1, FrameTyped DEF LocalIce
<1> QED BY <1>2, <1>3, <1>4, AgreeGood

(* The frames that ask for a restart, and those that end a call.           *)
LEMMA FramesTyped ==
    ASSUME NEW r \in Controller, NEW can \in BOOLEAN, NEW u, Good(r, u)
    PROVE  /\ Asks(r) \in Seq(Frames) /\ RecoveryFrames(r) \in Seq(Frames)
           /\ RetryFrames(can, r) \in Seq(Frames) /\ Hangup(r) \in Seq(Frames)
           /\ Resume(r) \in Seq(Frames)
<1>1. /\ r.call \in Nat /\ r.restart \in Nat
      /\ {"restart_request", "restart_offer", "hangup", "resume"} \subseteq FrameTypes
  BY DEF Controller, CallIds, FrameTypes
<1>2. Asks(r) \in Seq(Frames)
  BY <1>1, FrameTyped DEF Asks
<1>3. LocalIce(can, r) \in Seq(Frames) /\ LocalIce(TRUE, r) \in Seq(Frames)
  BY FlushGood
<1>4. RetryFrames(can, r) \in Seq(Frames)
  BY <1>2, <1>3, ConcatProperties DEF RetryFrames
<1>5. Resume(r) \in Seq(Frames)
  <2>1. <<Frame("resume", r.call, 0)>> \in Seq(Frames)
    BY <1>1, FrameTyped
  <2>2. <<Frame("resume", r.call, 0)>> \o LocalIce(TRUE, r) \in Seq(Frames)
    BY <2>1, <1>3, ConcatProperties
  <2>3. Resume(r) = IF Busy(r) /\ r.call # 0
                    THEN <<Frame("resume", r.call, 0)>> \o LocalIce(TRUE, r) ELSE <<>>
    BY DEF Resume
  <2>4. <<>> \in Seq(Frames)
    BY EmptySeq
  <2> HIDE DEF Busy, Frame
  <2> QED BY <2>2, <2>3, <2>4
<1> QED BY <1>1, <1>2, <1>4, <1>5, FrameTyped DEF RecoveryFrames, Hangup

(* A restart of the media is asked for in a session.                       *)
LEMMA RestartGood ==
    ASSUME NEW u, NEW r, Good(r, u)
    PROVE  /\ Good(RestartOffer(r), u)
           /\ RestartOffer(r).phase = r.phase /\ RestartOffer(r).sess = r.sess
<1>1. CASE MayRestart(r) /\ r.restart = 0
  <2> DEFINE s == Starts(r, "restart", 0)
             q == [s EXCEPT !.inFlight = TRUE]
  <2>1. Good(s, u) /\ s.phase = r.phase /\ s.sess = r.sess
    <3>1. "restart" \in Steps \ {"open"} /\ 0 \in Nat
      BY DEF Steps
    <3>2. r.sess
      BY <1>1 DEF MayRestart
    <3> QED BY <3>1, <3>2, StartsGood
  <2>2. RestartOffer(r) = q
    BY <1>1 DEF RestartOffer
  <2> HIDE DEF s
  <2>3. q \in Controller /\ Agree(q, s)
    BY <2>1 DEF Good, Controller, Agree
  <2> QED BY <2>1, <2>2, <2>3, AgreeGood DEF Agree
<1>2. CASE ~(MayRestart(r) /\ r.restart = 0)
  BY <1>2 DEF RestartOffer
<1> QED BY <1>1, <1>2

(* The recovery of a call that has its session.                            *)
LEMMA RecoveryGood ==
    ASSUME NEW u, NEW r, Good(r, u), NEW initiate \in BOOLEAN
    PROVE  /\ Good(BeginRecovery(r, initiate), u)
           /\ ~Busy(r) => ~Busy(BeginRecovery(r, initiate))
           /\ BeginRecovery(r, initiate).sess = r.sess
<1>1. CASE Recovers(r)
  <2> DEFINE q == [r EXCEPT !.phase = "reconnecting", !.deadline = TRUE, !.retry = TRUE]
  <2>1. Busy(r) /\ r.sess
    BY <1>1 DEF Recovers
  <2>2. q \in Controller
    BY DEF Good, Controller, Phases
  <2>3. /\ q.phase = "reconnecting" /\ q.sess = r.sess /\ q.jobs = r.jobs
        /\ q.orphan = r.orphan
    BY DEF Good, Controller
  <2>4. Good(q, u)
    BY <2>1, <2>2, <2>3 DEF Good, Sound, JobsOfCall, OneOpening, Tapped, Busy
  <2>5. Good(RestartOffer(q), u) /\ RestartOffer(q).sess = q.sess
    BY <2>4, RestartGood
  <2>6. BeginRecovery(r, initiate) = IF initiate THEN RestartOffer(q) ELSE q
    BY <1>1 DEF BeginRecovery
  <2> QED BY <2>1, <2>3, <2>4, <2>5, <2>6
<1>2. CASE ~Recovers(r)
  BY <1>2 DEF BeginRecovery
<1> QED BY <1>1, <1>2

(* retryRecovery() does nothing but in a recovery.                         *)
LEMMA RetryGood ==
    ASSUME NEW u, NEW r, Good(r, u), NEW can \in BOOLEAN
    PROVE  /\ Good(RetryRecovery(can, r), u)
           /\ RetryRecovery(can, r).phase = r.phase
<1>1. CASE r.phase = "reconnecting"
  <2> DEFINE f == FlushLocal(can, r)
             q == [f EXCEPT !.retry = TRUE]
  <2>1. Good(f, u) /\ Agree(f, r)
    BY FlushGood
  <2>2. RetryRecovery(can, r) = RestartOffer(q)
    BY <1>1 DEF RetryRecovery
  <2> HIDE DEF f
  <2>3. q \in Controller /\ Agree(q, f)
    BY <2>1 DEF Good, Controller, Agree
  <2>4. Good(q, u) /\ q.phase = r.phase
    BY <2>1, <2>3, AgreeGood DEF Agree
  <2> QED BY <2>2, <2>4, RestartGood
<1>2. CASE r.phase # "reconnecting"
  BY <1>2 DEF RetryRecovery
<1> QED BY <1>1, <1>2

-----------------------------------------------------------------------------
(* A step of one device.                                                   *)

(* The controller of d, and the network, after a step.                     *)
Becomes(d, r) ==
    /\ Good(r, used')
    /\ Busy(dev[d]) \/ ~Busy(r) \/ r.phase \in {"dialing", "incoming"}
    /\ dev' = [dev EXCEPT ![d] = r]
Moves(d) == (\E r : Becomes(d, r)) /\ net' \in Network
Counted == used \subseteq used' /\ used' \subseteq Events /\ placed' \in 0 .. MaxCalls

(* What the invariant says of one device.                                  *)
LEMMA Now ==
    ASSUME CallInv, NEW d \in Devices
    PROVE  /\ Good(dev[d], used) /\ net \in Network /\ dev[d] \in Controller
           /\ CanSend(d) \in BOOLEAN
           /\ dev \in [Devices -> Controller] /\ placed \in 0 .. MaxCalls
<1> QED BY DEF CallInv, TypeOK, Good, CanSend

(* A step of one device preserves the invariant, and brings back no call.  *)
LEMMA OneDevice ==
    ASSUME CallInv, NEW d \in Devices, Moves(d), Counted
    PROVE  /\ CallInv'
           /\ \A e \in Devices :
                ~Busy(dev[e]) /\ Busy(dev'[e]) => dev'[e].phase \in {"dialing", "incoming"}
<1>1. PICK r : Becomes(d, r)
  BY DEF Moves
<1>2. /\ dev' \in [Devices -> Controller]
      /\ \A e \in Devices : dev'[e] = IF e = d THEN r ELSE dev[e]
  BY <1>1, Now DEF Becomes, Good
<1>3. \A e \in Devices : Good(dev'[e], used')
  <2>1. \A e \in Devices : Good(dev[e], used')
    BY Now, GoodLater DEF Counted
  <2> QED BY <1>1, <1>2, <2>1 DEF Becomes
<1>4. \A e \in Devices :
        ~Busy(dev[e]) /\ Busy(dev'[e]) => dev'[e].phase \in {"dialing", "incoming"}
  BY <1>1, <1>2 DEF Becomes
<1>5. TypeOK'
  BY <1>2, <1>3 DEF TypeOK, Moves, Counted, Good, Sound
<1>6. CallInv'
  BY <1>3, <1>5 DEF CallInv, Good
<1> QED BY <1>4, <1>6

(* What stays, stays counted; an event is counted once.                    *)
LEMMA Counts ==
    ASSUME CallInv, UNCHANGED counters \/ \E e \in Events : Happens(e)
    PROVE  Counted /\ used \subseteq used'
<1> QED BY DEF CallInv, TypeOK, Counted, counters, Happens

(* Does() with a controller that is sound.                                 *)
LEMMA DoesStep ==
    ASSUME CallInv, NEW d \in Devices, NEW r, Good(r, used'), NEW fs \in Seq(Frames),
           Busy(dev[d]) \/ ~Busy(r) \/ r.phase \in {"dialing", "incoming"},
           Does(d, r, fs)
    PROVE  Moves(d)
<1>1. net' \in Network
  BY Now, SentTyped DEF Does
<1> QED BY <1>1 DEF Does, Moves, Becomes

(* The same when a frame is taken from the socket.                         *)
LEMMA HandlesStep ==
    ASSUME CallInv, NEW d \in Devices, NEW f \in Frames, net.down[d] # <<>>,
           NEW r, Good(r, used'), NEW fs \in Seq(Frames),
           Busy(dev[d]) \/ ~Busy(r) \/ r.phase \in {"dialing", "incoming"},
           Handles(d, f, r, fs)
    PROVE  Moves(d)
<1> DEFINE m == [net EXCEPT !.down[d] = Tail(@)]
           ice == IF Matches(dev[d], f) THEN LocalIce(TRUE, dev[d]) ELSE <<>>
<1>1. m \in Network
  <2>1. net \in Network /\ net.down[d] \in Seq(Frames)
    BY Now DEF Network
  <2>2. Tail(net.down[d]) \in Seq(Frames)
    BY <2>1, HeadTailProperties
  <2>3. [net.down EXCEPT ![d] = Tail(net.down[d])] \in [Devices -> Seq(Frames)]
    BY <2>1, <2>2 DEF Network
  <2>4. [net EXCEPT !.down = [net.down EXCEPT ![d] = Tail(net.down[d])]] \in Network
    BY <2>1, <2>3 DEF Network
  <2>5. m = [net EXCEPT !.down = [net.down EXCEPT ![d] = Tail(net.down[d])]]
    OBVIOUS
  <2> QED BY <2>4, <2>5
<1>2. ice \in Seq(Frames)
  <2>1. LocalIce(TRUE, dev[d]) \in Seq(Frames)
    BY Now, FlushGood
  <2>2. <<>> \in Seq(Frames)
    BY EmptySeq
  <2> QED BY <2>1, <2>2
<1>3. ice \o fs \in Seq(Frames)
  BY <1>2, ConcatProperties
<1>4. net' = Sent(m, d, ice \o fs)
  BY DEF Handles
<1> HIDE DEF m, ice
<1>5. net' \in Network
  BY <1>1, <1>3, <1>4, SentTyped
<1> QED BY <1>5 DEF Handles, Moves, Becomes

-----------------------------------------------------------------------------
(* What the person does.                                                   *)

(* A call is placed from the terminal screen.                              *)
LEMMA PlaceStep ==
    ASSUME CallInv, NEW d \in Devices, Place(d)
    PROVE  Moves(d) /\ Counted
<1> DEFINE r == dev[d]
           b == Bump(r)
           q == [b EXCEPT !.phase = "dialing", !.wait = TRUE, !.mine = "none"]
           e == Starts(q, "open", 0)
           j == Job("open", 0)
<1>1. Good(r, used) /\ r \in Controller /\ ~Busy(r) /\ ~r.sess
  BY Now DEF Place, Good, Sound
<1>2. b \in Controller /\ (\A k \in b.jobs : k.late) /\ b = [r EXCEPT !.jobs = b.jobs]
  BY <1>1, BumpLate
<1>3. j \in JobSet /\ j.step = "open" /\ "dialing" \in Phases
  BY DEF Job, JobSet, Steps, Phases
<1>4. e = [q EXCEPT !.jobs = q.jobs \cup {j}]
  BY DEF Starts
<1>5. Does(d, e, <<>>)
  BY DEF Place
<1> HIDE DEF j, b
<1>6. q \in Controller /\ q.phase = "dialing" /\ q.jobs = b.jobs /\ q.sess = r.sess
      /\ q.orphan = r.orphan /\ q.pc = r.pc /\ q.deadline = r.deadline
  BY <1>1, <1>2, <1>3 DEF Controller
<1> HIDE DEF q, e
<1>7. e \in Controller /\ e.phase = "dialing" /\ e.jobs = b.jobs \cup {j} /\ e.sess = r.sess
      /\ e.orphan = r.orphan /\ e.pc = r.pc /\ e.deadline = r.deadline
  BY <1>3, <1>4, <1>6 DEF Controller
<1>8. Good(e, used)
  BY <1>1, <1>2, <1>3, <1>7
     DEF Good, Sound, JobsOfCall, OneOpening, Tapped, Late, Busy
<1>9. Counted /\ used' = used
  BY BoundsAssumption DEF Place, Counted, CallInv, TypeOK
<1>10. <<>> \in Seq(Frames)
  BY EmptySeq
<1> QED BY <1>5, <1>7, <1>8, <1>9, <1>10, DoesStep

(* accept(), once or again.                                                *)
LEMMA AcceptStep ==
    ASSUME CallInv, NEW d \in Devices, Accept(d)
    PROVE  Moves(d) /\ Counted
<1> DEFINE r == dev[d]
           b == Bump(r)
           q == [b EXCEPT !.wait = TRUE]
           e == Starts(q, "open", r.offer)
           j == Job("open", r.offer)
<1>1. Good(r, used) /\ r \in Controller /\ r.phase = "incoming" /\ r.offer # 0
  BY Now DEF Accept
<1>2. b \in Controller /\ (\A k \in b.jobs : k.late) /\ b = [r EXCEPT !.jobs = b.jobs]
  BY <1>1, BumpLate
<1>3. j \in JobSet /\ j.step = "open" /\ j.sdp # 0
  BY <1>1 DEF Job, JobSet, Steps, Controller
<1>4. e = [q EXCEPT !.jobs = q.jobs \cup {j}]
  BY DEF Starts
<1>5. Does(d, e, <<>>)
  BY DEF Accept
<1>6. Counted /\ (r.wait => "again" \in used')
  <2>1. UNCHANGED counters \/ \E v \in Events : Happens(v)
    BY DEF Accept, Events
  <2>2. r.wait => "again" \in used'
    BY DEF Accept, Happens
  <2> QED BY <2>1, <2>2, Counts
<1>7. Good(r, used')
  BY <1>1, <1>6, GoodLater DEF Counted
<1> HIDE DEF j, b
<1>8. q \in Controller /\ q.phase = "incoming" /\ q.jobs = b.jobs /\ q.sess = r.sess /\ q.wait
      /\ q.orphan = r.orphan /\ q.pc = r.pc /\ q.deadline = r.deadline
  BY <1>1, <1>2 DEF Controller
<1> HIDE DEF q, e
<1>9. e \in Controller /\ e.phase = "incoming" /\ e.jobs = b.jobs \cup {j} /\ e.sess = r.sess /\ e.wait
      /\ e.orphan = r.orphan /\ e.pc = r.pc /\ e.deadline = r.deadline
  BY <1>3, <1>4, <1>8 DEF Controller
<1>10. r.sess => "again" \in used'
  BY <1>1, <1>6 DEF Good, Sound, Tapped
<1>11. Good(e, used')
  BY <1>1, <1>2, <1>3, <1>7, <1>9, <1>10
     DEF Good, Sound, JobsOfCall, OneOpening, Tapped, Late, Busy
<1>12. <<>> \in Seq(Frames) /\ Busy(r)
  BY <1>1, EmptySeq DEF Busy
<1> QED BY <1>5, <1>6, <1>11, <1>12, DoesStep

(* A controller that finishes, whatever it was a moment before.            *)
LEMMA FinishStep ==
    ASSUME CallInv, NEW d \in Devices, used \subseteq used',
           NEW r \in Controller, r.orphan = dev[d].orphan,
           NEW fs \in Seq(Frames), Does(d, Finish(r), fs)
    PROVE  Moves(d)
<1>1. r.orphan = "none" \/ "again" \in used'
  BY Now DEF Good, Sound, Tapped
<1> QED BY <1>1, FinishGood, DoesStep

(* decline() and hangUp().                                                 *)
LEMMA EndsStep ==
    ASSUME CallInv, NEW d \in Devices, Decline(d) \/ HangUp(d)
    PROVE  Moves(d) /\ Counted
<1>1. Counted
  BY Counts DEF Decline, HangUp
<1>2. /\ <<Frame("reject", dev[d].call, 0)>> \in Seq(Frames)
      /\ Hangup(dev[d]) \in Seq(Frames) /\ dev[d] \in Controller
  <2>1. dev[d].call \in Nat /\ "reject" \in FrameTypes
    BY Now DEF Controller, CallIds, FrameTypes
  <2> QED BY <2>1, Now, FrameTyped, FramesTyped
<1> QED BY <1>1, <1>2, FinishStep DEF Decline, HangUp, Counted

-----------------------------------------------------------------------------
(* Continuations of media and SDP promises.                                *)

(* What holds of the controller when a promise settles.                    *)
LEMMA Settles ==
    ASSUME CallInv, NEW d \in Devices, NEW j \in dev[d].jobs
    PROVE  /\ Good(Taken(d, j), used) /\ Taken(d, j) \in Controller
           /\ Taken(d, j).orphan = dev[d].orphan /\ Taken(d, j).sess = dev[d].sess
           /\ Taken(d, j).phase = dev[d].phase
           /\ Taken(d, j).jobs = dev[d].jobs \ {j}
           /\ j \in JobSet /\ j.step \in Steps /\ j.sdp \in Nat
           /\ ~Late(j) => Busy(dev[d]) /\ (j.step = "open" \/ dev[d].sess)
<1>1. Good(dev[d], used) /\ dev[d] \in Controller
  BY Now
<1>2. /\ Good(Taken(d, j), used) /\ j \in JobSet
      /\ Agree(Taken(d, j), dev[d])
      /\ Taken(d, j) = [dev[d] EXCEPT !.jobs = dev[d].jobs \ {j}]
  BY <1>1, TakenGood
<1>3. Taken(d, j).jobs = dev[d].jobs \ {j}
  BY <1>1, <1>2 DEF Controller
<1>4. ~Late(j) => Busy(dev[d]) /\ (j.step = "open" \/ dev[d].sess)
  BY <1>1 DEF Good, Sound, JobsOfCall
<1> QED BY <1>2, <1>3, <1>4 DEF Agree, JobSet, Good

(* A late promise.                                                         *)
LEMMA ReturnsStep ==
    ASSUME CallInv, NEW d \in Devices, NEW j \in dev[d].jobs, Returns(d, j), used' = used
    PROVE  Moves(d)
<1>1. <<>> \in Seq(Frames)
  BY EmptySeq
<1> QED BY <1>1, Settles, DoesStep DEF Returns, Busy

(* The media is open: a session, and the step that follows.                *)
LEMMA OpenedStep ==
    ASSUME CallInv, NEW d \in Devices, NEW j \in dev[d].jobs, ~Late(j), Opened(d, j),
           used' = used
    PROVE  Moves(d)
<1> DEFINE r == Taken(d, j)
           q == [r EXCEPT !.sess = TRUE, !.pc = "new", !.local = 0,
                          !.remote = 0, !.offered = FALSE, !.wait = (j.sdp # 0),
                          !.orphan = IF r.sess THEN "live" ELSE @]
           s == IF j.sdp = 0 THEN "offer" ELSE "answer"
           e == Starts(q, s, j.sdp)
<1>1. /\ Good(r, used) /\ r \in Controller /\ Busy(r) /\ j.sdp \in Nat /\ j.step = "open"
      /\ r.jobs = dev[d].jobs \ {j} /\ r.sess = dev[d].sess /\ r.phase = dev[d].phase
  BY Settles DEF Opened, Busy
<1>2. s \in Steps \ {"open"}
  BY DEF Steps
<1>3. Does(d, e, <<>>)
  BY DEF Opened
<1>4. /\ \A k \in r.jobs : k.step = "open" => Late(k)
      /\ r.sess => "again" \in used
      /\ j.sdp = 0 => r.phase # "incoming"
  BY <1>1, Now DEF Good, Sound, OneOpening, Tapped
<1> HIDE DEF r
<1>5. /\ q.phase = r.phase /\ q.sess /\ q.pc = "new" /\ q.jobs = r.jobs /\ (q.wait <=> j.sdp # 0)
      /\ q.orphan = (IF r.sess THEN "live" ELSE r.orphan)
  BY <1>1 DEF Controller
<1>6. q \in Controller
  <2> DEFINE w == (j.sdp # 0)
             o == IF r.sess THEN "live" ELSE r.orphan
  <2>1. w \in BOOLEAN /\ o \in {"none", "live", "failed"}
    BY <1>1 DEF Controller
  <2> DEFINE p == [r EXCEPT !.sess = TRUE, !.pc = "new", !.local = 0, !.remote = 0,
                            !.offered = FALSE]
  <2>2. q = [p EXCEPT !.wait = w, !.orphan = o]
    BY <1>1 DEF Controller
  <2>3. p \in Controller
    BY <1>1 DEF Controller
  <2> HIDE DEF q, w, o, p
  <2> QED BY <2>1, <2>2, <2>3 DEF Controller
<1> HIDE DEF q, s
<1>7. Good(q, used)
  BY <1>1, <1>4, <1>5, <1>6 DEF Good, Sound, JobsOfCall, OneOpening, Tapped, Busy
<1>8. Good(e, used)
  BY <1>1, <1>2, <1>5, <1>7, StartsGood
<1>9. <<>> \in Seq(Frames) /\ Busy(dev[d])
  BY <1>1, EmptySeq DEF Busy
<1> HIDE DEF e
<1> QED BY <1>3, <1>8, <1>9, DoesStep

(* getUserMedia() is refused.                                              *)
LEMMA DeniedStep ==
    ASSUME CallInv, NEW d \in Devices, NEW j \in dev[d].jobs, ~Late(j), Denied(d, j)
    PROVE  Moves(d) /\ Counted
<1> DEFINE r == Taken(d, j)
<1>1. Counted
  BY Counts DEF Denied, Events
<1>2. r \in Controller /\ r.orphan = dev[d].orphan
  BY Settles
<1>3. <<Frame("reject", r.call, 0)>> \in Seq(Frames) /\ <<>> \in Seq(Frames)
  <2>1. r.call \in Nat /\ "reject" \in FrameTypes
    BY <1>2 DEF Controller, CallIds, FrameTypes
  <2> QED BY <2>1, FrameTyped, EmptySeq
<1>4. \E fs \in Seq(Frames) : Does(d, Finish(r), fs)
  BY <1>3 DEF Denied
<1> QED BY <1>1, <1>2, <1>4, FinishStep DEF Counted

(* A description of its own.                                               *)
LEMMA DescribesGood ==
    ASSUME NEW u, NEW r, Good(r, u), NEW isOffer \in BOOLEAN
    PROVE  /\ Good(Describes(r, isOffer), u) /\ Agree(Describes(r, isOffer), r)
           /\ Describes(r, isOffer) \in Controller
<1>1. r \in Controller
  BY DEF Good
<1>2. r.made + 1 \in Nat
  BY <1>1 DEF Controller
<1>3. Describes(r, isOffer) \in Controller /\ Agree(Describes(r, isOffer), r)
  BY <1>1, <1>2 DEF Describes, Controller, Agree
<1> QED BY <1>3, AgreeGood

(* offer() resolves: the call.offer is sent, or cannot be.                 *)
LEMMA OfferedStep ==
    ASSUME CallInv, NEW d \in Devices, NEW j \in dev[d].jobs, ~Late(j), Offered(d, j),
           used' = used
    PROVE  Moves(d)
<1> DEFINE t == Taken(d, j)
           r == Describes(t, TRUE)
<1>1. /\ Good(t, used) /\ t.orphan = dev[d].orphan /\ t.phase = dev[d].phase /\ Busy(dev[d])
  BY Settles
<1>2. Good(r, used) /\ Agree(r, t) /\ r \in Controller
  BY <1>1, DescribesGood
<1>3. <<>> \in Seq(Frames) /\ net \in Network
  BY EmptySeq, Now
<1>4. CASE ~CanSend(d)
  <2>1. Does(d, Finish(r), <<>>) /\ r.orphan = dev[d].orphan
    BY <1>1, <1>2, <1>4 DEF Offered, Agree
  <2> HIDE DEF r
  <2> QED BY <2>1, <1>2, <1>3, FinishStep
<1>5. CASE CanSend(d)
  <2>1. /\ dev' = [dev EXCEPT ![d] = r]
        /\ net' \in Offers(net, d, r.local) \/ net' = net
    BY <1>5 DEF Offered
  <2>2. r.local \in Nat
    BY <1>2 DEF Controller
  <2> HIDE DEF r
  <2>3. net' \in Network
    BY <2>1, <2>2, <1>3, OffersTyped
  <2> QED BY <2>1, <2>3, <1>1, <1>2 DEF Moves, Becomes
<1> QED BY <1>4, <1>5

(* answerTo() resolves: the call.answer is sent, or cannot be.             *)
LEMMA AnsweredStep ==
    ASSUME CallInv, NEW d \in Devices, NEW j \in dev[d].jobs, ~Late(j), Answered(d, j),
           used' = used
    PROVE  Moves(d)
<1> DEFINE t == Taken(d, j)
           b == Describes(t, FALSE)
           r == [b EXCEPT !.remote = j.sdp, !.pc = "checking", !.offer = 0]
           q == [r EXCEPT !.wait = FALSE, !.phase = "connecting"]
<1>1. /\ Good(t, used) /\ t.orphan = dev[d].orphan /\ t.sess = dev[d].sess /\ Busy(dev[d])
      /\ dev[d].sess /\ j.sdp \in Nat /\ t.phase = dev[d].phase
  BY Settles DEF Answered
<1>2. Good(b, used) /\ Agree(b, t) /\ b \in Controller
  BY <1>1, DescribesGood
<1>3. \/ ~CanSend(d) /\ Does(d, Finish(r), <<>>)
      \/ Does(d, FlushIce(q), <<Frame("answer", r.call, r.local)>>)
  BY DEF Answered
<1>4. "connecting" \in Phases
  BY DEF Phases
<1> HIDE DEF t, b
<1>5. r \in Controller /\ r.orphan = b.orphan /\ r.sess = b.sess /\ r.jobs = b.jobs /\ r.phase = b.phase
      /\ r.deadline = b.deadline
  BY <1>1, <1>2 DEF Controller
<1> HIDE DEF r
<1>6. q \in Controller /\ q.orphan = b.orphan /\ q.sess = b.sess /\ q.jobs = b.jobs /\ q.phase = "connecting"
      /\ q.deadline = b.deadline
  BY <1>4, <1>5 DEF Controller
<1> HIDE DEF q
<1>7. Good(q, used)
  BY <1>1, <1>2, <1>6 DEF Good, Sound, JobsOfCall, OneOpening, Tapped, Busy, Agree
<1>8. Good(FlushIce(q), used)
  BY <1>7, FlushGood
<1>9. /\ <<>> \in Seq(Frames)
      /\ <<Frame("answer", r.call, r.local)>> \in Seq(Frames)
  <2>1. r.call \in Nat /\ r.local \in Nat /\ "answer" \in FrameTypes
    BY <1>5 DEF Controller, CallIds, FrameTypes
  <2> QED BY <2>1, FrameTyped, EmptySeq
<1>10. CASE Does(d, Finish(r), <<>>)
  <2>1. r.orphan = dev[d].orphan
    BY <1>1, <1>2, <1>5 DEF Agree
  <2> QED BY <2>1, <1>5, <1>9, <1>10, FinishStep
<1>11. CASE Does(d, FlushIce(q), <<Frame("answer", r.call, r.local)>>)
  BY <1>1, <1>8, <1>9, <1>11, DoesStep
<1> QED BY <1>3, <1>10, <1>11

(* setRemoteDescription() of an answer.                                    *)
LEMMA AppliesGood ==
    ASSUME NEW u, NEW r, Good(r, u), r.sess, NEW j \in JobSet
    PROVE  /\ Good(Applies(r, j), u) /\ Applies(r, j).phase = r.phase
           /\ Applies(r, j) \in Controller
<1> DEFINE q == [r EXCEPT !.remote = j.sdp, !.offered = FALSE, !.pc = "checking"]
<1>1. r \in Controller /\ j.sdp \in Nat
  BY DEF Good, JobSet
<1>2. /\ q \in Controller /\ q.phase = r.phase /\ q.sess = r.sess /\ q.wait = r.wait
      /\ q.orphan = r.orphan /\ q.deadline = r.deadline /\ q.jobs = r.jobs
  BY <1>1 DEF Controller
<1>3. Applies(r, j) = FlushIce(q)
  BY DEF Applies
<1> HIDE DEF q
<1>4. Good(q, u)
  BY <1>2 DEF Good, Sound, JobsOfCall, OneOpening, Tapped, Busy
<1>5. Good(FlushIce(q), u) /\ Agree(FlushIce(q), q)
  BY <1>4, FlushGood
<1> QED BY <1>2, <1>3, <1>5 DEF Good, Agree

(* applyAnswer() resolves, or rejects and hangs up.                        *)
LEMMA AppliedStep ==
    ASSUME CallInv, NEW d \in Devices, NEW j \in dev[d].jobs, ~Late(j), Applied(d, j),
           used' = used
    PROVE  Moves(d)
<1> DEFINE r == Taken(d, j)
<1>1. /\ Good(r, used) /\ r.orphan = dev[d].orphan /\ r.sess /\ Busy(dev[d]) /\ j \in JobSet
      /\ r \in Controller
  BY Settles DEF Applied
<1>2. \/ Does(d, Applies(r, j), <<>>)
      \/ Does(d, Finish(r), Hangup(r))
  BY DEF Applied
<1> HIDE DEF r
<1>3. Hangup(r) \in Seq(Frames) /\ <<>> \in Seq(Frames) /\ Good(Applies(r, j), used)
  BY <1>1, FramesTyped, EmptySeq, AppliesGood
<1> QED BY <1>1, <1>2, <1>3, FinishStep, DoesStep

(* The answer of a restart is applied, or the recovery is retried.         *)
LEMMA RestartAppliedStep ==
    ASSUME CallInv, NEW d \in Devices, NEW j \in dev[d].jobs, ~Late(j), RestartApplied(d, j),
           used' = used
    PROVE  Moves(d)
<1> DEFINE r == Taken(d, j)
           q == [Applies(r, j) EXCEPT !.restart = 0]
           can == CanSend(d)
<1>1. Good(r, used) /\ r.sess /\ Busy(dev[d]) /\ j \in JobSet /\ r \in Controller
  BY Settles DEF RestartApplied
<1>2. \/ Does(d, q, <<>>)
      \/ Does(d, RetryRecovery(can, r), RetryFrames(can, r))
  BY DEF RestartApplied
<1>3. can \in BOOLEAN
  BY DEF CanSend
<1> HIDE DEF r, can
<1>4. Good(Applies(r, j), used) /\ Applies(r, j) \in Controller
  BY <1>1, AppliesGood
<1>5. q \in Controller /\ Agree(q, Applies(r, j))
  BY <1>4 DEF Controller, Agree
<1>6. Good(q, used)
  BY <1>4, <1>5, AgreeGood
<1>7. /\ Good(RetryRecovery(can, r), used)
      /\ RetryFrames(can, r) \in Seq(Frames) /\ <<>> \in Seq(Frames)
  BY <1>1, <1>3, FramesTyped, RetryGood, EmptySeq
<1> HIDE DEF q
<1> QED BY <1>1, <1>2, <1>6, <1>7, DoesStep

(* restartOffer() resolves.                                                *)
LEMMA RestartMadeStep ==
    ASSUME CallInv, NEW d \in Devices, NEW j \in dev[d].jobs, ~Late(j), RestartMade(d, j),
           used' = used
    PROVE  Moves(d)
<1> DEFINE t == Taken(d, j)
           r == Describes(t, TRUE)
           q == [r EXCEPT !.restart = r.local, !.inFlight = FALSE]
           fs == <<Frame("restart_offer", r.call, r.local)>>
<1>1. Good(t, used) /\ Busy(dev[d])
  BY Settles
<1>2. Good(r, used) /\ r \in Controller
  BY <1>1, DescribesGood
<1>3. Does(d, q, fs)
  BY DEF RestartMade
<1> HIDE DEF r
<1>4. q \in Controller /\ Agree(q, r)
  BY <1>2 DEF Controller, Agree
<1>5. Good(q, used)
  BY <1>2, <1>4, AgreeGood
<1>6. fs \in Seq(Frames)
  <2>1. r.call \in Nat /\ r.local \in Nat /\ "restart_offer" \in FrameTypes
    BY <1>2 DEF Controller, CallIds, FrameTypes
  <2> QED BY <2>1, FrameTyped
<1> HIDE DEF q, fs
<1> QED BY <1>1, <1>3, <1>5, <1>6, DoesStep

(* The callee has answered a restart.                                      *)
LEMMA RestartAnsweredStep ==
    ASSUME CallInv, NEW d \in Devices, NEW j \in dev[d].jobs, ~Late(j),
           RestartAnswered(d, j), used' = used
    PROVE  Moves(d)
<1> DEFINE t == Taken(d, j)
           b == Describes(t, FALSE)
           r == [b EXCEPT !.remote = j.sdp, !.pc = "checking"]
           fs == <<Frame("restart_answer", r.call, r.local)>>
<1>1. Good(t, used) /\ Busy(dev[d]) /\ t.sess /\ j.sdp \in Nat
  BY Settles DEF RestartAnswered
<1>2. Good(b, used) /\ b \in Controller /\ b.sess
  BY <1>1, DescribesGood DEF Agree
<1>3. Does(d, FlushIce(r), fs)
  BY DEF RestartAnswered
<1> HIDE DEF b
<1>4. /\ r \in Controller /\ r.phase = b.phase /\ r.sess = b.sess /\ r.wait = b.wait
      /\ r.orphan = b.orphan /\ r.deadline = b.deadline /\ r.jobs = b.jobs
  BY <1>1, <1>2 DEF Controller
<1>5. fs \in Seq(Frames)
  <2> HIDE DEF r
  <2>1. r.call \in Nat /\ r.local \in Nat /\ "restart_answer" \in FrameTypes
    BY <1>4 DEF Controller, CallIds, FrameTypes
  <2> QED BY <2>1, FrameTyped
<1> HIDE DEF r, fs
<1>6. Good(r, used)
  BY <1>2, <1>4 DEF Good, Sound, JobsOfCall, OneOpening, Tapped, Busy
<1>7. Good(FlushIce(r), used)
  BY <1>6, FlushGood
<1> QED BY <1>1, <1>3, <1>5, <1>7, DoesStep

(* Any promise that settles.                                               *)
LEMMA ContinuesStep ==
    ASSUME CallInv, NEW d \in Devices, Continues(d)
    PROVE  Moves(d) /\ Counted
<1>1. PICK j \in dev[d].jobs :
        \/ ~Late(j) /\ Denied(d, j)
        \/ /\ \/ Returns(d, j)
              \/ /\ ~Late(j)
                 /\ \/ Opened(d, j) \/ Offered(d, j) \/ Answered(d, j)
                    \/ Applied(d, j) \/ RestartApplied(d, j)
                    \/ RestartMade(d, j) \/ RestartAnswered(d, j)
           /\ UNCHANGED counters
  BY DEF Continues
<1>2. CASE ~Late(j) /\ Denied(d, j)
  BY <1>2, DeniedStep
<1>3. CASE ~(~Late(j) /\ Denied(d, j))
  <2>1. Counted /\ used' = used
    BY <1>1, <1>3, Counts DEF counters
  <2> QED BY <1>1, <1>3, <2>1, ReturnsStep, OpenedStep, OfferedStep, AnsweredStep,
             AppliedStep, RestartAppliedStep, RestartMadeStep, RestartAnsweredStep
<1> QED BY <1>2, <1>3

-----------------------------------------------------------------------------
(* Frames.                                                                 *)

(* The controller with which onFrame() starts.                             *)
LEMMA Starting ==
    ASSUME CallInv, NEW d \in Devices, NEW f \in Frames
    PROVE  /\ Good(At(d, f), used) /\ At(d, f) \in Controller
           /\ Agree(At(d, f), dev[d])
           /\ Matches(At(d, f), f) => Matches(dev[d], f)
           /\ Busy(At(d, f)) <=> Busy(dev[d])
<1>1. Good(dev[d], used)
  BY Now
<1>2. /\ Good(FlushLocal(TRUE, dev[d]), used) /\ Agree(FlushLocal(TRUE, dev[d]), dev[d])
      /\ FlushLocal(TRUE, dev[d]).call = dev[d].call
  BY <1>1, FlushGood
<1>3. Good(At(d, f), used) /\ Agree(At(d, f), dev[d]) /\ At(d, f).call = dev[d].call
  BY <1>1, <1>2 DEF At, Agree
<1> QED BY <1>3 DEF Good, Agree, Busy, Matches

(* A frame that changes a call that is on the screen, or nothing.          *)
LEMMA FrameStep ==
    ASSUME CallInv, NEW d \in Devices, NEW f \in Frames, net.down[d] # <<>>, used' = used,
           NEW r, Good(r, used), Busy(dev[d]) \/ ~Busy(r), Handles(d, f, r, <<>>)
    PROVE  Moves(d)
<1>1. <<>> \in Seq(Frames)
  BY EmptySeq
<1> QED BY <1>1, HandlesStep

(* call.ringing gives a dial its call_id.                                  *)
LEMMA OnRingingStep ==
    ASSUME CallInv, NEW d \in Devices, NEW f \in Frames, net.down[d] # <<>>, used' = used,
           OnRinging(d, f)
    PROVE  Moves(d)
<1> DEFINE r == At(d, f)
           s == [r EXCEPT !.phase = "ringing", !.call = f.call]
           l == FlushLocal(TRUE, s)
<1>1. Good(r, used) /\ r \in Controller /\ (Busy(r) <=> Busy(dev[d]))
  BY Starting
<1>2. CASE r.phase # "dialing"
  BY <1>1, <1>2, FrameStep DEF OnRinging
<1>3. CASE r.phase = "dialing"
  <2>1. Handles(d, f, FlushIce(l), LocalIce(TRUE, s))
    BY <1>3 DEF OnRinging
  <2>2. f.call \in CallIds /\ "ringing" \in Phases
    BY DEF Frames, Phases
  <2> HIDE DEF r
  <2>3. /\ s \in Controller /\ s.phase = "ringing" /\ s.sess = r.sess /\ s.wait = r.wait
        /\ s.orphan = r.orphan /\ s.deadline = r.deadline /\ s.jobs = r.jobs /\ s.pc = r.pc
    BY <1>1, <2>2 DEF Controller
  <2> HIDE DEF s
  <2>4. Good(s, used)
    BY <1>1, <1>3, <2>3 DEF Good, Sound, JobsOfCall, OneOpening, Tapped, Busy
  <2>5. Good(l, used) /\ LocalIce(TRUE, s) \in Seq(Frames)
    BY <2>4, FlushGood
  <2> HIDE DEF l
  <2>6. Good(FlushIce(l), used)
    BY <2>5, FlushGood
  <2>7. Busy(dev[d])
    BY <1>1, <1>3 DEF Busy
  <2> QED BY <2>1, <2>5, <2>6, <2>7, HandlesStep
<1> QED BY <1>2, <1>3

(* call.incoming on the terminal screen, or while busy.                    *)
LEMMA OnIncomingStep ==
    ASSUME CallInv, NEW d \in Devices, NEW f \in Frames, net.down[d] # <<>>, used' = used,
           OnIncoming(d, f)
    PROVE  Moves(d)
<1>1. CASE Busy(dev[d])
  <2>1. Handles(d, f, At(d, f), <<Frame("reject", f.call, 0)>>)
    BY <1>1 DEF OnIncoming
  <2>2. <<Frame("reject", f.call, 0)>> \in Seq(Frames)
    <3>1. f.call \in Nat /\ "reject" \in FrameTypes
      BY DEF Frames, CallIds, FrameTypes
    <3> QED BY <3>1, FrameTyped
  <2> QED BY <1>1, <2>1, <2>2, Starting, HandlesStep
<1>2. CASE ~Busy(dev[d])
  <2> DEFINE r == dev[d]
             b == Bump(r)
             q == [b EXCEPT !.phase = "incoming", !.call = f.call, !.out = FALSE,
                            !.offer = f.sdp, !.mine = "none", !.theirs = "none"]
  <2>1. Handles(d, f, q, <<>>)
    BY <1>2 DEF OnIncoming
  <2>2. Good(r, used) /\ r \in Controller /\ ~r.sess
    BY <1>2, Now DEF Good, Sound
  <2>3. b \in Controller /\ b = [r EXCEPT !.jobs = b.jobs]
    BY <2>2, BumpLate
  <2>4. b.orphan = r.orphan /\ b.pc = r.pc /\ b.deadline = r.deadline /\ b.sess = r.sess
    BY <2>2, <2>3 DEF Controller
  <2>5. f.call \in CallIds /\ f.sdp \in Nat /\ "incoming" \in Phases
    BY DEF Frames, Phases
  <2> HIDE DEF b
  <2>6. q \in Controller /\ q.phase = "incoming" /\ q.jobs = b.jobs /\ q.sess = b.sess
        /\ q.orphan = b.orphan /\ q.pc = b.pc /\ q.deadline = b.deadline
    BY <2>3, <2>5 DEF Controller
  <2> HIDE DEF q
  <2>7. Good(q, used)
    BY <2>2, <2>4, <2>6, Begins DEF b
  <2>8. <<>> \in Seq(Frames)
    BY EmptySeq
  <2> QED BY <2>1, <2>6, <2>7, <2>8, HandlesStep
<1> QED BY <1>1, <1>2

(* call.answer.                                                            *)
LEMMA OnAnswerStep ==
    ASSUME CallInv, NEW d \in Devices, NEW f \in Frames, net.down[d] # <<>>, used' = used,
           OnAnswer(d, f)
    PROVE  Moves(d)
<1> DEFINE r == At(d, f)
           q == [r EXCEPT !.phase = "connecting"]
           e == Starts(q, "apply", f.sdp)
<1>1. Good(r, used) /\ r \in Controller /\ (Busy(r) <=> Busy(dev[d]))
  BY Starting
<1>2. CASE ~(Matches(r, f) /\ r.out /\ r.sess)
  BY <1>1, <1>2, FrameStep DEF OnAnswer
<1>3. CASE Matches(r, f) /\ r.out /\ r.sess
  <2>1. Handles(d, f, e, <<>>)
    BY <1>3 DEF OnAnswer
  <2>2. "connecting" \in Phases /\ f.sdp \in Nat /\ "apply" \in Steps \ {"open"} /\ Busy(r)
    BY <1>3 DEF Frames, Phases, Steps, Matches
  <2>3. r.sess
    BY <1>3
  <2> HIDE DEF r
  <2>4. /\ q \in Controller /\ q.phase = "connecting" /\ q.sess = r.sess /\ q.wait = r.wait
        /\ q.orphan = r.orphan /\ q.deadline = r.deadline /\ q.jobs = r.jobs /\ q.pc = r.pc
    BY <1>1, <2>2 DEF Controller
  <2> HIDE DEF q
  <2>5. Good(q, used)
    BY <1>1, <2>2, <2>3, <2>4 DEF Good, Sound, JobsOfCall, OneOpening, Tapped, Busy
  <2>6. Good(e, used)
    BY <2>2, <2>3, <2>4, <2>5, StartsGood
  <2> HIDE DEF e
  <2> QED BY <1>1, <2>1, <2>2, <2>6, FrameStep
<1> QED BY <1>2, <1>3

(* call.ice.                                                               *)
LEMMA OnIceStep ==
    ASSUME CallInv, NEW d \in Devices, NEW f \in Frames, net.down[d] # <<>>, used' = used,
           OnIce(d, f)
    PROVE  Moves(d)
<1> DEFINE r == At(d, f)
           q == [r EXCEPT !.theirs = IF r.sess THEN "added" ELSE "queued"]
<1>1. Good(r, used) /\ r \in Controller /\ (Busy(r) <=> Busy(dev[d]))
  BY Starting
<1>2. Handles(d, f, r, <<>>) \/ Handles(d, f, q, <<>>)
  BY DEF OnIce
<1> HIDE DEF r
<1>3. q \in Controller /\ Agree(q, r)
  BY <1>1 DEF Controller, Agree
<1>4. Good(q, used)
  BY <1>1, <1>3, AgreeGood
<1>5. Busy(dev[d]) \/ ~Busy(q)
  BY <1>1, <1>3 DEF Agree, Busy
<1> HIDE DEF q
<1> QED BY <1>1, <1>2, <1>4, <1>5, FrameStep

(* call.restart_request, call.restart_offer and call.restart_answer.       *)
LEMMA OnRestartStep ==
    ASSUME CallInv, NEW d \in Devices, NEW f \in Frames, net.down[d] # <<>>, used' = used,
           OnRestartRequest(d, f) \/ OnRestartOffer(d, f) \/ OnRestartAnswer(d, f)
    PROVE  Moves(d)
<1> DEFINE r == At(d, f)
           b == BeginRecovery(r, FALSE)
<1>1. Good(r, used) /\ r \in Controller /\ (Busy(r) <=> Busy(dev[d]))
  BY Starting
<1>2. f.sdp \in Nat /\ {"answerRestart", "applyRestart"} \subseteq Steps \ {"open"}
  BY DEF Frames, Steps
<1>3. \/ Handles(d, f, r, <<>>)
      \/ Handles(d, f, BeginRecovery(r, TRUE), RecoveryFrames(r)) /\ Matches(r, f)
      \/ Handles(d, f, Starts(b, "answerRestart", f.sdp), <<>>) /\ Matches(r, f) /\ r.sess
      \/ Handles(d, f, Starts(r, "applyRestart", f.sdp), <<>>) /\ Matches(r, f) /\ r.sess
  BY DEF OnRestartRequest, OnRestartOffer, OnRestartAnswer
<1>4. CASE Handles(d, f, r, <<>>)
  BY <1>1, <1>4, FrameStep
<1>5. CASE Handles(d, f, BeginRecovery(r, TRUE), RecoveryFrames(r)) /\ Matches(r, f)
  <2>1. Good(BeginRecovery(r, TRUE), used) /\ RecoveryFrames(r) \in Seq(Frames)
    BY <1>1, RecoveryGood, FramesTyped
  <2>2. Busy(dev[d])
    BY <1>1, <1>5 DEF Matches
  <2> HIDE DEF r
  <2> QED BY <1>5, <2>1, <2>2, HandlesStep
<1>6. CASE Handles(d, f, Starts(b, "answerRestart", f.sdp), <<>>) /\ Matches(r, f) /\ r.sess
  <2>1. Good(b, used) /\ b.sess
    BY <1>1, <1>6, RecoveryGood
  <2>2. Busy(dev[d])
    BY <1>1, <1>6 DEF Matches
  <2> HIDE DEF r, b
  <2>3. Good(Starts(b, "answerRestart", f.sdp), used)
    BY <1>2, <2>1, StartsGood
  <2> QED BY <1>6, <2>2, <2>3, FrameStep
<1>7. CASE Handles(d, f, Starts(r, "applyRestart", f.sdp), <<>>) /\ Matches(r, f) /\ r.sess
  <2>1. Busy(dev[d]) /\ r.sess
    BY <1>1, <1>7 DEF Matches
  <2> HIDE DEF r
  <2>2. Good(Starts(r, "applyRestart", f.sdp), used)
    BY <1>1, <1>2, <2>1, StartsGood
  <2> QED BY <1>7, <2>1, <2>2, FrameStep
<1> QED BY <1>3, <1>4, <1>5, <1>6, <1>7

(* A frame that ends the call.                                             *)
LEMMA OnEndStep ==
    ASSUME CallInv, NEW d \in Devices, NEW f \in Frames, net.down[d] # <<>>, used' = used,
           OnEnd(d, f) \/ OnError(d, f)
    PROVE  Moves(d)
<1>1. Good(dev[d], used) /\ dev[d] \in Controller
  BY Now
<1>2. Good(Finish(dev[d]), used) /\ ~Busy(Finish(dev[d]))
  BY <1>1, FinishGood DEF Good, Sound, Tapped
<1>3. Handles(d, f, Finish(dev[d]), <<>>) \/ Handles(d, f, dev[d], <<>>)
  BY DEF OnEnd, OnError
<1> QED BY <1>1, <1>2, <1>3, FrameStep

(* Any frame.                                                              *)
LEMMA OnFrameStep ==
    ASSUME CallInv, NEW d \in Devices, OnFrame(d)
    PROVE  Moves(d) /\ Counted
<1> DEFINE f == Head(net.down[d])
<1>1. f \in Frames /\ net.down[d] # <<>>
  <2>1. net.down[d] \in Seq(Frames) /\ net.down[d] # <<>>
    BY Now DEF Network, OnFrame
  <2> QED BY <2>1, HeadTailProperties
<1>2. Counted /\ used' = used
  BY Counts DEF OnFrame, counters
<1>3. \/ OnRinging(d, f) \/ OnIncoming(d, f) \/ OnAnswer(d, f) \/ OnIce(d, f)
      \/ OnRestartRequest(d, f) \/ OnRestartOffer(d, f) \/ OnRestartAnswer(d, f)
      \/ OnEnd(d, f) \/ OnError(d, f)
  BY DEF OnFrame
<1> HIDE DEF f
<1> QED BY <1>1, <1>2, <1>3, OnRingingStep, OnIncomingStep, OnAnswerStep, OnIceStep,
           OnRestartStep, OnEndStep

-----------------------------------------------------------------------------
(* Sockets, timers and the peer connection.                                *)

(* onSignalState("closed").                                                *)
LEMMA SocketLostStep ==
    ASSUME CallInv, NEW d \in Devices, SocketLost(d)
    PROVE  Moves(d) /\ Counted
<1>1. Counted /\ used' = used
  BY Counts DEF SocketLost, counters
<1>2. Good(dev[d], used) /\ net \in Network
  BY Now
<1>3. Good(Finish(dev[d]), used) /\ ~Busy(Finish(dev[d]))
  BY <1>2, FinishGood DEF Good, Sound, Tapped
<1>4. net' \in Network
  <2>1. [net.sock EXCEPT ![d] = "down"] \in [Devices -> {"open", "dead", "down"}]
    BY <1>2 DEF Network
  <2>2. net' = [net EXCEPT !.sock = [net.sock EXCEPT ![d] = "down"]]
    BY DEF SocketLost
  <2> QED BY <1>2, <2>1, <2>2 DEF Network
<1>5. dev' = [dev EXCEPT ![d] = Finish(dev[d])] \/ dev' = [dev EXCEPT ![d] = dev[d]]
  BY DEF SocketLost
<1> QED BY <1>1, <1>2, <1>3, <1>4, <1>5 DEF Moves, Becomes

(* onSignalState("open") resumes the call and retries its recovery.        *)
LEMMA SocketOpensStep ==
    ASSUME CallInv, NEW d \in Devices, SocketOpens(d)
    PROVE  Moves(d) /\ Counted
<1> DEFINE r == dev[d]
           q == IF Busy(r) THEN FlushLocal(TRUE, r) ELSE r
           m == [net EXCEPT !.sock[d] = "open"]
           fs == Resume(r) \o RetryFrames(TRUE, q)
<1>1. Counted /\ used' = used
  BY Counts DEF SocketOpens, counters
<1>2. Good(r, used) /\ net \in Network /\ r \in Controller
  BY Now
<1>3. dev' = [dev EXCEPT ![d] = RetryRecovery(TRUE, q)] /\ net' = Sent(m, d, fs)
  BY DEF SocketOpens
<1>4. Good(FlushLocal(TRUE, r), used) /\ Agree(FlushLocal(TRUE, r), r)
  BY <1>2, FlushGood
<1>5. Resume(r) \in Seq(Frames)
  BY <1>2, FramesTyped
<1>6. Good(q, used) /\ q.phase = r.phase
  BY <1>2, <1>4 DEF Agree
<1>7. m \in Network
  <2>1. [net.sock EXCEPT ![d] = "open"] \in [Devices -> {"open", "dead", "down"}]
    BY <1>2 DEF Network
  <2>2. m = [net EXCEPT !.sock = [net.sock EXCEPT ![d] = "open"]]
    OBVIOUS
  <2> QED BY <1>2, <2>1, <2>2 DEF Network
<1> HIDE DEF q, m
<1>8. RetryFrames(TRUE, q) \in Seq(Frames)
  BY <1>6, FramesTyped DEF Good
<1>9. fs \in Seq(Frames)
  BY <1>5, <1>8, ConcatProperties
<1> HIDE DEF fs
<1>10. net' \in Network
  BY <1>3, <1>7, <1>9, SentTyped
<1>11. Good(RetryRecovery(TRUE, q), used) /\ RetryRecovery(TRUE, q).phase = r.phase
  BY <1>6, RetryGood
<1> QED BY <1>1, <1>3, <1>10, <1>11 DEF Moves, Becomes, Busy

(* The timers of the recovery.                                             *)
LEMMA TimerStep ==
    ASSUME CallInv, NEW d \in Devices, RetryTimer(d) \/ Deadline(d)
    PROVE  Moves(d) /\ Counted
<1>1. Counted /\ dev[d] \in Controller /\ Good(dev[d], used')
  <2>1. Counted
    BY Counts DEF RetryTimer, Deadline, Events
  <2> QED BY <2>1, Now, GoodLater DEF Counted
<1>2. CASE RetryTimer(d)
  <2> DEFINE r == [dev[d] EXCEPT !.retry = FALSE]
             can == CanSend(d)
  <2>1. r \in Controller /\ Agree(r, dev[d])
    BY <1>1 DEF Controller, Agree
  <2>2. Does(d, RetryRecovery(can, r), RetryFrames(can, r)) /\ can \in BOOLEAN
    BY <1>2 DEF RetryTimer, CanSend
  <2> HIDE DEF r, can
  <2>3. Good(r, used')
    BY <1>1, <2>1, AgreeGood
  <2>4. /\ Good(RetryRecovery(can, r), used') /\ RetryFrames(can, r) \in Seq(Frames)
        /\ RetryRecovery(can, r).phase = r.phase
    BY <2>1, <2>2, <2>3, RetryGood, FramesTyped
  <2>5. Busy(dev[d]) \/ ~Busy(RetryRecovery(can, r))
    BY <2>1, <2>4 DEF Agree, Busy
  <2> QED BY <1>1, <2>2, <2>4, <2>5, DoesStep
<1>3. CASE Deadline(d)
  <2> DEFINE r == [dev[d] EXCEPT !.deadline = FALSE]
  <2>1. r \in Controller /\ Agree(r, dev[d])
    BY <1>1 DEF Controller, Agree
  <2>2. Does(d, Finish(r), Hangup(r)) \/ Does(d, r, <<>>)
    BY <1>3 DEF Deadline
  <2> HIDE DEF r
  <2>3. Good(r, used')
    BY <1>1, <2>1, AgreeGood
  <2>4. Hangup(r) \in Seq(Frames) /\ <<>> \in Seq(Frames)
    BY <2>1, <2>3, FramesTyped, EmptySeq
  <2>5. Busy(dev[d]) \/ ~Busy(r)
    BY <2>1 DEF Agree, Busy
  <2>6. CASE Does(d, Finish(r), Hangup(r))
    BY <1>1, <2>1, <2>4, <2>6, FinishStep DEF Counted, Agree
  <2>7. CASE Does(d, r, <<>>)
    BY <1>1, <2>3, <2>4, <2>5, <2>7, DoesStep
  <2> QED BY <1>1, <2>2, <2>6, <2>7
<1> QED BY <1>2, <1>3

(* A local candidate is found.                                             *)
LEMMA GatherStep ==
    ASSUME CallInv, NEW d \in Devices, Gather(d)
    PROVE  Moves(d) /\ Counted
<1> DEFINE q == [dev[d] EXCEPT !.mine = "held"]
           can == CanSend(d)
<1>1. Counted /\ dev[d] \in Controller /\ Good(dev[d], used')
  <2>1. Counted
    BY Counts DEF Gather, Events
  <2> QED BY <2>1, Now, GoodLater DEF Counted
<1>2. q \in Controller /\ Agree(q, dev[d])
  BY <1>1 DEF Controller, Agree
<1>3. Does(d, FlushLocal(can, q), LocalIce(can, q)) /\ can \in BOOLEAN
  BY DEF Gather, CanSend
<1> HIDE DEF q, can
<1>4. Good(q, used')
  BY <1>1, <1>2, AgreeGood
<1>5. /\ Good(FlushLocal(can, q), used') /\ Agree(FlushLocal(can, q), q)
      /\ LocalIce(can, q) \in Seq(Frames)
  BY <1>3, <1>4, FlushGood
<1>6. Busy(dev[d]) \/ ~Busy(FlushLocal(can, q))
  BY <1>2, <1>5 DEF Agree, Busy
<1> QED BY <1>1, <1>3, <1>5, <1>6, DoesStep

(* onConnectionState(), and a forgotten session that fails.                *)
LEMMA MediaStep ==
    ASSUME CallInv, NEW d \in Devices, Media(d) \/ OrphanFails(d)
    PROVE  Moves(d) /\ Counted
<1>1. Counted /\ dev[d] \in Controller /\ Good(dev[d], used') /\ Good(dev[d], used)
  <2>1. Counted
    BY Counts DEF Media, PathUp, PathFails, PathLost, OrphanFails, Events
  <2> QED BY <2>1, Now, GoodLater DEF Counted
<1>2. Hangup(dev[d]) \in Seq(Frames) /\ <<>> \in Seq(Frames)
  BY <1>1, FramesTyped, EmptySeq
<1>3. CASE PathUp(d)
  <2> DEFINE c == ClearRecovery(dev[d])
             q == [c EXCEPT !.pc = "up", !.phase = "active", !.ever = TRUE]
  <2>1. Does(d, q, <<>>) /\ Busy(dev[d]) /\ dev[d].sess
    BY <1>3 DEF PathUp, Matched
  <2>2. c \in Controller /\ Agree(c, dev[d])
    BY <1>1 DEF ClearRecovery, Controller, Agree
  <2> HIDE DEF c
  <2>3. /\ q \in Controller /\ q.phase = "active" /\ q.sess = c.sess /\ q.jobs = c.jobs
        /\ q.orphan = c.orphan
    BY <2>2 DEF Controller, Phases
  <2> HIDE DEF q
  <2>4. Good(q, used')
    BY <1>1, <2>1, <2>2, <2>3
       DEF Good, Sound, JobsOfCall, OneOpening, Tapped, Busy, Agree
  <2> QED BY <1>1, <1>2, <2>1, <2>4, DoesStep
<1>4. CASE PathFails(d)
  BY <1>1, <1>2, <1>4, FinishStep DEF PathFails, Counted
<1>5. CASE PathLost(d)
  <2> DEFINE r == [dev[d] EXCEPT !.pc = "lost"]
             q == BeginRecovery(r, TRUE)
  <2>1. Does(d, q, RecoveryFrames(r)) /\ dev[d].pc # "new"
    BY <1>5 DEF PathLost
  <2>2. /\ r \in Controller /\ r.phase = dev[d].phase /\ r.sess = dev[d].sess
        /\ r.jobs = dev[d].jobs /\ r.orphan = dev[d].orphan /\ r.wait = dev[d].wait
    BY <1>1 DEF Controller
  <2> HIDE DEF r
  <2>3. dev[d].sess /\ Busy(dev[d])
    BY <1>1, <2>1 DEF Good, Sound
  <2>4. Good(r, used')
    BY <1>1, <2>2, <2>3
       DEF Good, Sound, JobsOfCall, OneOpening, Tapped, Busy
  <2>5. Good(q, used') /\ RecoveryFrames(r) \in Seq(Frames)
    BY <2>2, <2>4, RecoveryGood, FramesTyped
  <2> HIDE DEF q
  <2> QED BY <1>1, <2>1, <2>3, <2>5, DoesStep
<1>6. CASE OrphanFails(d)
  <2> DEFINE r == [dev[d] EXCEPT !.orphan = "failed"]
  <2>1. /\ Does(d, Finish(r), Hangup(r)) \/ Does(d, r, <<>>)
        /\ dev[d].orphan # "none"
    BY <1>6 DEF OrphanFails
  <2>2. /\ r \in Controller /\ r.orphan = "failed"
        /\ r.phase = dev[d].phase /\ r.sess = dev[d].sess /\ r.jobs = dev[d].jobs
        /\ r.wait = dev[d].wait /\ r.pc = dev[d].pc /\ r.deadline = dev[d].deadline
    BY <1>1 DEF Controller
  <2> HIDE DEF r
  <2>3. Good(r, used')
    BY <1>1, <2>1, <2>2
       DEF Good, Sound, JobsOfCall, OneOpening, Tapped, Busy
  <2>6. Busy(dev[d]) \/ ~Busy(r)
    BY <2>2 DEF Busy
  <2>4. Hangup(r) \in Seq(Frames)
    BY <2>2, <2>3, FramesTyped
  <2>5. Good(Finish(r), used') /\ ~Busy(Finish(r))
    BY <2>2, <2>3, FinishGood DEF Good, Sound, Tapped
  <2> QED BY <1>1, <1>2, <2>1, <2>3, <2>4, <2>5, <2>6, DoesStep
<1> QED BY <1>1, <1>3, <1>4, <1>5, <1>6 DEF Media

-----------------------------------------------------------------------------
(* The network, and the theorems.                                          *)

(* A silent socket, and the timers of the server, change no controller.    *)
LEMMA NetworkStep ==
    ASSUME CallInv, (\E d \in Devices : SocketDies(d)) \/ RingTimeout \/ GraceExpires
    PROVE  CallInv' /\ dev' = dev
<1>1. Counted
  BY Counts DEF SocketDies, RingTimeout, GraceExpires, Events
<1>2. net \in Network /\ dev' = dev /\ \A d \in Devices : Good(dev[d], used')
  BY <1>1, Now, GoodLater DEF SocketDies, RingTimeout, GraceExpires, CallInv, TypeOK, Counted
<1>3. ASSUME NEW f \in Frames, NEW d \in Devices
      PROVE  Push(Push(Over(net), d, f), Other(d), f) \in Network
  <2>1. Over(net) \in Network /\ Other(d) \in Devices
    BY <1>2, OverTyped, OtherDevice
  <2>2. Push(Over(net), d, f) \in Network
    BY <2>1, PushTyped
  <2> QED BY <2>1, <2>2, PushTyped
<1>4. /\ Frame("timeout", net.id, 0) \in Frames /\ Frame("hangup", net.id, 0) \in Frames
      /\ net.from \in Devices /\ net.grace \subseteq Devices
  <2>1. net.id \in Nat /\ {"timeout", "hangup"} \subseteq FrameTypes
    BY <1>2 DEF Network, CallIds, FrameTypes
  <2> QED BY <1>2, <2>1, FrameTyped DEF Network
<1>5. net' \in Network
  <2>1. CASE RingTimeout
    BY <1>3, <1>4, <2>1 DEF RingTimeout
  <2>2. CASE GraceExpires
    BY <1>3, <1>4, <2>2 DEF GraceExpires
  <2>3. ASSUME NEW d \in Devices, SocketDies(d) PROVE net' \in Network
    <3> DEFINE g == IF net.line = "over" THEN net.grace ELSE net.grace \cup {d}
               s == [net.sock EXCEPT ![d] = "dead"]
               w == [net.down EXCEPT ![d] = <<>>]
    <3>1. s \in [Devices -> {"open", "dead", "down"}] /\ g \in SUBSET Devices
      BY <1>2 DEF Network
    <3>2. w \in [Devices -> Seq(Frames)]
      <4>1. <<>> \in Seq(Frames)
        BY EmptySeq
      <4> QED BY <1>2, <4>1 DEF Network
    <3>3. net' = [net EXCEPT !.sock = s, !.down = w, !.grace = g]
      BY <2>3 DEF SocketDies
    <3> HIDE DEF s, w, g
    <3> QED BY <1>2, <3>1, <3>2, <3>3 DEF Network
  <2> QED BY <2>1, <2>2, <2>3
<1>6. CallInv'
  BY <1>1, <1>2, <1>5 DEF CallInv, TypeOK, Good, Sound, Counted
<1> QED BY <1>2, <1>6

(* No step of a device, nor of the server, brings back a call that ended.  *)
NoneBack == \A d \in Devices :
    ~Busy(dev[d]) /\ Busy(dev'[d]) => dev'[d].phase \in {"dialing", "incoming"}

(* At first there is no call.                                              *)
LEMMA InitCall == Init => CallInv
<1> SUFFICES ASSUME Init PROVE CallInv
  OBVIOUS
<1>1. Idle \in Controller
  BY DEF Idle, Controller, Phases, CallIds, JobSet
<1>2. Sound(Idle, used)
  BY DEF Idle, Sound, JobsOfCall, OneOpening, Tapped, Busy
<1>3. net \in Network
  <2> DEFINE S == [d \in Devices |-> "open"]
             D == [d \in Devices |-> <<>>]
  <2>1. <<>> \in Seq(Frames)
    BY EmptySeq
  <2>2. S \in [Devices -> {"open", "dead", "down"}] /\ D \in [Devices -> Seq(Frames)]
    BY <2>1
  <2>3. net \in [id : {0}, line : {"over"}, from : Devices, grace : {{}},
                sock : {S}, down : {D}]
    BY DEF Init
  <2> HIDE DEF S, D
  <2> QED BY <2>2, <2>3 DEF Network, CallIds
<1>4. dev = [d \in Devices |-> Idle] /\ placed = 0 /\ used = {}
  BY DEF Init
<1> HIDE DEF Idle
<1>5. dev \in [Devices -> Controller] /\ \A d \in Devices : Sound(dev[d], used)
  BY <1>1, <1>2, <1>4
<1> QED BY <1>3, <1>4, <1>5, BoundsAssumption DEF CallInv, TypeOK, Sound

(* A step, or a stutter.                                                   *)
LEMMA CallStep == CallInv /\ [Next]_vars => CallInv' /\ NoneBack
<1> SUFFICES ASSUME CallInv, [Next]_vars PROVE CallInv' /\ NoneBack
  OBVIOUS
<1>1. CASE \E d \in Devices :
          \/ Person(d) \/ Continues(d) \/ OnFrame(d) \/ Signals(d)
          \/ RetryTimer(d) \/ Deadline(d) \/ Gather(d) \/ Media(d) \/ OrphanFails(d)
  <2>1. PICK d \in Devices :
          \/ Person(d) \/ Continues(d) \/ OnFrame(d) \/ Signals(d)
          \/ RetryTimer(d) \/ Deadline(d) \/ Gather(d) \/ Media(d) \/ OrphanFails(d)
    BY <1>1
  <2>2. Moves(d) /\ Counted
    BY <2>1, PlaceStep, AcceptStep, EndsStep, ContinuesStep, OnFrameStep, SocketLostStep,
       SocketOpensStep, TimerStep, GatherStep, MediaStep DEF Person, Signals
  <2> QED BY <2>2, OneDevice DEF NoneBack
<1>2. CASE (\E d \in Devices : SocketDies(d)) \/ RingTimeout \/ GraceExpires
  BY <1>2, NetworkStep DEF NoneBack
<1>3. CASE UNCHANGED vars
  BY <1>3 DEF vars, counters, CallInv, TypeOK, Sound, JobsOfCall, OneOpening, Tapped,
              Busy, Late, NoneBack
<1> QED BY <1>1, <1>2, <1>3 DEF Next

(* CallInv, which relates the promises under way to the call on the screen *)
(* and to its session, holds in every reachable state.                     *)
THEOREM CallInvariant == Spec => []CallInv
<1> QED BY InitCall, CallStep, PTL DEF Spec

(* The types, and that a peer connection has a state and timers only while *)
(* there is one.                                                           *)
THEOREM TypeCorrect == Spec => []TypeOK
<1>1. CallInv => TypeOK
  BY DEF CallInv
<1> QED BY <1>1, CallInvariant, PTL

(* No microphone stays open beside the call on the screen, but for a second *)
(* tap on accept while the first makes its answer (call_model.ts:346).      *)
THEOREM MicrophoneReleased == Spec => []MediaReleased
<1>1. CallInv => MediaReleased
  BY DEF CallInv, MediaReleased, Sound, Tapped
<1> QED BY <1>1, CallInvariant, PTL

(* Only a new call leaves the terminal screen: a late answer, path report,  *)
(* timer or promise never does.                                             *)
THEOREM NotBroughtBack == Spec => NoResurrection
<1>1. NoneBack => [\A d \in Devices :
         ~Busy(dev[d]) /\ Busy(dev'[d]) => dev'[d].phase \in {"dialing", "incoming"}]_vars
  BY DEF NoneBack
<1> QED BY <1>1, InitCall, CallStep, PTL DEF Spec, NoResurrection

-----------------------------------------------------------------------------
(* What the two have said to each other.                                    *)

Truths(r) == {f \in Frames : Truthful(f, r)}

(* q is r at a later moment: it has described itself anew, or is in the same *)
(* role as before.                                                          *)
Follows(r, q) ==
    /\ r.made <= q.made
    /\ \/ q.local = 0 \/ q.local > r.made
       \/ q.local = r.local /\ q.out = r.out /\ (~r.out => q.call = r.call)

(* A controller that is in its role and has what p has said.                *)
Fits(r, p) == r \in Controller /\ InRole(r) /\ Holds(r, p)

(* From r to q, while the other controller is p.                            *)
Keeps(r, q, p) ==
    /\ Fits(q, p) /\ Follows(r, q)
    /\ q.phase = "active" => r.phase = "active" /\ q.call = r.call

(* What was said stays true.                                                *)
LEMMA SaidStays ==
    ASSUME NEW r \in Controller, NEW q \in Controller, Follows(r, q), NEW c, NEW x \in Nat
    PROVE  /\ AnswerOf(r, c, x) => AnswerOf(q, c, x)
           /\ OfferOf(r, x) => OfferOf(q, x)
<1> QED BY DEF Follows, AnswerOf, OfferOf, Controller

(* So a frame under way stays truthful.                                     *)
LEMMA TruthsStay ==
    ASSUME NEW r \in Controller, NEW q \in Controller, Follows(r, q)
    PROVE  Truths(r) \subseteq Truths(q)
<1> SUFFICES ASSUME NEW f \in Truths(r) PROVE f \in Truths(q)
  OBVIOUS
<1>1. f \in Frames /\ f.sdp \in Nat /\ Truthful(f, r)
  BY DEF Truths, Frames
<1> QED BY <1>1, SaidStays DEF Truths, Truthful

(* And what the other one has of it stays right.                            *)
LEMMA HoldsStays ==
    ASSUME NEW r \in Controller, NEW q \in Controller, Follows(r, q), NEW o \in Controller,
           Holds(o, r)
    PROVE  Holds(o, q)
<1>1. o.offer \in Nat /\ o.remote \in Nat /\ \A j \in o.jobs : j.sdp \in Nat
  BY DEF Controller, JobSet
<1> QED BY <1>1, SaidStays DEF Holds

(* One moment after the other.                                              *)
LEMMA KeepsOn ==
    ASSUME NEW r \in Controller, NEW s, NEW q, NEW p, Keeps(r, s, p), Keeps(s, q, p)
    PROVE  Keeps(r, q, p)
<1> QED BY DEF Keeps, Follows, Fits, Controller

(* Who changes nothing of this, but for the phase of a call that connects,   *)
(* and for what is forgotten.                                               *)
Copy(q, r) ==
    /\ q.call = r.call /\ q.out = r.out /\ q.sess = r.sess
    /\ q.local = r.local /\ q.remote = r.remote /\ q.made = r.made
    /\ q.offer \in {0, r.offer} /\ q.restart \in {0, r.restart}
    /\ q.jobs \subseteq r.jobs
    /\ q.phase = r.phase \/ q.phase \in {"connecting", "reconnecting"}

(* Then all of it is kept.                                                  *)
LEMMA CopyKeeps ==
    ASSUME NEW r, NEW p, Fits(r, p), NEW q \in Controller, Copy(q, r)
    PROVE  Keeps(r, q, p)
<1>1. InRole(q)
  <2>1. \A j \in q.jobs : Late(j) \/
          /\ j.step \in Answering => q.phase # "dialing"
          /\ q.out <=> j.step \notin Offering /\ (j.step = "open" => j.sdp = 0)
    BY DEF Fits, InRole, Copy
  <2>2. /\ q.phase \in {"idle", "dialing", "ringing"} => q.out
        /\ q.phase \in {"idle", "dialing"} => q.call = 0 /\ q.remote = 0
        /\ q.phase = "incoming" \/ q.offer # 0 => ~q.out
        /\ q.restart # 0 => q.out /\ q.phase # "idle"
    BY DEF Fits, InRole, Copy
  <2>3. {q.local, q.restart} \subseteq 0 .. q.made
    BY DEF Fits, InRole, Copy, Controller
  <2>4. /\ q.local # 0 \/ q.remote # 0 => q.sess
        /\ ~q.out => (q.local = 0 <=> q.remote = 0)
    BY DEF Fits, InRole, Copy
  <2> QED BY <2>1, <2>2, <2>3, <2>4 DEF InRole
<1>2. Holds(q, p)
  BY DEF Fits, Holds, Copy
<1>3. Follows(r, q)
  BY DEF Fits, Follows, Copy, Controller
<1> QED BY <1>1, <1>2, <1>3 DEF Keeps, Fits, Copy

(* A closed session has described nothing.                                  *)
LEMMA CloseForgets ==
    ASSUME NEW c \in Controller
    PROVE  LET q == CloseSession(c) IN
           /\ q \in Controller /\ q.jobs = c.jobs /\ ~q.sess /\ q.local = 0 /\ q.remote = 0
           /\ q.made = c.made /\ q.restart = c.restart
<1>1. CloseSession(c) \in Controller
  BY DEF CloseSession, Controller
<1>2. CloseSession(c).jobs = c.jobs /\ ~CloseSession(c).sess
  BY DEF CloseSession, Controller
<1>3. /\ CloseSession(c).local = 0 /\ CloseSession(c).remote = 0
      /\ CloseSession(c).made = c.made /\ CloseSession(c).restart = c.restart
  BY DEF CloseSession, Controller
<1> QED BY <1>1, <1>2, <1>3

(* finish() forgets everything but the count of what was described.         *)
LEMMA FinishKeeps ==
    ASSUME NEW b \in Controller, NEW r \in Controller, b.made <= r.made, NEW p
    PROVE  Keeps(b, Finish(r), p)
<1> DEFINE m == Bump(r)
           c == ClearRecovery(m)
           q == CloseSession(c)
           e == Finish(r)
<1>1. m \in Controller /\ (\A j \in m.jobs : j.late) /\ m.made = r.made
  BY BumpLate DEF Controller
<1>2. c \in Controller /\ c.jobs = m.jobs /\ c.made = r.made /\ c.restart = 0
  <2> HIDE DEF m
  <2> QED BY <1>1 DEF ClearRecovery, Controller
<1>3. q \in Controller /\ q.jobs = m.jobs /\ q.made = r.made /\ q.restart = 0
      /\ ~q.sess /\ q.local = 0 /\ q.remote = 0
  <2> HIDE DEF m, c
  <2> QED BY <1>2, CloseForgets
<1>4. /\ e \in Controller /\ e.jobs = m.jobs /\ e.made = r.made /\ e.restart = 0
      /\ ~e.sess /\ e.local = 0 /\ e.remote = 0 /\ e.phase = "idle" /\ e.call = 0 /\ e.out
      /\ e.offer = 0
  <2>1. e = [q EXCEPT !.phase = "idle", !.call = 0, !.out = TRUE, !.ever = FALSE,
                !.wait = FALSE, !.offer = 0, !.mine = "none", !.theirs = "none"]
    BY DEF Finish
  <2>2. "idle" \in Phases /\ 0 \in CallIds
    BY DEF Phases, CallIds
  <2> HIDE DEF m, q, e
  <2> QED BY <1>3, <2>1, <2>2 DEF Controller
<1>5. r.made \in Nat
  BY DEF Controller
<1> HIDE DEF m, c, q, e
<1>6. InRole(e)
  BY <1>1, <1>4, <1>5 DEF InRole, Late
<1>7. Holds(e, p) /\ Follows(b, e)
  BY <1>1, <1>4 DEF Holds, Follows, Late
<1>8. Keeps(b, e, p)
  BY <1>4, <1>6, <1>7 DEF Keeps, Fits
<1> QED BY <1>8 DEF e

(* A further promise, of the role, about something the other has said.      *)
MayStart(r, s, x, p) ==
    /\ s \in Answering => r.phase # "dialing" /\ AnswerOf(p, r.call, x)
    /\ s \in Offering \/ (s = "open" /\ ~r.out) => OfferOf(p, x)
    /\ r.out <=> s \notin Offering /\ (s = "open" => x = 0)

(* It is kept by such a promise.                                            *)
LEMMA StartsKeeps ==
    ASSUME NEW r, NEW p, Fits(r, p), NEW s \in Steps, NEW x \in Nat, MayStart(r, s, x, p)
    PROVE  Keeps(r, Starts(r, s, x), p)
<1> DEFINE j == Job(s, x)
           q == Starts(r, s, x)
<1>1. j \in JobSet /\ j.step = s /\ j.sdp = x
  BY DEF Job, JobSet
<1>2. r \in Controller /\ InRole(r) /\ Holds(r, p)
  BY DEF Fits
<1>3. q = [r EXCEPT !.jobs = r.jobs \cup {j}]
  BY DEF Starts
<1> HIDE DEF j, q
<1>4. /\ q \in Controller /\ q.jobs = r.jobs \cup {j} /\ q.phase = r.phase
      /\ q.call = r.call /\ q.out = r.out /\ q.sess = r.sess
      /\ q.local = r.local /\ q.remote = r.remote /\ q.made = r.made
      /\ q.offer = r.offer /\ q.restart = r.restart
  BY <1>1, <1>2, <1>3 DEF Controller
<1>5. InRole(q)
  <2>1. \A k \in q.jobs : Late(k) \/
          /\ k.step \in Answering => q.phase # "dialing"
          /\ q.out <=> k.step \notin Offering /\ (k.step = "open" => k.sdp = 0)
    BY <1>1, <1>2, <1>4 DEF InRole, MayStart
  <2> QED BY <1>2, <1>4, <2>1 DEF InRole
<1>6. Holds(q, p)
  <2>1. \A k \in q.jobs : Late(k) \/
          /\ k.step \in Answering => AnswerOf(p, q.call, k.sdp)
          /\ k.step \in Offering \/ (k.step = "open" /\ ~q.out) => OfferOf(p, k.sdp)
    BY <1>1, <1>2, <1>4 DEF Holds, MayStart
  <2> QED BY <1>2, <1>4, <2>1 DEF Holds
<1>7. Follows(r, q)
  BY <1>2, <1>4 DEF Follows, Controller
<1>8. Keeps(r, q, p)
  BY <1>4, <1>5, <1>6, <1>7 DEF Keeps, Fits
<1> QED BY <1>8 DEF q

(* The private methods.                                                     *)

(* The private methods: candidates are flushed, ...                         *)
LEMMA FlushKeeps ==
    ASSUME NEW r, NEW p, Fits(r, p), NEW can \in BOOLEAN
    PROVE  /\ Keeps(r, FlushLocal(can, r), p) /\ Copy(FlushLocal(can, r), r)
           /\ FlushLocal(can, r).phase = r.phase
           /\ Keeps(r, FlushIce(r), p)
<1>1. r \in Controller
  BY DEF Fits
<1>2. FlushLocal(can, r) \in Controller /\ Copy(FlushLocal(can, r), r)
      /\ FlushLocal(can, r).phase = r.phase
  BY <1>1 DEF FlushLocal, Controller, Copy
<1>3. FlushIce(r) \in Controller /\ Copy(FlushIce(r), r)
  BY <1>1 DEF FlushIce, Controller, Copy
<1> QED BY <1>2, <1>3, CopyKeeps

(* ... a restart is offered, ...                                            *)
LEMMA RestartKeeps ==
    ASSUME NEW r, NEW p, Fits(r, p)
    PROVE  Keeps(r, RestartOffer(r), p) /\ RestartOffer(r).out = r.out
<1>1. CASE MayRestart(r) /\ r.restart = 0
  <2> DEFINE s == Starts(r, "restart", 0)
             q == [s EXCEPT !.inFlight = TRUE]
  <2>1. Keeps(r, s, p)
    <3>1. "restart" \in Steps /\ 0 \in Nat /\ MayStart(r, "restart", 0, p)
      BY <1>1 DEF Steps, MayStart, MayRestart, Answering, Offering
    <3> QED BY <3>1, StartsKeeps
  <2>2. RestartOffer(r) = q
    BY <1>1 DEF RestartOffer
  <2>3. s.out = r.out
    BY DEF Fits, Starts, Controller
  <2> HIDE DEF s
  <2>4. s \in Controller /\ Fits(s, p)
    BY <2>1 DEF Keeps, Fits
  <2>5. q \in Controller /\ Copy(q, s) /\ q.out = r.out
    BY <2>3, <2>4 DEF Controller, Copy
  <2>6. Keeps(s, q, p)
    BY <2>4, <2>5, CopyKeeps
  <2> QED BY <2>1, <2>2, <2>5, <2>6, KeepsOn DEF Fits
<1>2. CASE ~(MayRestart(r) /\ r.restart = 0)
  <2>1. Keeps(r, r, p)
    BY CopyKeeps DEF Copy, Fits
  <2> QED BY <1>2, <2>1 DEF RestartOffer
<1> QED BY <1>1, <1>2

(* ... a recovery begins, ...                                               *)
LEMMA RecoveryKeeps ==
    ASSUME NEW r, NEW p, Fits(r, p), NEW initiate \in BOOLEAN
    PROVE  Keeps(r, BeginRecovery(r, initiate), p) /\ BeginRecovery(r, initiate).out = r.out
<1>1. CASE Recovers(r)
  <2> DEFINE q == [r EXCEPT !.phase = "reconnecting", !.deadline = TRUE, !.retry = TRUE]
  <2>1. q \in Controller /\ Copy(q, r)
    BY DEF Fits, Controller, Phases, Copy
  <2>2. Keeps(r, q, p) /\ q.out = r.out
    BY <2>1, CopyKeeps DEF Copy
  <2>3. BeginRecovery(r, initiate) = IF initiate THEN RestartOffer(q) ELSE q
    BY <1>1 DEF BeginRecovery
  <2> HIDE DEF q
  <2>4. Keeps(q, RestartOffer(q), p) /\ RestartOffer(q).out = r.out
    BY <2>2, RestartKeeps DEF Keeps
  <2> QED BY <2>2, <2>3, <2>4, KeepsOn DEF Fits
<1>2. CASE ~Recovers(r)
  <2>1. Keeps(r, r, p)
    BY CopyKeeps DEF Copy, Fits
  <2> QED BY <1>2, <2>1 DEF BeginRecovery
<1> QED BY <1>1, <1>2

(* ... and is retried.                                                      *)
LEMMA RetryKeeps ==
    ASSUME NEW r, NEW p, Fits(r, p), NEW can \in BOOLEAN
    PROVE  Keeps(r, RetryRecovery(can, r), p)
<1>1. CASE r.phase = "reconnecting"
  <2> DEFINE f == FlushLocal(can, r)
             q == [f EXCEPT !.retry = TRUE]
  <2>1. Keeps(r, f, p)
    BY FlushKeeps
  <2>2. RetryRecovery(can, r) = RestartOffer(q)
    BY <1>1 DEF RetryRecovery
  <2> HIDE DEF f
  <2>3. f \in Controller /\ Fits(f, p)
    BY <2>1 DEF Keeps, Fits
  <2>4. q \in Controller /\ Copy(q, f)
    BY <2>3 DEF Controller, Copy
  <2>5. Keeps(f, q, p)
    BY <2>3, <2>4, CopyKeeps
  <2>6. Keeps(q, RestartOffer(q), p)
    BY <2>5, RestartKeeps DEF Keeps
  <2> QED BY <2>1, <2>2, <2>5, <2>6, KeepsOn DEF Fits
<1>2. CASE r.phase # "reconnecting"
  <2>1. Keeps(r, r, p)
    BY CopyKeeps DEF Copy, Fits
  <2> QED BY <1>2, <2>1 DEF RetryRecovery
<1> QED BY <1>1, <1>2

-----------------------------------------------------------------------------
(* What is sent.                                                            *)

Plain == FrameTypes \ {"answer", "restart_answer", "incoming", "restart_offer"}

(* A frame without a description says nothing.                              *)
LEMMA PlainTrue ==
    ASSUME NEW t \in Plain, NEW c \in Nat, NEW s \in Nat, NEW r
    PROVE  Frame(t, c, s) \in Truths(r) /\ <<Frame(t, c, s)>> \in Seq(Truths(r))
<1>1. Frame(t, c, s) \in Frames /\ Frame(t, c, s).type = t
  BY FrameTyped DEF Plain, Frame
<1>2. Frame(t, c, s) \in Truths(r)
  BY <1>1 DEF Truths, Truthful, Plain
<1> QED BY <1>2

(* The frames of the private methods say the truth of who sends them.       *)
LEMMA FramesTrue ==
    ASSUME NEW r, NEW p, Fits(r, p), NEW can \in BOOLEAN
    PROVE  /\ Asks(r) \in Seq(Truths(r)) /\ RecoveryFrames(r) \in Seq(Truths(r))
           /\ RetryFrames(can, r) \in Seq(Truths(r)) /\ Hangup(r) \in Seq(Truths(r))
           /\ Resume(r) \in Seq(Truths(r)) /\ LocalIce(can, r) \in Seq(Truths(r))
<1> DEFINE T == Truths(r)
<1>1. /\ r \in Controller /\ r.call \in Nat /\ r.restart \in Nat /\ InRole(r)
      /\ {"restart_request", "hangup", "resume", "ice"} \subseteq Plain
  BY DEF Fits, Controller, CallIds, FrameTypes, Plain
<1>2. <<>> \in Seq(T) /\ \A t \in Plain : <<Frame(t, r.call, 0)>> \in Seq(T)
  BY <1>1, PlainTrue, EmptySeq
<1>3. ASSUME MayRestart(r), r.restart # 0
      PROVE  <<Frame("restart_offer", r.call, r.restart)>> \in Seq(T)
  <2> DEFINE f == Frame("restart_offer", r.call, r.restart)
  <2>1. f \in Frames /\ f.type = "restart_offer" /\ f.sdp = r.restart
    BY <1>1, FrameTyped DEF FrameTypes, Frame
  <2>2. OfferOf(r, r.restart)
    BY <1>1, <1>3 DEF OfferOf, InRole, MayRestart, Controller
  <2> HIDE DEF f
  <2>3. f \in T
    BY <2>1, <2>2 DEF Truths, Truthful
  <2>4. <<f>> \in Seq(T)
    BY <2>3
  <2> QED BY <2>4 DEF f
<1> HIDE DEF T
<1>4. Asks(r) \in Seq(T)
  <2> HIDE DEF Frame
  <2>1. "restart_request" \in Plain
    BY <1>1
  <2> QED BY <1>2, <1>3, <2>1 DEF Asks
<1>5. LocalIce(can, r) \in Seq(T) /\ LocalIce(TRUE, r) \in Seq(T)
  <2>1. "ice" \in Plain
    BY <1>1
  <2> QED BY <1>2, <2>1 DEF LocalIce
<1>6. RetryFrames(can, r) \in Seq(T)
  BY <1>2, <1>4, <1>5, ConcatProperties DEF RetryFrames
<1>7. Resume(r) \in Seq(T)
  <2>1. <<Frame("resume", r.call, 0)>> \in Seq(T)
    BY <1>1, <1>2
  <2>2. <<Frame("resume", r.call, 0)>> \o LocalIce(TRUE, r) \in Seq(T)
    BY <2>1, <1>5, ConcatProperties
  <2>3. Resume(r) = IF Busy(r) /\ r.call # 0
                    THEN <<Frame("resume", r.call, 0)>> \o LocalIce(TRUE, r) ELSE <<>>
    BY DEF Resume
  <2> HIDE DEF Busy, Frame
  <2> QED BY <1>2, <2>2, <2>3
<1>8. Hangup(r) \in Seq(T) /\ RecoveryFrames(r) \in Seq(T)
  <2>1. "hangup" \in Plain
    BY <1>1
  <2> QED BY <1>2, <1>4, <2>1 DEF Hangup, RecoveryFrames
<1> QED BY <1>4, <1>5, <1>6, <1>7, <1>8 DEF T

(* S says which frames may be under way to a device.                        *)
Carries(n, S) == \A p \in Devices : n.down[p] \in Seq(S[p])
MayCarry(S) ==
    /\ S \in [Devices -> SUBSET Frames]
    /\ \A p \in Devices : \A f \in Frames : f.type \in Plain => f \in S[p]

(* The server writes one frame, ...                                         *)
LEMMA PushCarries ==
    ASSUME NEW S, MayCarry(S), NEW n \in Network, Carries(n, S), NEW p \in Devices,
           NEW f \in S[p]
    PROVE  Carries(Push(n, p, f), S) /\ Push(n, p, f) \in Network
<1>1. f \in Frames
  BY DEF MayCarry
<1>2. n.down[p] \in Seq(S[p]) /\ n.down \in [Devices -> Seq(Frames)]
  BY DEF Carries, Network
<1>3. Append(n.down[p], f) \in Seq(S[p])
  BY <1>2, AppendProperties
<1> DEFINE w == [n.down EXCEPT ![p] = Append(n.down[p], f)]
<1>4. \A e \in Devices : w[e] \in Seq(S[e])
  BY <1>2, <1>3 DEF Carries
<1>5. [n EXCEPT !.down[p] = Append(@, f)] = [n EXCEPT !.down = w]
  OBVIOUS
<1> HIDE DEF w
<1>6. [n EXCEPT !.down = w].down = w
  BY DEF Network
<1>7. Carries([n EXCEPT !.down = w], S)
  BY <1>4, <1>6 DEF Carries
<1>8. Carries(Push(n, p, f), S)
  BY <1>5, <1>7 DEF Push
<1> QED BY <1>1, <1>8, PushTyped

(* ... takes one of a device, ...                                           *)
LEMMA ServeCarries ==
    ASSUME NEW S, MayCarry(S), NEW n \in Network, Carries(n, S), NEW d \in Devices,
           NEW f \in S[Other(d)]
    PROVE  Carries(Serve(n, d, f), S) /\ Serve(n, d, f) \in Network
<1>1. Other(d) \in Devices /\ f \in Frames
  BY OtherDevice DEF MayCarry
<1>2. Carries(Push(n, d, Frame("hangup", f.call, 0)), S)
  <2>1. "hangup" \in Plain /\ f.call \in Nat /\ "hangup" \in FrameTypes
    BY <1>1 DEF FrameTypes, Frames, CallIds, Plain
  <2>2. Frame("hangup", f.call, 0) \in Frames /\ Frame("hangup", f.call, 0).type = "hangup"
    BY <2>1, FrameTyped DEF Frame
  <2> QED BY <2>1, <2>2, PushCarries DEF MayCarry
<1>3. Carries(Push([n EXCEPT !.line = "live"], Other(d), f), S)
  <2>1. [n EXCEPT !.line = "live"] \in Network /\ [n EXCEPT !.line = "live"].down = n.down
    BY DEF Network
  <2>2. Carries([n EXCEPT !.line = "live"], S)
    BY <2>1 DEF Carries
  <2> QED BY <2>1, <2>2, <1>1, PushCarries
<1>4. Carries(Push(Over(n), Other(d), f), S)
  <2>1. Over(n) \in Network /\ Over(n).down = n.down
    BY DEF Network, Over
  <2>2. Carries(Over(n), S)
    BY <2>1 DEF Carries
  <2> QED BY <2>1, <2>2, <1>1, PushCarries
<1>5. Carries([n EXCEPT !.grace = @ \ {d}], S)
  <2>1. [n EXCEPT !.grace = @ \ {d}].down = n.down
    BY DEF Network
  <2> QED BY <2>1 DEF Carries
<1>6. Carries(Push(n, Other(d), f), S)
  BY <1>1, PushCarries
<1>7. Serve(n, d, f) \in Network
  BY <1>1, ServeTyped
<1> QED BY <1>2, <1>3, <1>4, <1>5, <1>6, <1>7 DEF Serve

(* ... and all the frames of a handler.                                     *)
LEMMA SentCarries ==
    ASSUME NEW S, MayCarry(S), NEW n \in Network, Carries(n, S), NEW d \in Devices,
           NEW fs \in Seq(S[Other(d)])
    PROVE  Carries(Sent(n, d, fs), S)
<1>1. ASSUME NEW m \in Network, Carries(m, S), NEW k \in Nat \ {0}
      PROVE  Served(m, d, fs, k) \in Network /\ Carries(Served(m, d, fs, k), S)
  <2>1. CASE k <= Len(fs)
    <3>1. fs[k] \in S[Other(d)]
      BY <2>1, LenProperties
    <3> QED BY <3>1, <2>1, <1>1, ServeCarries DEF Served
  <2>2. CASE ~(k <= Len(fs))
    BY <2>2, <1>1 DEF Served
  <2> QED BY <2>1, <2>2
<1>2. Served(n, d, fs, 1) \in Network /\ Carries(Served(n, d, fs, 1), S)
  BY <1>1
<1>3. /\ Served(Served(n, d, fs, 1), d, fs, 2) \in Network
      /\ Carries(Served(Served(n, d, fs, 1), d, fs, 2), S)
  BY <1>1, <1>2
<1>4. Carries(Served(Served(Served(n, d, fs, 1), d, fs, 2), d, fs, 3), S)
  BY <1>1, <1>3
<1> QED BY <1>4 DEF Sent

-----------------------------------------------------------------------------
(* A step of one device.                                                    *)

(* What the invariant says of d.                                            *)
LEMMA Told ==
    ASSUME CallInv, ToldInv, NEW d \in Devices
    PROVE  /\ Fits(dev[d], dev[Other(d)]) /\ dev[d] \in Controller /\ net \in Network
           /\ net.down[d] \in Seq(Truths(dev[Other(d)]))
           /\ Other(d) \in Devices /\ Other(d) # d /\ Other(Other(d)) = d
           /\ dev[Other(d)] \in Controller
<1>1. Other(d) \in Devices /\ Other(d) # d /\ Other(Other(d)) = d
  <2>1. \A e \in Devices : Other(e) \in Devices /\ Other(e) # e
    BY OtherDevice
  <2> QED BY <2>1, TwoDevices
<1>2. dev[d] \in Controller /\ dev[Other(d)] \in Controller /\ net \in Network
  BY <1>1, Now
<1>3. net.down[d] \in Seq(Truths(dev[Other(d)]))
  <2> DEFINE s == net.down[d]
             T == Truths(dev[Other(d)])
  <2>1. s \in Seq(Frames) /\ \A k \in DOMAIN s : Truthful(s[k], dev[Other(d)])
    BY <1>2 DEF Network, ToldInv
  <2>2. \A k \in 1 .. Len(s) : s[k] \in Frames
    BY <2>1, LenProperties
  <2>3. \A k \in 1 .. Len(s) : s[k] \in T
    BY <2>1, <2>2 DEF Truths
  <2> HIDE DEF s, T
  <2>4. s \in Seq(T)
    BY <2>1, <2>3
  <2> QED BY <2>4 DEF s, T
<1> QED BY <1>1, <1>2, <1>3 DEF Fits, ToldInv

(* Whose descriptions have each other is in the same call.                  *)
LEMMA MatchedSame ==
    ASSUME CallInv, ToldInv, NEW d \in Devices, Matched(d)
    PROVE  dev[d].call = dev[Other(d)].call
<1> DEFINE r == dev[d]
           p == dev[Other(d)]
<1>1. Fits(r, p) /\ Fits(p, r)
  BY Told
<1>2. r.local # 0 /\ r.remote = p.local /\ p.remote = r.local
  BY DEF Matched
<1> HIDE DEF r, p
<1>3. p.out => ~r.out /\ p.call = r.call
  BY <1>1, <1>2 DEF Fits, Holds, AnswerOf
<1>4. ~p.out => r.out /\ p.local # 0
  BY <1>1, <1>2 DEF Fits, Holds, OfferOf, InRole
<1>5. ~p.out => p.call = r.call
  BY <1>1, <1>2, <1>4 DEF Fits, Holds, AnswerOf
<1> QED BY <1>3, <1>5 DEF r, p

(* The next controllers, when d becomes q and the network carries the truth. *)
LEMMA ToldStep ==
    ASSUME CallInv, ToldInv, NEW d \in Devices, NEW q,
           Fits(q, dev[Other(d)]), Follows(dev[d], q),
           \/ q.phase # "active"
           \/ dev[d].phase = "active" /\ q.call = dev[d].call
           \/ q.call = dev[Other(d)].call,
           dev' = [dev EXCEPT ![d] = q],
           \A e \in Devices : net'.down[e] \in Seq(Truths(dev'[Other(e)]))
    PROVE  ToldInv'
<1> DEFINE o == Other(d)
           p == dev[o]
<1>1. /\ o \in Devices /\ o # d /\ Other(o) = d /\ Devices = {d, o}
      /\ dev[d] \in Controller /\ p \in Controller /\ Fits(p, dev[d])
  BY Told, TwoDevices
<1>2. dev'[d] = q /\ dev'[o] = p
  BY <1>1, Now
<1>3. Fits(dev'[d], dev'[o]) /\ Fits(dev'[o], dev'[d])
  <2>1. Holds(p, q)
    BY <1>1, HoldsStays DEF Fits
  <2> QED BY <1>1, <1>2, <2>1 DEF Fits
<1>4. SameCall'
  <2>1. dev[d].phase = "active" /\ p.phase = "active" => dev[d].call = p.call
    BY <1>1 DEF ToldInv, SameCall
  <2>2. dev'[d].phase = "active" /\ dev'[o].phase = "active" => dev'[d].call = dev'[o].call
    BY <1>2, <2>1
  <2> HIDE DEF o, p
  <2> QED BY <1>1, <2>2 DEF SameCall
<1>5. \A e \in Devices : \A k \in DOMAIN net'.down[e] : Truthful(net'.down[e][k], dev'[Other(e)])
  <2> SUFFICES ASSUME NEW e \in Devices, NEW k \in DOMAIN net'.down[e]
               PROVE  Truthful(net'.down[e][k], dev'[Other(e)])
    OBVIOUS
  <2> DEFINE s == net'.down[e]
             T == Truths(dev'[Other(e)])
  <2>1. s \in Seq(T) /\ k \in DOMAIN s
    OBVIOUS
  <2> HIDE DEF s, T
  <2>2. s[k] \in T
    BY <2>1
  <2> QED BY <2>2 DEF s, T, Truths
<1> HIDE DEF o, p
<1>6. \A e \in Devices : InRole(dev'[e]) /\ Holds(dev'[e], dev'[Other(e)])
  BY <1>1, <1>3 DEF Fits, o
<1> QED BY <1>4, <1>5, <1>6 DEF ToldInv

(* What may be under way to each device when d has become q.                *)
SaidTo(d, q) == [e \in Devices |-> Truths([dev EXCEPT ![d] = q][Other(e)])]

(* All that was under way before is among it.                               *)
LEMMA ToldCarried ==
    ASSUME CallInv, ToldInv, NEW d \in Devices, NEW q \in Controller, Follows(dev[d], q)
    PROVE  /\ MayCarry(SaidTo(d, q)) /\ Carries(net, SaidTo(d, q))
           /\ SaidTo(d, q)[Other(d)] = Truths(q)
           /\ SaidTo(d, q)[d] = Truths(dev[Other(d)])
<1> DEFINE S == SaidTo(d, q)
           o == Other(d)
<1>1. /\ o \in Devices /\ o # d /\ Other(o) = d /\ Devices = {d, o}
      /\ dev[d] \in Controller /\ dev[o] \in Controller /\ dev \in [Devices -> Controller]
      /\ net.down[d] \in Seq(Truths(dev[o])) /\ net.down[o] \in Seq(Truths(dev[d]))
  BY Told, TwoDevices, Now
<1>2. S[o] = Truths(q) /\ S[d] = Truths(dev[o])
  BY <1>1 DEF SaidTo
<1>3. S \in [Devices -> SUBSET Frames]
  BY DEF SaidTo, Truths
<1>4. \A r : \A f \in Frames : f.type \in Plain => f \in Truths(r)
  BY DEF Truths, Truthful, Plain
<1>5. net.down[o] \in Seq(Truths(q))
  <2>1. Truths(dev[d]) \subseteq Truths(q)
    BY <1>1, TruthsStay
  <2> HIDE DEF o
  <2> QED BY <1>1, <2>1
<1> HIDE DEF S, o
<1>6. MayCarry(S)
  BY <1>1, <1>2, <1>3, <1>4 DEF MayCarry
<1>7. Carries(net, S)
  BY <1>1, <1>2, <1>5 DEF Carries
<1> QED BY <1>2, <1>6, <1>7 DEF S, o

(* What d may become.                                                       *)
Becoming(d, q) ==
    /\ Fits(q, dev[Other(d)]) /\ Follows(dev[d], q)
    /\ \/ q.phase # "active"
       \/ dev[d].phase = "active" /\ q.call = dev[d].call
       \/ q.call = dev[Other(d)].call

(* So the invariant holds when the network carries nothing else.            *)
LEMMA CarriedTold ==
    ASSUME CallInv, ToldInv, NEW d \in Devices, NEW q, Becoming(d, q),
           dev' = [dev EXCEPT ![d] = q], Carries(net', SaidTo(d, q))
    PROVE  ToldInv'
<1>1. \A e \in Devices : net'.down[e] \in Seq(Truths(dev'[Other(e)]))
  BY DEF Carries, SaidTo
<1> QED BY <1>1, ToldStep DEF Becoming

(* Does() with a controller that keeps what it has been told.               *)
LEMMA DoesTold ==
    ASSUME CallInv, ToldInv, NEW d \in Devices, NEW q, Becoming(d, q),
           NEW fs \in Seq(Truths(q)), Does(d, q, fs)
    PROVE  ToldInv'
<1> DEFINE S == SaidTo(d, q)
<1>1. q \in Controller /\ Follows(dev[d], q) /\ net \in Network
  BY Told DEF Becoming, Fits
<1>2. MayCarry(S) /\ Carries(net, S) /\ S[Other(d)] = Truths(q)
  BY <1>1, ToldCarried
<1> HIDE DEF S
<1>3. Carries(Sent(net, d, fs), S)
  BY <1>1, <1>2, SentCarries
<1> QED BY <1>3, CarriedTold DEF Does, S

(* What a private method keeps is enough.                                   *)
LEMMA KeepsBecoming ==
    ASSUME NEW d, NEW q, Keeps(dev[d], q, dev[Other(d)])
    PROVE  Becoming(d, q)
<1> QED BY DEF Keeps, Becoming

(* The same when a frame is taken from the socket.                          *)
LEMMA HandlesTold ==
    ASSUME CallInv, ToldInv, NEW d \in Devices, NEW f, net.down[d] # <<>>,
           NEW q, Becoming(d, q), NEW fs \in Seq(Truths(q)), Handles(d, f, q, fs)
    PROVE  ToldInv'
<1> DEFINE S == SaidTo(d, q)
           w == [net.down EXCEPT ![d] = Tail(net.down[d])]
           m == [net EXCEPT !.down = w]
           ice == IF Matches(dev[d], f) THEN LocalIce(TRUE, dev[d]) ELSE <<>>
<1>1. /\ q \in Controller /\ Follows(dev[d], q) /\ net \in Network /\ Fits(dev[d], dev[Other(d)])
      /\ dev[d] \in Controller
  BY Told DEF Becoming, Fits
<1>2. MayCarry(S) /\ Carries(net, S) /\ S[Other(d)] = Truths(q)
  BY <1>1, ToldCarried
<1>3. net' = Sent(m, d, ice \o fs) /\ dev' = [dev EXCEPT ![d] = q]
  <2>1. [net EXCEPT !.down[d] = Tail(@)] = m
    OBVIOUS
  <2> QED BY <2>1 DEF Handles
<1>4. ice \in Seq(Truths(q))
  <2>1. LocalIce(TRUE, dev[d]) \in Seq(Truths(dev[d]))
    BY <1>1, FramesTrue
  <2>2. Truths(dev[d]) \subseteq Truths(q)
    BY <1>1, TruthsStay
  <2> DEFINE i == LocalIce(TRUE, dev[d])
             A == Truths(dev[d])
             B == Truths(q)
  <2> HIDE DEF i, A, B
  <2>3. i \in Seq(A) /\ A \subseteq B
    BY <2>1, <2>2 DEF i, A, B
  <2>4. i \in Seq(B) /\ <<>> \in Seq(B)
    BY <2>3
  <2> QED BY <2>4 DEF i, A, B
<1> HIDE DEF ice, S
<1>5. ice \o fs \in Seq(Truths(q))
  BY <1>4, ConcatProperties
<1>6. m \in Network /\ Carries(m, S)
  <2>1. net.down[d] \in Seq(Frames) /\ net.down[d] \in Seq(S[d]) /\ net.down \in [Devices -> Seq(Frames)]
    BY <1>1, <1>2 DEF Network, Carries
  <2>2. Tail(net.down[d]) \in Seq(Frames) /\ Tail(net.down[d]) \in Seq(S[d])
    BY <2>1, HeadTailProperties
  <2>3. w \in [Devices -> Seq(Frames)] /\ \A e \in Devices : w[e] \in Seq(S[e])
    BY <1>2, <2>1, <2>2 DEF Carries
  <2> HIDE DEF w
  <2>4. m \in Network /\ m.down = w
    BY <1>1, <2>3 DEF Network
  <2> QED BY <2>3, <2>4 DEF Carries
<1> HIDE DEF m
<1>7. Carries(net', S)
  BY <1>2, <1>3, <1>5, <1>6, SentCarries
<1> QED BY <1>3, <1>7, CarriedTold DEF S

-----------------------------------------------------------------------------
(* What the person does, and the continuations.                             *)

(* A controller that finishes, whatever it was a moment before.             *)
LEMMA FinishTold ==
    ASSUME CallInv, ToldInv, NEW d \in Devices, NEW r \in Controller, dev[d].made <= r.made
    PROVE  Becoming(d, Finish(r))
<1> QED BY Told, FinishKeeps, KeepsBecoming

(* A call is placed: no promise of before is of it.                         *)
LEMMA PlaceTold ==
    ASSUME CallInv, ToldInv, NEW d \in Devices, Place(d)
    PROVE  ToldInv'
<1> DEFINE r == dev[d]
           p == dev[Other(d)]
           b == Bump(r)
           q == [b EXCEPT !.phase = "dialing", !.wait = TRUE, !.mine = "none"]
<1>1. Fits(r, p) /\ r \in Controller /\ r.phase = "idle"
  BY Told DEF Place, Busy
<1>2. b \in Controller /\ (\A k \in b.jobs : k.late) /\ b = [r EXCEPT !.jobs = b.jobs]
  BY <1>1, BumpLate
<1>3. Does(d, Starts(q, "open", 0), <<>>)
  BY DEF Place
<1> HIDE DEF p, b
<1>4. /\ q \in Controller /\ q.phase = "dialing" /\ q.jobs = b.jobs /\ q.sess = r.sess
      /\ q.call = r.call /\ q.out = r.out /\ q.local = r.local /\ q.remote = r.remote
      /\ q.made = r.made /\ q.offer = r.offer /\ q.restart = r.restart
  <2>1. "dialing" \in Phases
    BY DEF Phases
  <2> QED BY <1>1, <1>2, <2>1 DEF Controller
<1> HIDE DEF q, r
<1>5. InRole(q) /\ Holds(q, p) /\ Follows(r, q)
  BY <1>1, <1>2, <1>4 DEF Fits, InRole, Holds, Follows, Late, Controller
<1>6. Keeps(r, q, p) /\ q.out
  BY <1>1, <1>4, <1>5 DEF Keeps, Fits, InRole
<1>7. Keeps(q, Starts(q, "open", 0), p)
  <2>1. "open" \in Steps /\ 0 \in Nat /\ MayStart(q, "open", 0, p)
    BY <1>6 DEF Steps, MayStart, Answering, Offering
  <2> QED BY <1>6, <2>1, StartsKeeps DEF Keeps
<1>8. Becoming(d, Starts(q, "open", 0))
  BY <1>1, <1>6, <1>7, KeepsOn, KeepsBecoming DEF r, p
<1> QED BY <1>3, <1>8, DoesTold, EmptySeq

(* accept(), once or again, of the offer that came with the call.           *)
LEMMA AcceptTold ==
    ASSUME CallInv, ToldInv, NEW d \in Devices, Accept(d)
    PROVE  ToldInv'
<1> DEFINE r == dev[d]
           p == dev[Other(d)]
           b == Bump(r)
           q == [b EXCEPT !.wait = TRUE]
<1>1. /\ Fits(r, p) /\ r \in Controller /\ r.phase = "incoming" /\ r.offer # 0
      /\ r.offer \in Nat
  BY Told DEF Accept, Controller
<1>2. b \in Controller /\ (\A k \in b.jobs : k.late) /\ b = [r EXCEPT !.jobs = b.jobs]
  BY <1>1, BumpLate
<1>3. Does(d, Starts(q, "open", r.offer), <<>>)
  BY DEF Accept
<1> HIDE DEF p, b
<1>4. /\ q \in Controller /\ q.phase = r.phase /\ q.jobs = b.jobs /\ q.sess = r.sess
      /\ q.call = r.call /\ q.out = r.out /\ q.local = r.local /\ q.remote = r.remote
      /\ q.made = r.made /\ q.offer = r.offer /\ q.restart = r.restart
  BY <1>1, <1>2 DEF Controller
<1> HIDE DEF q, r
<1>5. InRole(q) /\ Holds(q, p) /\ Follows(r, q)
  BY <1>1, <1>2, <1>4 DEF Fits, InRole, Holds, Follows, Late, Controller
<1>6. Keeps(r, q, p) /\ ~q.out /\ OfferOf(p, r.offer)
  BY <1>1, <1>4, <1>5 DEF Keeps, Fits, InRole, Holds
<1>7. Keeps(q, Starts(q, "open", r.offer), p)
  <2>1. "open" \in Steps /\ MayStart(q, "open", r.offer, p)
    BY <1>1, <1>6 DEF Steps, MayStart, Answering, Offering
  <2> QED BY <1>1, <1>6, <2>1, StartsKeeps DEF Keeps
<1>8. Becoming(d, Starts(q, "open", r.offer))
  BY <1>1, <1>6, <1>7, KeepsOn, KeepsBecoming DEF r, p
<1> QED BY <1>3, <1>8, DoesTold, EmptySeq

(* decline() and hangUp().                                                  *)
LEMMA EndsTold ==
    ASSUME CallInv, ToldInv, NEW d \in Devices, Decline(d) \/ HangUp(d)
    PROVE  ToldInv'
<1> DEFINE r == dev[d]
           q == Finish(r)
<1>1. /\ Fits(r, dev[Other(d)]) /\ r \in Controller /\ r.call \in Nat /\ r.made \in Nat
  BY Told DEF Controller, CallIds
<1>2. Becoming(d, q)
  <2>1. r.made <= r.made
    BY <1>1
  <2> QED BY <1>1, <2>1, FinishTold
<1>3. \E fs \in Seq(Truths(q)) : Does(d, q, fs)
  <2>1. <<Frame("reject", r.call, 0)>> \in Seq(Truths(q)) /\ <<Frame("hangup", r.call, 0)>> \in Seq(Truths(q))
    <3>1. "reject" \in Plain /\ "hangup" \in Plain
      BY DEF Plain, FrameTypes
    <3> HIDE DEF q, r
    <3> QED BY <1>1, <3>1, PlainTrue
  <2>2. <<>> \in Seq(Truths(q))
    BY EmptySeq
  <2>3. Hangup(r) \in Seq(Truths(q))
    BY <2>1, <2>2 DEF Hangup
  <2> QED BY <2>1, <2>3 DEF Decline, HangUp
<1> HIDE DEF q
<1> QED BY <1>2, <1>3, DoesTold

(* What holds of a promise that settles.                                    *)
LEMMA SettlesTold ==
    ASSUME CallInv, ToldInv, NEW d \in Devices, NEW j \in dev[d].jobs
    PROVE  LET r == Taken(d, j)
               p == dev[Other(d)] IN
           /\ Keeps(dev[d], r, p) /\ Fits(r, p) /\ r \in Controller /\ Copy(r, dev[d])
           /\ r.phase = dev[d].phase /\ r.sess = dev[d].sess /\ r.orphan = dev[d].orphan
           /\ j.sdp \in Nat /\ j.step \in Steps
           /\ ~Late(j) =>
                /\ Busy(r) /\ (j.step = "open" \/ r.sess)
                /\ j.step \in Answering => r.phase # "dialing" /\ AnswerOf(p, r.call, j.sdp)
                /\ j.step \in Offering \/ (j.step = "open" /\ ~r.out) => OfferOf(p, j.sdp)
                /\ r.out <=> j.step \notin Offering /\ (j.step = "open" => j.sdp = 0)
<1> DEFINE r == Taken(d, j)
           p == dev[Other(d)]
<1>1. /\ r \in Controller /\ r.orphan = dev[d].orphan /\ r.sess = dev[d].sess
      /\ r.phase = dev[d].phase /\ r.jobs = dev[d].jobs \ {j}
      /\ j.step \in Steps /\ j.sdp \in Nat
      /\ ~Late(j) => Busy(dev[d]) /\ (j.step = "open" \/ dev[d].sess)
  BY Settles
<1>2. Fits(dev[d], p) /\ dev[d] \in Controller
  BY Told
<1>3. Copy(r, dev[d])
  BY <1>1, <1>2 DEF Taken, Copy, Controller
<1> HIDE DEF r
<1>4. Keeps(dev[d], r, p)
  BY <1>1, <1>2, <1>3, CopyKeeps
<1>5. ~Late(j) =>
        /\ j.step \in Answering => r.phase # "dialing" /\ AnswerOf(p, r.call, j.sdp)
        /\ j.step \in Offering \/ (j.step = "open" /\ ~r.out) => OfferOf(p, j.sdp)
        /\ r.out <=> j.step \notin Offering /\ (j.step = "open" => j.sdp = 0)
  BY <1>1, <1>2, <1>3 DEF Fits, InRole, Holds, Copy
<1>6. ~Late(j) => Busy(r)
  BY <1>1 DEF Busy
<1> QED BY <1>1, <1>3, <1>4, <1>5, <1>6 DEF Keeps, r

(* A late promise.                                                          *)
LEMMA ReturnsTold ==
    ASSUME CallInv, ToldInv, NEW d \in Devices, NEW j \in dev[d].jobs, Returns(d, j)
    PROVE  ToldInv'
<1>1. Becoming(d, Taken(d, j))
  BY SettlesTold, KeepsBecoming
<1> QED BY <1>1, DoesTold, EmptySeq DEF Returns

(* The media is open: a session that has described nothing.                 *)
LEMMA OpenedTold ==
    ASSUME CallInv, ToldInv, NEW d \in Devices, NEW j \in dev[d].jobs, ~Late(j), Opened(d, j)
    PROVE  ToldInv'
<1> DEFINE r == Taken(d, j)
           p == dev[Other(d)]
           w == (j.sdp # 0)
           o == IF r.sess THEN "live" ELSE r.orphan
           q == [r EXCEPT !.sess = TRUE, !.pc = "new", !.local = 0,
                          !.remote = 0, !.offered = FALSE, !.wait = w, !.orphan = o]
           s == IF j.sdp = 0 THEN "offer" ELSE "answer"
           e == Starts(q, s, j.sdp)
<1>1. /\ Keeps(dev[d], r, p) /\ Fits(r, p) /\ r \in Controller /\ dev[d] \in Controller
      /\ j.sdp \in Nat /\ j.step = "open" /\ (r.out <=> j.sdp = 0)
      /\ ~r.out => OfferOf(p, j.sdp)
  BY SettlesTold, Told DEF Opened, Offering
<1>2. Does(d, e, <<>>)
  BY <1>1 DEF Opened, Controller
<1> HIDE DEF r, p
<1>3. q \in Controller
  <2>1. w \in BOOLEAN /\ o \in {"none", "live", "failed"}
    BY <1>1 DEF Controller
  <2> DEFINE c == [r EXCEPT !.sess = TRUE, !.pc = "new", !.local = 0, !.remote = 0,
                            !.offered = FALSE]
  <2>2. q = [c EXCEPT !.wait = w, !.orphan = o]
    BY <1>1 DEF Controller
  <2>3. c \in Controller
    BY <1>1 DEF Controller
  <2> HIDE DEF q, w, o, c
  <2> QED BY <2>1, <2>2, <2>3 DEF Controller
<1>4. /\ q.phase = r.phase /\ q.jobs = r.jobs /\ q.sess
      /\ q.call = r.call /\ q.out = r.out /\ q.local = 0 /\ q.remote = 0
      /\ q.made = r.made /\ q.offer = r.offer /\ q.restart = r.restart
  BY <1>1 DEF Controller
<1> HIDE DEF q
<1>5. InRole(q) /\ Holds(q, p) /\ Follows(r, q)
  BY <1>1, <1>4 DEF Fits, InRole, Holds, Follows, Controller
<1>6. Keeps(r, q, p)
  BY <1>3, <1>4, <1>5 DEF Keeps, Fits
<1>7. Keeps(q, e, p)
  <2>1. s \in Steps /\ MayStart(q, s, j.sdp, p)
    BY <1>1, <1>4 DEF Steps, MayStart, Answering, Offering
  <2> QED BY <1>1, <1>6, <2>1, StartsKeeps DEF Keeps
<1> HIDE DEF e
<1>8. Keeps(r, e, p)
  BY <1>1, <1>6, <1>7, KeepsOn
<1>9. Keeps(dev[d], e, p)
  BY <1>1, <1>8, KeepsOn
<1>10. Becoming(d, e)
  BY <1>9, KeepsBecoming DEF p
<1> QED BY <1>2, <1>10, DoesTold, EmptySeq

(* getUserMedia() is refused.                                               *)
LEMMA DeniedTold ==
    ASSUME CallInv, ToldInv, NEW d \in Devices, NEW j \in dev[d].jobs, Denied(d, j)
    PROVE  ToldInv'
<1> DEFINE r == Taken(d, j)
           q == Finish(r)
<1>1. r \in Controller /\ r.made = dev[d].made /\ r.call \in Nat /\ r.made \in Nat
  BY SettlesTold DEF Copy, Controller, CallIds
<1>2. Becoming(d, q)
  <2> HIDE DEF r
  <2>1. dev[d].made <= r.made
    BY <1>1
  <2> QED BY <1>1, <2>1, FinishTold
<1>3. \E fs \in Seq(Truths(q)) : Does(d, q, fs)
  <2>1. <<Frame("reject", r.call, 0)>> \in Seq(Truths(q)) /\ <<>> \in Seq(Truths(q))
    <3>1. "reject" \in Plain
      BY DEF Plain, FrameTypes
    <3> HIDE DEF q, r
    <3> QED BY <1>1, <3>1, PlainTrue, EmptySeq
  <2> QED BY <2>1 DEF Denied
<1> HIDE DEF q
<1> QED BY <1>2, <1>3, DoesTold

(* A description of its own, with or without one of the other.              *)
LEMMA DescribesTold ==
    ASSUME NEW r \in Controller, NEW isOffer \in BOOLEAN
    PROVE  LET q == Describes(r, isOffer) IN
           /\ q \in Controller /\ q.made = r.made + 1 /\ q.local = r.made + 1
           /\ q.phase = r.phase /\ q.jobs = r.jobs /\ q.sess = r.sess /\ q.call = r.call
           /\ q.out = r.out /\ q.remote = r.remote /\ q.offer = r.offer
           /\ q.restart = r.restart
<1>1. r.made \in Nat /\ r.made + 1 \in Nat
  BY DEF Controller
<1>2. Describes(r, isOffer) \in Controller
  BY <1>1 DEF Describes, Controller
<1>3. Describes(r, isOffer).made = r.made + 1 /\ Describes(r, isOffer).local = r.made + 1
  BY <1>1 DEF Describes, Controller
<1>4. LET q == Describes(r, isOffer) IN
      /\ q.phase = r.phase /\ q.jobs = r.jobs /\ q.sess = r.sess /\ q.call = r.call
      /\ q.out = r.out /\ q.remote = r.remote /\ q.offer = r.offer
      /\ q.restart = r.restart
  BY DEF Describes, Controller
<1> QED BY <1>2, <1>3, <1>4

(* offer() resolves: the call.offer is sent, or cannot be.                  *)
LEMMA OfferedTold ==
    ASSUME CallInv, ToldInv, NEW d \in Devices, NEW j \in dev[d].jobs, ~Late(j), Offered(d, j)
    PROVE  ToldInv'
<1> DEFINE t == Taken(d, j)
           q == Describes(t, TRUE)
           p == dev[Other(d)]
<1>1. /\ Keeps(dev[d], t, p) /\ Fits(t, p) /\ t \in Controller /\ t.made = dev[d].made
      /\ Copy(t, dev[d]) /\ t.phase = dev[d].phase /\ t.out /\ t.sess /\ dev[d] \in Controller
  BY SettlesTold, Told DEF Offered, Copy, Offering
<1>2. /\ q \in Controller /\ q.made = t.made + 1 /\ q.local = t.made + 1
      /\ q.phase = t.phase /\ q.jobs = t.jobs /\ q.sess = t.sess /\ q.call = t.call
      /\ q.out = t.out /\ q.remote = t.remote /\ q.offer = t.offer
      /\ q.restart = t.restart
  BY <1>1, DescribesTold
<1>3. CASE ~CanSend(d)
  <2>1. Does(d, Finish(q), <<>>)
    BY <1>3 DEF Offered
  <2> HIDE DEF q, t
  <2>2. dev[d].made <= q.made
    BY <1>1, <1>2 DEF Controller
  <2>3. Becoming(d, Finish(q))
    BY <1>2, <2>2, FinishTold
  <2> QED BY <2>1, <2>3, DoesTold, EmptySeq
<1>4. CASE CanSend(d)
  <2>1. /\ dev' = [dev EXCEPT ![d] = q]
        /\ net' \in Offers(net, d, q.local) \/ net' = net
    BY <1>4 DEF Offered
  <2> HIDE DEF q, t
  <2>2. InRole(q) /\ Holds(q, p) /\ Follows(t, q) /\ OfferOf(q, q.local)
    BY <1>1, <1>2 DEF Fits, InRole, Holds, Follows, OfferOf, Controller
  <2>3. Keeps(t, q, p)
    BY <1>2, <2>2 DEF Keeps, Fits
  <2>4. Keeps(dev[d], q, p)
    BY <1>1, <2>3, KeepsOn
  <2>5. Becoming(d, q) /\ Follows(dev[d], q)
    BY <2>4, KeepsBecoming DEF Keeps, p
  <2> DEFINE S == SaidTo(d, q)
             m == [net EXCEPT !.id = @ + 1, !.line = "ringing", !.from = d]
  <2>6. /\ MayCarry(S) /\ Carries(net, S) /\ S[Other(d)] = Truths(q) /\ net \in Network
        /\ Other(d) \in Devices
    BY <1>2, <2>5, ToldCarried, Told
  <2> HIDE DEF S
  <2>7. m \in Network /\ m.id \in Nat /\ m.down = net.down
    <3>1. net.id + 1 \in CallIds
      BY <2>6 DEF Network, CallIds
    <3> QED BY <2>6, <3>1 DEF Network, CallIds
  <2> HIDE DEF m
  <2>8. Carries(Push(net, d, Frame("error", 0, 0)), S)
    <3>1. Frame("error", 0, 0) \in Frames /\ Frame("error", 0, 0).type \in Plain
      BY FrameTyped DEF Frame, FrameTypes, Plain
    <3> QED BY <2>6, <3>1, PushCarries DEF MayCarry
  <2>9. Carries(Push(Push(m, d, Frame("ringing", m.id, 0)), Other(d),
                     Frame("incoming", m.id, q.local)), S)
    <3> DEFINE f == Frame("ringing", m.id, 0)
               g == Frame("incoming", m.id, q.local)
    <3>1. f \in Frames /\ f.type \in Plain
      BY <2>7, FrameTyped DEF Frame, FrameTypes, Plain
    <3>2. g \in Frames /\ g.type = "incoming" /\ g.sdp = q.local
      <4>1. q.local \in Nat /\ "incoming" \in FrameTypes
        BY <1>2 DEF Controller, FrameTypes
      <4> QED BY <2>7, <4>1, FrameTyped DEF Frame
    <3> HIDE DEF f, g
    <3>3. g \in S[Other(d)] /\ f \in S[d]
      BY <2>2, <2>6, <3>1, <3>2 DEF MayCarry, Truths, Truthful
    <3>4. Carries(m, S)
      BY <2>6, <2>7 DEF Carries
    <3>5. Carries(Push(m, d, f), S) /\ Push(m, d, f) \in Network
      BY <2>6, <2>7, <3>3, <3>4, PushCarries
    <3>6. Carries(Push(Push(m, d, f), Other(d), g), S)
      BY <2>6, <3>3, <3>5, PushCarries
    <3> QED BY <3>6 DEF f, g
  <2>10. Carries(net', S)
    BY <2>1, <2>6, <2>8, <2>9 DEF Offers, m
  <2> QED BY <2>1, <2>5, <2>10, CarriedTold DEF S
<1> QED BY <1>3, <1>4

(* answerTo() resolves: the call.answer is sent, or cannot be.              *)
LEMMA AnsweredTold ==
    ASSUME CallInv, ToldInv, NEW d \in Devices, NEW j \in dev[d].jobs, ~Late(j), Answered(d, j)
    PROVE  ToldInv'
<1> DEFINE t == Taken(d, j)
           b == Describes(t, FALSE)
           r == [b EXCEPT !.remote = j.sdp, !.pc = "checking", !.offer = 0]
           q == [r EXCEPT !.wait = FALSE, !.phase = "connecting"]
           p == dev[Other(d)]
<1>1. /\ Keeps(dev[d], t, p) /\ Fits(t, p) /\ t \in Controller /\ t.made = dev[d].made
      /\ ~t.out /\ t.sess /\ dev[d] \in Controller /\ OfferOf(p, j.sdp) /\ j.sdp \in Nat
  BY SettlesTold, Told DEF Answered, Copy, Offering
<1>2. /\ b \in Controller /\ b.made = t.made + 1 /\ b.local = t.made + 1
      /\ b.phase = t.phase /\ b.jobs = t.jobs /\ b.sess = t.sess /\ b.call = t.call
      /\ b.out = t.out /\ b.remote = t.remote /\ b.offer = t.offer
      /\ b.restart = t.restart
  BY <1>1, DescribesTold
<1>3. \/ ~CanSend(d) /\ Does(d, Finish(r), <<>>)
      \/ Does(d, FlushIce(q), <<Frame("answer", r.call, r.local)>>)
  BY DEF Answered
<1> HIDE DEF t, b
<1>4. /\ r \in Controller /\ r.made = t.made + 1 /\ r.local = t.made + 1
      /\ r.jobs = t.jobs /\ r.sess = t.sess /\ r.call = t.call
      /\ r.out = t.out /\ r.remote = j.sdp /\ r.offer = 0 /\ r.restart = t.restart
  BY <1>1, <1>2 DEF Controller
<1> HIDE DEF r
<1>5. /\ q \in Controller /\ q.made = t.made + 1 /\ q.local = t.made + 1
      /\ q.jobs = t.jobs /\ q.sess = t.sess /\ q.call = t.call
      /\ q.out = t.out /\ q.remote = j.sdp /\ q.offer = 0 /\ q.restart = t.restart
      /\ q.phase = "connecting"
  <2>1. "connecting" \in Phases
    BY DEF Phases
  <2> QED BY <1>4, <2>1 DEF Controller
<1> HIDE DEF q
<1>6. InRole(q) /\ Holds(q, p) /\ Follows(t, q) /\ AnswerOf(q, r.call, r.local)
  BY <1>1, <1>4, <1>5
     DEF Fits, InRole, Holds, Follows, OfferOf, AnswerOf, Controller, Answering, Offering
<1>7. Keeps(t, q, p)
  BY <1>5, <1>6 DEF Keeps, Fits
<1>8. Keeps(dev[d], q, p)
  BY <1>1, <1>7, KeepsOn
<1>9. CASE Does(d, Finish(r), <<>>)
  <2>1. dev[d].made <= r.made
    BY <1>1, <1>4 DEF Controller
  <2>2. Becoming(d, Finish(r))
    BY <1>4, <2>1, FinishTold
  <2> QED BY <1>9, <2>2, DoesTold, EmptySeq
<1>10. CASE Does(d, FlushIce(q), <<Frame("answer", r.call, r.local)>>)
  <2> DEFINE e == FlushIce(q)
             f == Frame("answer", r.call, r.local)
  <2>1. Keeps(q, e, p) /\ e \in Controller /\ Follows(q, e)
    BY <1>8, FlushKeeps DEF Keeps, Fits
  <2>2. f \in Frames /\ f.type = "answer" /\ f.call = r.call /\ f.sdp = r.local
    <3>1. r.call \in Nat /\ r.local \in Nat /\ "answer" \in FrameTypes
      BY <1>4 DEF Controller, CallIds, FrameTypes
    <3> QED BY <3>1, FrameTyped DEF Frame
  <2> HIDE DEF f, e
  <2>3. f \in Truths(q)
    BY <1>6, <2>2 DEF Truths, Truthful
  <2>4. f \in Truths(e)
    BY <1>5, <2>1, <2>3, TruthsStay
  <2>5. <<f>> \in Seq(Truths(e))
    BY <2>4
  <2>6. Becoming(d, e)
    <3>1. Keeps(dev[d], e, p)
      BY <1>1, <1>8, <2>1, KeepsOn
    <3> QED BY <3>1, KeepsBecoming DEF p
  <2> QED BY <1>10, <2>5, <2>6, DoesTold DEF e, f
<1> QED BY <1>3, <1>9, <1>10

(* The description of an answer, or of the answer of a restart, is applied. *)
LEMMA AppliesTold ==
    ASSUME NEW r, NEW p, Fits(r, p), NEW j, j.sdp \in Nat, r.out, r.sess,
           r.phase \notin {"idle", "dialing"}, AnswerOf(p, r.call, j.sdp)
    PROVE  Keeps(r, Applies(r, j), p)
<1> DEFINE q == [r EXCEPT !.remote = j.sdp, !.offered = FALSE, !.pc = "checking"]
<1>1. r \in Controller
  BY DEF Fits
<1>2. /\ q \in Controller /\ q.phase = r.phase /\ q.jobs = r.jobs /\ q.sess = r.sess
      /\ q.call = r.call /\ q.out = r.out /\ q.local = r.local /\ q.remote = j.sdp
      /\ q.made = r.made /\ q.offer = r.offer /\ q.restart = r.restart
  BY <1>1 DEF Controller
<1>3. Applies(r, j) = FlushIce(q)
  BY DEF Applies
<1> HIDE DEF q
<1>4. InRole(q) /\ Holds(q, p) /\ Follows(r, q)
  BY <1>1, <1>2 DEF Fits, InRole, Holds, Follows, Controller
<1>5. Keeps(r, q, p)
  BY <1>2, <1>4 DEF Keeps, Fits
<1>6. Keeps(q, FlushIce(q), p)
  BY <1>5, FlushKeeps DEF Keeps
<1> QED BY <1>1, <1>3, <1>5, <1>6, KeepsOn

(* applyAnswer() resolves, or rejects and hangs up.                         *)
LEMMA AppliedTold ==
    ASSUME CallInv, ToldInv, NEW d \in Devices, NEW j \in dev[d].jobs, ~Late(j), Applied(d, j)
    PROVE  ToldInv'
<1> DEFINE r == Taken(d, j)
           p == dev[Other(d)]
<1>1. /\ Keeps(dev[d], r, p) /\ Fits(r, p) /\ r \in Controller /\ r.made = dev[d].made
      /\ r.out /\ r.sess /\ dev[d] \in Controller /\ AnswerOf(p, r.call, j.sdp)
      /\ j.sdp \in Nat /\ r.phase # "dialing" /\ Busy(r)
  BY SettlesTold, Told DEF Applied, Copy, Offering, Answering
<1>2. Does(d, Applies(r, j), <<>>) \/ Does(d, Finish(r), Hangup(r))
  BY DEF Applied
<1> HIDE DEF r
<1>3. CASE Does(d, Applies(r, j), <<>>)
  <2>1. Keeps(r, Applies(r, j), p)
    BY <1>1, AppliesTold DEF Busy
  <2>2. Keeps(dev[d], Applies(r, j), p)
    BY <1>1, <2>1, KeepsOn
  <2> QED BY <1>3, <2>2, KeepsBecoming, DoesTold, EmptySeq
<1>4. CASE Does(d, Finish(r), Hangup(r))
  <2>1. dev[d].made <= r.made
    BY <1>1 DEF Controller
  <2>2. Becoming(d, Finish(r))
    BY <1>1, <2>1, FinishTold
  <2>3. Hangup(r) \in Seq(Truths(Finish(r)))
    <3> DEFINE q == Finish(r)
    <3>1. "hangup" \in Plain /\ r.call \in Nat
      BY <1>1 DEF Plain, FrameTypes, Controller, CallIds
    <3> HIDE DEF q
    <3>2. <<Frame("hangup", r.call, 0)>> \in Seq(Truths(q))
      BY <3>1, PlainTrue
    <3>3. <<>> \in Seq(Truths(q))
      BY EmptySeq
    <3>4. Hangup(r) \in Seq(Truths(q))
      BY <3>2, <3>3 DEF Hangup
    <3> QED BY <3>4 DEF q
  <2> QED BY <1>4, <2>2, <2>3, DoesTold
<1> QED BY <1>2, <1>3, <1>4

(* The answer of a restart is applied, or the recovery is retried.          *)
LEMMA RestartAppliedTold ==
    ASSUME CallInv, ToldInv, NEW d \in Devices, NEW j \in dev[d].jobs, ~Late(j),
           RestartApplied(d, j)
    PROVE  ToldInv'
<1> DEFINE r == Taken(d, j)
           p == dev[Other(d)]
           can == CanSend(d)
           a == Applies(r, j)
           q == [a EXCEPT !.restart = 0]
<1>1. /\ Keeps(dev[d], r, p) /\ Fits(r, p) /\ r \in Controller /\ can \in BOOLEAN
      /\ r.out /\ r.sess /\ dev[d] \in Controller /\ AnswerOf(p, r.call, j.sdp)
      /\ j.sdp \in Nat /\ r.phase # "dialing" /\ Busy(r)
  BY SettlesTold, Told DEF RestartApplied, Offering, Answering, CanSend
<1>2. Does(d, q, <<>>) \/ Does(d, RetryRecovery(can, r), RetryFrames(can, r))
  BY DEF RestartApplied
<1> HIDE DEF r, can, q
<1>3. CASE Does(d, q, <<>>)
  <2>1. Keeps(r, a, p)
    BY <1>1, AppliesTold DEF Busy
  <2> HIDE DEF a
  <2>2. a \in Controller /\ Fits(a, p)
    BY <2>1 DEF Keeps, Fits
  <2>3. q \in Controller /\ Copy(q, a)
    BY <2>2 DEF q, Controller, Copy
  <2>4. Keeps(a, q, p)
    BY <2>2, <2>3, CopyKeeps
  <2>5. Keeps(r, q, p)
    BY <1>1, <2>1, <2>4, KeepsOn
  <2>6. Keeps(dev[d], q, p)
    BY <1>1, <2>5, KeepsOn
  <2> QED BY <1>3, <2>6, KeepsBecoming, DoesTold, EmptySeq
<1>4. CASE Does(d, RetryRecovery(can, r), RetryFrames(can, r))
  <2> DEFINE e == RetryRecovery(can, r)
             fs == RetryFrames(can, r)
  <2>1. Keeps(r, e, p) /\ fs \in Seq(Truths(r))
    BY <1>1, RetryKeeps, FramesTrue
  <2> HIDE DEF e, fs
  <2>2. Keeps(dev[d], e, p)
    BY <1>1, <2>1, KeepsOn
  <2>3. fs \in Seq(Truths(e))
    <3>1. Truths(r) \subseteq Truths(e)
      BY <1>1, <2>1, TruthsStay DEF Keeps, Fits
    <3> QED BY <2>1, <3>1
  <2>4. Becoming(d, e)
    BY <2>2, KeepsBecoming DEF p
  <2> QED BY <1>4, <2>3, <2>4, DoesTold DEF e, fs
<1> QED BY <1>2, <1>3, <1>4

(* A restart is offered.                                                    *)
LEMMA RestartMadeTold ==
    ASSUME CallInv, ToldInv, NEW d \in Devices, NEW j \in dev[d].jobs, ~Late(j),
           RestartMade(d, j)
    PROVE  ToldInv'
<1> DEFINE t == Taken(d, j)
           r == Describes(t, TRUE)
           q == [r EXCEPT !.restart = r.local, !.inFlight = FALSE]
           f == Frame("restart_offer", r.call, r.local)
           p == dev[Other(d)]
<1>1. /\ Keeps(dev[d], t, p) /\ Fits(t, p) /\ t \in Controller
      /\ t.out /\ t.sess /\ dev[d] \in Controller /\ Busy(t)
  BY SettlesTold, Told DEF RestartMade, Offering
<1>2. /\ r \in Controller /\ r.made = t.made + 1 /\ r.local = t.made + 1
      /\ r.phase = t.phase /\ r.jobs = t.jobs /\ r.sess = t.sess /\ r.call = t.call
      /\ r.out = t.out /\ r.remote = t.remote /\ r.offer = t.offer
      /\ r.restart = t.restart
  BY <1>1, DescribesTold
<1>3. Does(d, q, <<f>>)
  BY DEF RestartMade
<1> HIDE DEF t, r
<1>4. f \in Frames /\ f.type = "restart_offer" /\ f.sdp = r.local /\ r.local \in Nat
  <2>1. r.call \in Nat /\ r.local \in Nat /\ "restart_offer" \in FrameTypes
    BY <1>2 DEF Controller, CallIds, FrameTypes
  <2> QED BY <2>1, FrameTyped DEF Frame
<1>5. /\ q \in Controller /\ q.made = t.made + 1 /\ q.local = t.made + 1
      /\ q.phase = t.phase /\ q.jobs = t.jobs /\ q.sess = t.sess /\ q.call = t.call
      /\ q.out = t.out /\ q.remote = t.remote /\ q.offer = t.offer
      /\ q.restart = t.made + 1
  BY <1>2, <1>4 DEF Controller
<1> HIDE DEF q, f
<1>6. InRole(q) /\ Holds(q, p) /\ Follows(t, q) /\ OfferOf(q, r.local)
  BY <1>1, <1>2, <1>5 DEF Fits, InRole, Holds, Follows, OfferOf, Controller, Busy
<1>7. Keeps(t, q, p)
  BY <1>5, <1>6 DEF Keeps, Fits
<1>8. Keeps(dev[d], q, p)
  BY <1>1, <1>7, KeepsOn
<1>9. f \in Truths(q)
  BY <1>4, <1>6 DEF Truths, Truthful
<1>10. <<f>> \in Seq(Truths(q)) /\ Becoming(d, q)
  BY <1>8, <1>9, KeepsBecoming DEF p
<1> QED BY <1>3, <1>10, DoesTold

(* A restart is answered.                                                   *)
LEMMA RestartAnsweredTold ==
    ASSUME CallInv, ToldInv, NEW d \in Devices, NEW j \in dev[d].jobs, ~Late(j),
           RestartAnswered(d, j)
    PROVE  ToldInv'
<1> DEFINE t == Taken(d, j)
           b == Describes(t, FALSE)
           q == [b EXCEPT !.remote = j.sdp, !.pc = "checking"]
           e == FlushIce(q)
           f == Frame("restart_answer", q.call, q.local)
           p == dev[Other(d)]
<1>1. /\ Keeps(dev[d], t, p) /\ Fits(t, p) /\ t \in Controller
      /\ ~t.out /\ t.sess /\ dev[d] \in Controller /\ OfferOf(p, j.sdp) /\ j.sdp \in Nat
  BY SettlesTold, Told DEF RestartAnswered, Offering
<1>2. /\ b \in Controller /\ b.made = t.made + 1 /\ b.local = t.made + 1
      /\ b.phase = t.phase /\ b.jobs = t.jobs /\ b.sess = t.sess /\ b.call = t.call
      /\ b.out = t.out /\ b.remote = t.remote /\ b.offer = t.offer
      /\ b.restart = t.restart
  BY <1>1, DescribesTold
<1>3. Does(d, e, <<f>>)
  BY DEF RestartAnswered
<1> HIDE DEF t, b
<1>4. /\ q \in Controller /\ q.made = t.made + 1 /\ q.local = t.made + 1
      /\ q.phase = t.phase /\ q.jobs = t.jobs /\ q.sess = t.sess /\ q.call = t.call
      /\ q.out = t.out /\ q.remote = j.sdp /\ q.offer = t.offer /\ q.restart = t.restart
  BY <1>1, <1>2 DEF Controller
<1> HIDE DEF q
<1>5. InRole(q) /\ Holds(q, p) /\ Follows(t, q) /\ AnswerOf(q, q.call, q.local)
  BY <1>1, <1>4
     DEF Fits, InRole, Holds, Follows, OfferOf, AnswerOf, Controller, Answering, Offering
<1>6. Keeps(t, q, p)
  BY <1>4, <1>5 DEF Keeps, Fits
<1>7. Keeps(dev[d], q, p) /\ Fits(q, p)
  BY <1>1, <1>6, KeepsOn DEF Keeps
<1>8. Keeps(q, e, p) /\ e \in Controller /\ Follows(q, e)
  BY <1>7, FlushKeeps DEF Keeps, Fits
<1>9. f \in Frames /\ f.type = "restart_answer" /\ f.call = q.call /\ f.sdp = q.local
  <2>1. q.call \in Nat /\ q.local \in Nat /\ "restart_answer" \in FrameTypes
    BY <1>4 DEF Controller, CallIds, FrameTypes
  <2> QED BY <2>1, FrameTyped DEF Frame
<1> HIDE DEF f, e
<1>10. f \in Truths(q)
  BY <1>5, <1>9 DEF Truths, Truthful
<1>11. f \in Truths(e)
  BY <1>4, <1>8, <1>10, TruthsStay
<1>12. <<f>> \in Seq(Truths(e))
  BY <1>11
<1>13. Keeps(dev[d], e, p)
  BY <1>1, <1>7, <1>8, KeepsOn
<1>14. Becoming(d, e)
  BY <1>13, KeepsBecoming DEF p
<1> QED BY <1>3, <1>12, <1>14, DoesTold

(* Any promise.                                                             *)
LEMMA ContinuesTold ==
    ASSUME CallInv, ToldInv, NEW d \in Devices, Continues(d)
    PROVE  ToldInv'
<1>1. PICK j \in dev[d].jobs :
         \/ ~Late(j) /\ Denied(d, j)
         \/ Returns(d, j)
         \/ /\ ~Late(j)
            /\ \/ Opened(d, j) \/ Offered(d, j) \/ Answered(d, j)
               \/ Applied(d, j) \/ RestartApplied(d, j)
               \/ RestartMade(d, j) \/ RestartAnswered(d, j)
  BY DEF Continues
<1> QED BY <1>1, DeniedTold, ReturnsTold, OpenedTold, OfferedTold, AnsweredTold, AppliedTold,
           RestartAppliedTold, RestartMadeTold, RestartAnsweredTold

-----------------------------------------------------------------------------
(* onFrame().                                                               *)

(* What holds when d takes f: r is its controller when the switch begins.   *)
LEMMA TakesTold ==
    ASSUME CallInv, ToldInv, NEW d \in Devices, NEW f, f = Head(net.down[d]),
           net.down[d] # <<>>
    PROVE  LET r == At(d, f)
               p == dev[Other(d)] IN
           /\ f \in Frames /\ Truthful(f, p) /\ f.call \in Nat /\ f.sdp \in Nat
           /\ Keeps(dev[d], r, p) /\ Fits(r, p) /\ r \in Controller /\ Copy(r, dev[d])
           /\ r.phase = dev[d].phase
<1> DEFINE r == At(d, f)
           p == dev[Other(d)]
<1>1. /\ net.down[d] \in Seq(Truths(p)) /\ Fits(dev[d], p) /\ dev[d] \in Controller
  BY Told
<1>2. f \in Truths(p)
  <2> HIDE DEF p
  <2> QED BY <1>1, HeadTailProperties
<1>3. f \in Frames /\ Truthful(f, p) /\ f.call \in Nat /\ f.sdp \in Nat
  BY <1>2 DEF Truths, Frames, CallIds
<1>4. Keeps(dev[d], dev[d], p) /\ Copy(dev[d], dev[d])
  <2>1. Copy(dev[d], dev[d])
    BY DEF Copy
  <2> QED BY <1>1, <2>1, CopyKeeps
<1>5. /\ Keeps(dev[d], FlushLocal(TRUE, dev[d]), p) /\ Copy(FlushLocal(TRUE, dev[d]), dev[d])
      /\ FlushLocal(TRUE, dev[d]).phase = dev[d].phase
  BY <1>1, FlushKeeps
<1>6. Keeps(dev[d], r, p) /\ Copy(r, dev[d]) /\ r.phase = dev[d].phase
  BY <1>4, <1>5 DEF At
<1> HIDE DEF r, p
<1> QED BY <1>3, <1>6 DEF Keeps, Fits, r, p

(* An answer to the frame that keeps what was told.                         *)
LEMMA AnswersTold ==
    ASSUME CallInv, ToldInv, NEW d \in Devices, NEW f, f = Head(net.down[d]),
           net.down[d] # <<>>, NEW q, Keeps(At(d, f), q, dev[Other(d)]),
           NEW fs \in Seq(Truths(At(d, f))), Handles(d, f, q, fs)
    PROVE  ToldInv'
<1> DEFINE r == At(d, f)
           p == dev[Other(d)]
<1>1. Keeps(dev[d], r, p) /\ r \in Controller /\ dev[d] \in Controller
  BY TakesTold, Told
<1>2. fs \in Seq(Truths(q))
  <2> HIDE DEF r, p
  <2>1. Truths(r) \subseteq Truths(q)
    BY <1>1, TruthsStay DEF Keeps, Fits, r, p
  <2> QED BY <2>1 DEF r
<1>3. Keeps(dev[d], q, p)
  <2> HIDE DEF r, p
  <2> QED BY <1>1, KeepsOn DEF r, p
<1> QED BY <1>2, <1>3, KeepsBecoming, HandlesTold

(* Nothing is done about the frame.                                         *)
LEMMA IgnoredTold ==
    ASSUME CallInv, ToldInv, NEW d \in Devices, NEW f, f = Head(net.down[d]),
           net.down[d] # <<>>, NEW fs \in Seq(Truths(At(d, f))), Handles(d, f, At(d, f), fs)
    PROVE  ToldInv'
<1> DEFINE r == At(d, f)
           p == dev[Other(d)]
<1>1. Fits(r, p) /\ r \in Controller
  BY TakesTold
<1> HIDE DEF r, p
<1>2. Keeps(r, r, p)
  <2>1. Copy(r, r)
    BY DEF Copy
  <2> QED BY <1>1, <2>1, CopyKeeps
<1> QED BY <1>2, AnswersTold DEF r, p

(* The call a dialing controller is told of has described nothing else yet. *)
LEMMA OnRingingTold ==
    ASSUME CallInv, ToldInv, NEW d \in Devices, NEW f, f = Head(net.down[d]),
           net.down[d] # <<>>, OnRinging(d, f)
    PROVE  ToldInv'
<1> DEFINE r == At(d, f)
           p == dev[Other(d)]
           s == [r EXCEPT !.phase = "ringing", !.call = f.call]
           e == FlushLocal(TRUE, s)
           q == FlushIce(e)
<1>1. Fits(r, p) /\ r \in Controller /\ f.call \in Nat
  BY TakesTold
<1>2. CASE r.phase # "dialing"
  BY <1>2, IgnoredTold, EmptySeq DEF OnRinging
<1>3. CASE r.phase = "dialing"
  <2>1. Handles(d, f, q, LocalIce(TRUE, s))
    BY <1>3 DEF OnRinging
  <2>2. /\ s \in Controller /\ s.phase = "ringing" /\ s.jobs = r.jobs /\ s.sess = r.sess
        /\ s.out = r.out /\ s.local = r.local /\ s.remote = r.remote
        /\ s.made = r.made /\ s.offer = r.offer /\ s.restart = r.restart
    <3>1. "ringing" \in Phases /\ f.call \in CallIds
      BY <1>1 DEF Phases, CallIds
    <3> HIDE DEF r
    <3> QED BY <1>1, <3>1 DEF Controller
  <2> HIDE DEF s, r, p
  <2>3. InRole(s) /\ Holds(s, p) /\ Follows(r, s)
    BY <1>1, <1>3, <2>2 DEF Fits, InRole, Holds, Follows, Controller, Answering, Offering
  <2>4. Keeps(r, s, p)
    BY <2>2, <2>3 DEF Keeps, Fits
  <2>5. Keeps(s, e, p)
    BY <2>4, FlushKeeps DEF Keeps
  <2> HIDE DEF e
  <2>6. Keeps(e, q, p)
    BY <2>5, FlushKeeps DEF Keeps
  <2> HIDE DEF q
  <2>7. Keeps(r, q, p)
    <3>1. Keeps(r, e, p)
      BY <1>1, <2>4, <2>5, KeepsOn
    <3> QED BY <1>1, <2>6, <3>1, KeepsOn
  <2>8. LocalIce(TRUE, s) \in Seq(Truths(r))
    <3>1. r.call \in Nat /\ s.call \in Nat /\ "ice" \in Plain
      BY <1>1, <2>2 DEF Controller, CallIds, Plain, FrameTypes
    <3> DEFINE i == Frame("ice", s.call, 0)
    <3>2. <<i>> \in Seq(Truths(r)) /\ <<>> \in Seq(Truths(r))
      BY <3>1, PlainTrue, EmptySeq
    <3>3. LocalIce(TRUE, s) = IF Flushes(TRUE, s) THEN <<i>> ELSE <<>>
      BY DEF LocalIce
    <3> HIDE DEF i
    <3> QED BY <3>2, <3>3
  <2> QED BY <2>1, <2>7, <2>8, AnswersTold DEF r, p
<1> QED BY <1>2, <1>3

(* A call comes in: busy, or a new one, of which there is the offer.        *)
LEMMA OnIncomingTold ==
    ASSUME CallInv, ToldInv, NEW d \in Devices, NEW f, f = Head(net.down[d]),
           net.down[d] # <<>>, OnIncoming(d, f)
    PROVE  ToldInv'
<1> DEFINE r == dev[d]
           p == dev[Other(d)]
           b == Bump(r)
           q == [b EXCEPT !.phase = "incoming", !.call = f.call, !.out = FALSE,
                          !.offer = f.sdp, !.mine = "none", !.theirs = "none"]
<1>1. Fits(r, p) /\ r \in Controller /\ f.call \in Nat /\ f.sdp \in Nat /\ Truthful(f, p)
  BY TakesTold, Told
<1>2. CASE Busy(r)
  <2>1. Handles(d, f, At(d, f), <<Frame("reject", f.call, 0)>>)
    BY <1>2 DEF OnIncoming
  <2>2. <<Frame("reject", f.call, 0)>> \in Seq(Truths(At(d, f)))
    <3>1. "reject" \in Plain
      BY DEF Plain, FrameTypes
    <3> QED BY <1>1, <3>1, PlainTrue
  <2> QED BY <2>1, <2>2, IgnoredTold
<1>3. CASE ~Busy(r)
  <2>1. Handles(d, f, q, <<>>) /\ ~r.sess /\ r.phase = "idle" /\ OfferOf(p, f.sdp)
    BY <1>1, <1>3, Now DEF OnIncoming, Good, Sound, Truthful, Busy
  <2>2. b \in Controller /\ (\A k \in b.jobs : k.late) /\ b = [r EXCEPT !.jobs = b.jobs]
    BY <1>1, BumpLate
  <2> HIDE DEF r, p, b
  <2>3. /\ q \in Controller /\ q.phase = "incoming" /\ q.jobs = b.jobs /\ q.sess = r.sess
        /\ ~q.out /\ q.local = r.local /\ q.remote = r.remote
        /\ q.made = r.made /\ q.offer = f.sdp /\ q.restart = r.restart
    <3>1. "incoming" \in Phases /\ f.call \in CallIds
      BY <1>1 DEF Phases, CallIds
    <3>2. /\ b \in Controller /\ b.sess = r.sess /\ b.local = r.local
          /\ b.remote = r.remote /\ b.made = r.made /\ b.restart = r.restart
      BY <1>1, <2>2 DEF Controller
    <3>3. q \in Controller
      BY ONLY <1>1, <3>1, <3>2 DEF Controller
    <3>4. /\ q.phase = "incoming" /\ q.jobs = b.jobs /\ q.sess = b.sess /\ ~q.out
          /\ q.local = b.local /\ q.remote = b.remote
      BY ONLY <3>2 DEF Controller
    <3>5. q.made = b.made /\ q.offer = f.sdp /\ q.restart = b.restart
      BY ONLY <3>2 DEF Controller
    <3> QED BY <3>2, <3>3, <3>4, <3>5
  <2> HIDE DEF q
  <2>4. InRole(q) /\ Holds(q, p) /\ Follows(r, q)
    BY <1>1, <2>1, <2>2, <2>3 DEF Fits, InRole, Holds, Follows, Late, Controller
  <2>5. Keeps(r, q, p)
    BY <2>3, <2>4 DEF Keeps, Fits
  <2>6. Becoming(d, q)
    BY <2>5, KeepsBecoming DEF r, p
  <2> QED BY <2>1, <2>6, HandlesTold, EmptySeq
<1> QED BY <1>2, <1>3

(* The answer to its call.                                                  *)
LEMMA OnAnswerTold ==
    ASSUME CallInv, ToldInv, NEW d \in Devices, NEW f, f = Head(net.down[d]),
           net.down[d] # <<>>, OnAnswer(d, f)
    PROVE  ToldInv'
<1> DEFINE r == At(d, f)
           p == dev[Other(d)]
           s == [r EXCEPT !.phase = "connecting"]
           q == Starts(s, "apply", f.sdp)
<1>1. /\ Fits(r, p) /\ r \in Controller /\ f.sdp \in Nat /\ Truthful(f, p)
      /\ f.type = "answer"
  BY TakesTold DEF OnAnswer
<1>2. CASE Matches(r, f) /\ r.out /\ r.sess
  <2>1. Handles(d, f, q, <<>>) /\ r.out /\ AnswerOf(p, r.call, f.sdp)
    BY <1>1, <1>2 DEF OnAnswer, Matches, Truthful
  <2> HIDE DEF r, p
  <2>2. s \in Controller /\ Copy(s, r) /\ s.phase = "connecting" /\ s.out /\ s.call = r.call
    BY <1>1, <2>1 DEF Controller, Copy, Phases
  <2> HIDE DEF s
  <2>3. Keeps(r, s, p)
    BY <1>1, <2>2, CopyKeeps
  <2>4. Keeps(s, q, p)
    <3>1. "apply" \in Steps /\ MayStart(s, "apply", f.sdp, p)
      BY <2>1, <2>2 DEF Steps, MayStart, Answering, Offering
    <3> QED BY <1>1, <2>3, <3>1, StartsKeeps DEF Keeps
  <2>5. Keeps(r, q, p)
    BY <1>1, <2>3, <2>4, KeepsOn
  <2> QED BY <2>1, <2>5, AnswersTold, EmptySeq DEF r, p
<1>3. CASE ~(Matches(r, f) /\ r.out /\ r.sess)
  BY <1>3, IgnoredTold, EmptySeq DEF OnAnswer
<1> QED BY <1>2, <1>3

(* A candidate.                                                             *)
LEMMA OnIceTold ==
    ASSUME CallInv, ToldInv, NEW d \in Devices, NEW f, f = Head(net.down[d]),
           net.down[d] # <<>>, OnIce(d, f)
    PROVE  ToldInv'
<1> DEFINE r == At(d, f)
           p == dev[Other(d)]
           t == IF r.sess THEN "added" ELSE "queued"
           q == [r EXCEPT !.theirs = t]
<1>1. Fits(r, p) /\ r \in Controller
  BY TakesTold
<1>2. Handles(d, f, q, <<>>) \/ Handles(d, f, r, <<>>)
  BY DEF OnIce
<1> HIDE DEF r, p
<1>3. q \in Controller /\ Copy(q, r)
  <2>1. t \in {"none", "queued", "added"}
    OBVIOUS
  <2> HIDE DEF t
  <2> QED BY <1>1, <2>1 DEF Controller, Copy
<1>4. Keeps(r, q, p)
  BY <1>1, <1>3, CopyKeeps
<1> HIDE DEF q
<1> QED BY <1>2, <1>4, AnswersTold, IgnoredTold, EmptySeq DEF r, p

(* A restart is requested, offered or answered.                             *)
LEMMA OnRestartTold ==
    ASSUME CallInv, ToldInv, NEW d \in Devices, NEW f, f = Head(net.down[d]),
           net.down[d] # <<>>,
           OnRestartRequest(d, f) \/ OnRestartOffer(d, f) \/ OnRestartAnswer(d, f)
    PROVE  ToldInv'
<1> DEFINE r == At(d, f)
           p == dev[Other(d)]
<1>1. Fits(r, p) /\ r \in Controller /\ f.sdp \in Nat /\ Truthful(f, p)
  BY TakesTold
<1>2. CASE Handles(d, f, r, <<>>)
  BY <1>2, IgnoredTold, EmptySeq
<1>3. CASE OnRestartRequest(d, f) /\ ~Handles(d, f, r, <<>>)
  <2>1. Handles(d, f, BeginRecovery(r, TRUE), RecoveryFrames(r))
    BY <1>3 DEF OnRestartRequest
  <2> HIDE DEF r, p
  <2>2. Keeps(r, BeginRecovery(r, TRUE), p) /\ RecoveryFrames(r) \in Seq(Truths(r))
    BY <1>1, RecoveryKeeps, FramesTrue
  <2> QED BY <2>1, <2>2, AnswersTold DEF r, p
<1>4. CASE OnRestartOffer(d, f) /\ ~Handles(d, f, r, <<>>)
  <2> DEFINE s == BeginRecovery(r, FALSE)
             q == Starts(s, "answerRestart", f.sdp)
  <2>1. Handles(d, f, q, <<>>) /\ ~r.out /\ OfferOf(p, f.sdp)
    BY <1>1, <1>4 DEF OnRestartOffer, Truthful
  <2> HIDE DEF r, p
  <2>2. Keeps(r, s, p) /\ s.out = r.out
    BY <1>1, RecoveryKeeps
  <2> HIDE DEF s
  <2>3. Keeps(s, q, p)
    <3>1. "answerRestart" \in Steps /\ MayStart(s, "answerRestart", f.sdp, p)
      BY <2>1, <2>2 DEF Steps, MayStart, Answering, Offering
    <3> QED BY <1>1, <2>2, <3>1, StartsKeeps DEF Keeps
  <2>4. Keeps(r, q, p)
    BY <1>1, <2>2, <2>3, KeepsOn
  <2> QED BY <2>1, <2>4, AnswersTold, EmptySeq DEF r, p
<1>5. CASE OnRestartAnswer(d, f) /\ ~Handles(d, f, r, <<>>)
  <2> DEFINE q == Starts(r, "applyRestart", f.sdp)
  <2>1. Handles(d, f, q, <<>>) /\ r.out /\ r.call # 0 /\ AnswerOf(p, r.call, f.sdp)
    BY <1>1, <1>5 DEF OnRestartAnswer, Truthful, Matches
  <2> HIDE DEF r, p
  <2>2. Keeps(r, q, p)
    <3>1. "applyRestart" \in Steps /\ MayStart(r, "applyRestart", f.sdp, p)
      BY <1>1, <2>1 DEF Steps, MayStart, Answering, Offering, Fits, InRole
    <3> QED BY <1>1, <3>1, StartsKeeps
  <2> QED BY <2>1, <2>2, AnswersTold, EmptySeq DEF r, p
<1> QED BY <1>2, <1>3, <1>4, <1>5

(* A call ends, or is refused.                                              *)
LEMMA OnEndTold ==
    ASSUME CallInv, ToldInv, NEW d \in Devices, NEW f, f = Head(net.down[d]),
           net.down[d] # <<>>, OnEnd(d, f) \/ OnError(d, f)
    PROVE  ToldInv'
<1>1. dev[d] \in Controller /\ dev[d].made \in Nat /\ Fits(dev[d], dev[Other(d)])
  BY Told DEF Controller
<1>2. Becoming(d, Finish(dev[d]))
  <2>1. dev[d].made <= dev[d].made
    BY <1>1
  <2> QED BY <1>1, <2>1, FinishTold
<1>3. Becoming(d, dev[d])
  <2>1. Copy(dev[d], dev[d])
    BY DEF Copy
  <2> QED BY <1>1, <2>1, CopyKeeps, KeepsBecoming
<1>4. Handles(d, f, Finish(dev[d]), <<>>) \/ Handles(d, f, dev[d], <<>>)
  BY DEF OnEnd, OnError
<1> QED BY <1>2, <1>3, <1>4, HandlesTold, EmptySeq

(* Any frame.                                                               *)
LEMMA OnFrameTold ==
    ASSUME CallInv, ToldInv, NEW d \in Devices, OnFrame(d)
    PROVE  ToldInv'
<1> DEFINE f == Head(net.down[d])
<1>1. net.down[d] # <<>>
  BY DEF OnFrame
<1>2. \/ OnRinging(d, f) \/ OnIncoming(d, f) \/ OnAnswer(d, f) \/ OnIce(d, f)
      \/ OnRestartRequest(d, f) \/ OnRestartOffer(d, f) \/ OnRestartAnswer(d, f)
      \/ OnEnd(d, f) \/ OnError(d, f)
  BY DEF OnFrame
<1>3. f = Head(net.down[d])
  OBVIOUS
<1> HIDE DEF f
<1> QED BY <1>1, <1>2, <1>3, OnRingingTold, OnIncomingTold, OnAnswerTold, OnIceTold,
           OnRestartTold, OnEndTold

-----------------------------------------------------------------------------
(* Sockets, timers and the peer connection.                                 *)

(* onSignalState().                                                         *)
LEMMA SignalsTold ==
    ASSUME CallInv, ToldInv, NEW d \in Devices, Signals(d)
    PROVE  ToldInv'
<1> DEFINE r == dev[d]
           p == dev[Other(d)]
<1>1. Fits(r, p) /\ r \in Controller /\ r.made \in Nat /\ net \in Network
  BY Told DEF Controller
<1>2. Keeps(r, r, p)
  <2>1. Copy(r, r)
    BY DEF Copy
  <2> HIDE DEF r, p
  <2> QED BY <1>1, <2>1, CopyKeeps
<1>3. CASE SocketLost(d)
  <2> DEFINE q == IF r.phase = "dialing" /\ r.call = 0 /\ ~r.wait THEN Finish(r) ELSE r
  <2>1. dev' = [dev EXCEPT ![d] = q]
    BY <1>3 DEF SocketLost
  <2>2. net'.down = net.down
    BY <1>1, <1>3 DEF SocketLost, Network
  <2>3. Becoming(d, Finish(r)) /\ Becoming(d, r)
    <3>1. r.made <= r.made
      BY <1>1
    <3> QED BY <1>1, <1>2, <3>1, FinishTold, KeepsBecoming
  <2>4. Becoming(d, q)
    BY <2>3
  <2> HIDE DEF q, r, p
  <2>5. Carries(net', SaidTo(d, q))
    <3>1. Carries(net, SaidTo(d, q))
      BY <2>4, ToldCarried DEF Becoming, Fits
    <3> QED BY <2>2, <3>1 DEF Carries
  <2> QED BY <2>1, <2>4, <2>5, CarriedTold
<1>4. CASE SocketOpens(d)
  <2> DEFINE q == IF Busy(r) THEN FlushLocal(TRUE, r) ELSE r
             e == RetryRecovery(TRUE, q)
             fs == Resume(r) \o RetryFrames(TRUE, q)
             m == [net EXCEPT !.sock[d] = "open"]
             S == SaidTo(d, e)
  <2>1. dev' = [dev EXCEPT ![d] = e] /\ net' = Sent(m, d, fs)
    BY <1>4 DEF SocketOpens
  <2>2. m \in Network /\ m.down = net.down
    <3>1. [net.sock EXCEPT ![d] = "open"] \in [Devices -> {"open", "dead", "down"}]
      BY <1>1 DEF Network
    <3>2. m = [net EXCEPT !.sock = [net.sock EXCEPT ![d] = "open"]]
      OBVIOUS
    <3> QED BY <1>1, <3>1, <3>2 DEF Network
  <2> HIDE DEF m, r, p
  <2>3. Keeps(r, q, p)
    BY <1>1, <1>2, FlushKeeps
  <2> HIDE DEF q
  <2>4. Fits(q, p) /\ q \in Controller
    BY <2>3 DEF Keeps, Fits
  <2>5. Keeps(q, e, p) /\ RetryFrames(TRUE, q) \in Seq(Truths(q))
    BY <2>4, RetryKeeps, FramesTrue
  <2>6. Resume(r) \in Seq(Truths(r))
    BY <1>1, FramesTrue
  <2> HIDE DEF e
  <2>7. Keeps(r, e, p) /\ e \in Controller
    BY <1>1, <2>3, <2>5, KeepsOn DEF Keeps, Fits
  <2>8. fs \in Seq(Truths(e))
    <3>1. Truths(r) \subseteq Truths(e) /\ Truths(q) \subseteq Truths(e)
      BY <1>1, <2>4, <2>5, <2>7, TruthsStay DEF Keeps
    <3> DEFINE a == Resume(r)
               b == RetryFrames(TRUE, q)
    <3> HIDE DEF a, b
    <3>2. a \in Seq(Truths(r)) /\ b \in Seq(Truths(q))
      BY <2>5, <2>6 DEF a, b
    <3>3. a \in Seq(Truths(e)) /\ b \in Seq(Truths(e))
      BY <3>1, <3>2
    <3>4. a \o b \in Seq(Truths(e))
      BY <3>3, ConcatProperties
    <3> QED BY <3>4 DEF a, b
  <2> HIDE DEF fs
  <2>9. Becoming(d, e)
    BY <2>7, KeepsBecoming DEF r, p
  <2>10. /\ MayCarry(S) /\ Carries(net, S) /\ S[Other(d)] = Truths(e)
    BY <2>7, <2>9, ToldCarried DEF Becoming
  <2> HIDE DEF S
  <2>11. Carries(m, S)
    BY <2>2, <2>10 DEF Carries
  <2>12. Carries(net', S)
    BY <2>1, <2>2, <2>8, <2>10, <2>11, SentCarries
  <2> QED BY <2>1, <2>9, <2>12, CarriedTold DEF S
<1> QED BY <1>3, <1>4 DEF Signals

(* A controller that finishes, when its call is over for everyone.          *)
LEMMA HangsUpTold ==
    ASSUME CallInv, ToldInv, NEW d \in Devices, NEW r \in Controller,
           r.made = dev[d].made, Does(d, Finish(r), Hangup(r))
    PROVE  ToldInv'
<1>1. dev[d].made <= r.made /\ r.call \in Nat
  BY Told DEF Controller, CallIds
<1>2. Becoming(d, Finish(r))
  BY <1>1, FinishTold
<1> DEFINE q == Finish(r)
<1>3. Hangup(r) \in Seq(Truths(q))
  <2>1. "hangup" \in Plain
    BY DEF Plain, FrameTypes
  <2> HIDE DEF q
  <2>2. <<Frame("hangup", r.call, 0)>> \in Seq(Truths(q)) /\ <<>> \in Seq(Truths(q))
    BY <1>1, <2>1, PlainTrue, EmptySeq
  <2> QED BY <2>2 DEF Hangup
<1> HIDE DEF q
<1> QED BY <1>2, <1>3, DoesTold DEF q

(* A controller of which nothing that was told has changed.                 *)
LEMMA CopyTold ==
    ASSUME CallInv, ToldInv, NEW d \in Devices, NEW r \in Controller, Copy(r, dev[d])
    PROVE  /\ Keeps(dev[d], r, dev[Other(d)]) /\ Fits(r, dev[Other(d)])
           /\ Becoming(d, r) /\ r.made = dev[d].made
<1>1. Keeps(dev[d], r, dev[Other(d)])
  BY Told, CopyKeeps
<1> QED BY <1>1, KeepsBecoming DEF Keeps, Copy

(* A step from there with the frames of the controller it leads from.       *)
LEMMA OnwardTold ==
    ASSUME CallInv, ToldInv, NEW d \in Devices, NEW r \in Controller, Copy(r, dev[d]),
           NEW q, Keeps(r, q, dev[Other(d)]), NEW fs \in Seq(Truths(r)), Does(d, q, fs)
    PROVE  ToldInv'
<1>1. Keeps(dev[d], r, dev[Other(d)]) /\ dev[d] \in Controller
  BY CopyTold, Told
<1>2. Keeps(dev[d], q, dev[Other(d)])
  BY <1>1, KeepsOn
<1>3. fs \in Seq(Truths(q))
  <2>1. Truths(r) \subseteq Truths(q)
    BY TruthsStay DEF Keeps, Fits
  <2> QED BY <2>1
<1> QED BY <1>2, <1>3, KeepsBecoming, DoesTold

(* The timers of the recovery.                                              *)
LEMMA TimerTold ==
    ASSUME CallInv, ToldInv, NEW d \in Devices, RetryTimer(d) \/ Deadline(d)
    PROVE  ToldInv'
<1>1. dev[d] \in Controller
  BY Told
<1>2. CASE RetryTimer(d)
  <2> DEFINE r == [dev[d] EXCEPT !.retry = FALSE]
             can == CanSend(d)
  <2>1. r \in Controller /\ Copy(r, dev[d])
    BY <1>1 DEF Controller, Copy
  <2>2. Does(d, RetryRecovery(can, r), RetryFrames(can, r)) /\ can \in BOOLEAN
    BY <1>2 DEF RetryTimer, CanSend
  <2> HIDE DEF r, can
  <2>3. Fits(r, dev[Other(d)])
    BY <2>1, CopyTold
  <2>4. /\ Keeps(r, RetryRecovery(can, r), dev[Other(d)])
        /\ RetryFrames(can, r) \in Seq(Truths(r))
    BY <2>2, <2>3, RetryKeeps, FramesTrue
  <2> QED BY <2>1, <2>2, <2>4, OnwardTold
<1>3. CASE Deadline(d)
  <2> DEFINE r == [dev[d] EXCEPT !.deadline = FALSE]
  <2>1. r \in Controller /\ Copy(r, dev[d])
    BY <1>1 DEF Controller, Copy
  <2>2. Does(d, Finish(r), Hangup(r)) \/ Does(d, r, <<>>)
    BY <1>3 DEF Deadline
  <2> HIDE DEF r
  <2>3. Becoming(d, r) /\ r.made = dev[d].made
    BY <2>1, CopyTold
  <2> QED BY <2>1, <2>2, <2>3, HangsUpTold, DoesTold, EmptySeq
<1> QED BY <1>2, <1>3

(* A local candidate is found.                                              *)
LEMMA GatherTold ==
    ASSUME CallInv, ToldInv, NEW d \in Devices, Gather(d)
    PROVE  ToldInv'
<1> DEFINE r == [dev[d] EXCEPT !.mine = "held"]
           can == CanSend(d)
<1>1. dev[d] \in Controller
  BY Told
<1>2. r \in Controller /\ Copy(r, dev[d])
  BY <1>1 DEF Controller, Copy
<1>3. Does(d, FlushLocal(can, r), LocalIce(can, r)) /\ can \in BOOLEAN
  BY DEF Gather, CanSend
<1> HIDE DEF r, can
<1>4. Fits(r, dev[Other(d)])
  BY <1>2, CopyTold
<1>5. Keeps(r, FlushLocal(can, r), dev[Other(d)]) /\ LocalIce(can, r) \in Seq(Truths(r))
  BY <1>3, <1>4, FlushKeeps, FramesTrue
<1> QED BY <1>2, <1>3, <1>5, OnwardTold

(* Media flow: the two have each other's descriptions, so they are in the   *)
(* same call.                                                               *)
LEMMA PathUpTold ==
    ASSUME CallInv, ToldInv, NEW d \in Devices, PathUp(d)
    PROVE  ToldInv'
<1> DEFINE r == dev[d]
           p == dev[Other(d)]
           c == ClearRecovery(r)
           q == [c EXCEPT !.pc = "up", !.phase = "active", !.ever = TRUE]
<1>1. /\ Fits(r, p) /\ r \in Controller /\ r.call = p.call /\ Busy(r)
      /\ Does(d, q, <<>>)
  BY Told, MatchedSame DEF PathUp
<1> HIDE DEF r, p
<1>2. c \in Controller /\ Copy(c, r)
  BY <1>1 DEF ClearRecovery, Controller, Copy
<1>3. Fits(c, p) /\ Follows(r, c)
  BY <1>1, <1>2, CopyKeeps DEF Keeps
<1> HIDE DEF c
<1>4. /\ q \in Controller /\ q.phase = "active" /\ q.jobs = c.jobs /\ q.sess = c.sess
      /\ q.call = c.call /\ q.out = c.out /\ q.local = c.local /\ q.remote = c.remote
      /\ q.made = c.made /\ q.offer = c.offer /\ q.restart = c.restart
  BY <1>2 DEF Controller, Phases
<1> HIDE DEF q
<1>5. InRole(q) /\ Holds(q, p) /\ Follows(r, q)
  BY <1>3, <1>4 DEF Fits, InRole, Holds, Follows, Controller
<1>6. q.call = p.call
  BY <1>1, <1>2, <1>4 DEF Copy
<1>7. Becoming(d, q)
  BY <1>4, <1>5, <1>6 DEF Becoming, Fits, r, p
<1> QED BY <1>1, <1>7, DoesTold, EmptySeq

(* onConnectionState(), and a forgotten session that fails.                 *)
LEMMA MediaTold ==
    ASSUME CallInv, ToldInv, NEW d \in Devices, Media(d) \/ OrphanFails(d)
    PROVE  ToldInv'
<1>1. dev[d] \in Controller
  BY Told
<1>2. CASE PathFails(d)
  BY <1>1, <1>2, HangsUpTold DEF PathFails
<1>3. CASE PathLost(d)
  <2> DEFINE r == [dev[d] EXCEPT !.pc = "lost"]
             q == BeginRecovery(r, TRUE)
  <2>1. Does(d, q, RecoveryFrames(r))
    BY <1>3 DEF PathLost
  <2>2. r \in Controller /\ Copy(r, dev[d])
    BY <1>1 DEF Controller, Copy
  <2> HIDE DEF r
  <2>3. Fits(r, dev[Other(d)])
    BY <2>2, CopyTold
  <2>4. Keeps(r, q, dev[Other(d)]) /\ RecoveryFrames(r) \in Seq(Truths(r))
    BY <2>3, RecoveryKeeps, FramesTrue
  <2> QED BY <2>1, <2>2, <2>4, OnwardTold
<1>4. CASE OrphanFails(d)
  <2> DEFINE r == [dev[d] EXCEPT !.orphan = "failed"]
  <2>1. Does(d, Finish(r), Hangup(r)) \/ Does(d, r, <<>>)
    BY <1>4 DEF OrphanFails
  <2>2. r \in Controller /\ Copy(r, dev[d])
    BY <1>1 DEF Controller, Copy
  <2> HIDE DEF r
  <2>3. Becoming(d, r) /\ r.made = dev[d].made
    BY <2>2, CopyTold
  <2> QED BY <2>1, <2>2, <2>3, HangsUpTold, DoesTold, EmptySeq
<1> QED BY <1>2, <1>3, <1>4, PathUpTold DEF Media

-----------------------------------------------------------------------------
(* The network, and the theorem.                                            *)

(* No controller changes, and only plain frames are written.                *)
LEMMA NetworkTold ==
    ASSUME CallInv, ToldInv, (\E d \in Devices : SocketDies(d)) \/ RingTimeout \/ GraceExpires
    PROVE  ToldInv'
<1> DEFINE S == [e \in Devices |-> Truths(dev[Other(e)])]
<1>1. dev' = dev /\ net \in Network /\ \A e \in Devices : net.down[e] \in Seq(Truths(dev[Other(e)]))
  BY Told, TwoDevices DEF SocketDies, RingTimeout, GraceExpires
<1>2. MayCarry(S) /\ Carries(net, S)
  BY <1>1 DEF MayCarry, Carries, Truths, Truthful, Plain
<1>3. ASSUME Carries(net', S) PROVE ToldInv'
  <2>1. ToldInv /\ \A e \in Devices : net'.down[e] \in Seq(Truths(dev'[Other(e)]))
    BY <1>1, <1>3 DEF Carries
  <2>2. \A e \in Devices : \A k \in DOMAIN net'.down[e] : Truthful(net'.down[e][k], dev'[Other(e)])
    <3> SUFFICES ASSUME NEW e \in Devices, NEW k \in DOMAIN net'.down[e]
                 PROVE  Truthful(net'.down[e][k], dev'[Other(e)])
      OBVIOUS
    <3> DEFINE s == net'.down[e]
               T == Truths(dev'[Other(e)])
    <3>1. s \in Seq(T) /\ k \in DOMAIN s
      BY <2>1
    <3> HIDE DEF s, T
    <3>2. s[k] \in T
      BY <3>1
    <3> QED BY <3>2 DEF s, T, Truths
  <2> QED BY <1>1, <2>1, <2>2 DEF ToldInv, SameCall
<1>4. ASSUME NEW f \in Frames, f.type \in Plain, NEW d \in Devices
      PROVE  Carries(Push(Push(Over(net), d, f), Other(d), f), S)
  <2>1. Over(net) \in Network /\ Over(net).down = net.down /\ Other(d) \in Devices
    BY <1>1, OtherDevice DEF Network, Over
  <2>2. Carries(Over(net), S) /\ f \in S[d] /\ f \in S[Other(d)]
    BY <1>2, <1>4, <2>1 DEF Carries, MayCarry
  <2> HIDE DEF S
  <2>3. Push(Over(net), d, f) \in Network /\ Carries(Push(Over(net), d, f), S)
    BY <1>2, <2>1, <2>2, PushCarries
  <2> QED BY <1>2, <2>1, <2>2, <2>3, PushCarries
<1>5. /\ Frame("timeout", net.id, 0) \in Frames /\ Frame("timeout", net.id, 0).type \in Plain
      /\ Frame("hangup", net.id, 0) \in Frames /\ Frame("hangup", net.id, 0).type \in Plain
      /\ net.from \in Devices /\ net.grace \subseteq Devices
  <2>1. net.id \in Nat /\ {"timeout", "hangup"} \subseteq FrameTypes
    BY <1>1 DEF Network, CallIds, FrameTypes
  <2> QED BY <1>1, <2>1, FrameTyped DEF Network, Frame, Plain
<1> HIDE DEF S
<1>6. CASE RingTimeout
  BY <1>3, <1>4, <1>5, <1>6 DEF RingTimeout
<1>7. CASE GraceExpires
  BY <1>3, <1>4, <1>5, <1>7 DEF GraceExpires
<1>8. ASSUME NEW d \in Devices, SocketDies(d) PROVE ToldInv'
  <2> DEFINE w == [net.down EXCEPT ![d] = <<>>]
  <2>1. net'.down = w
    BY <1>1, <1>8 DEF SocketDies, Network
  <2>2. \A e \in Devices : w[e] \in Seq(S[e])
    <3>1. \A e \in Devices : net.down[e] \in Seq(S[e]) /\ <<>> \in Seq(S[e])
      BY <1>2, EmptySeq DEF Carries
    <3>2. \A e \in Devices : w[e] = IF e = d THEN <<>> ELSE net.down[e]
      BY <1>1 DEF Network
    <3> QED BY <3>1, <3>2
  <2> HIDE DEF w
  <2>3. Carries(net', S)
    BY <2>1, <2>2 DEF Carries
  <2> QED BY <1>3, <2>3
<1> QED BY <1>6, <1>7, <1>8

(* At first nothing has been said.                                          *)
LEMMA InitTold == Init => ToldInv
<1> SUFFICES ASSUME Init PROVE ToldInv
  OBVIOUS
<1>1. /\ \A d \in Devices : dev[d] = Idle /\ net.down[d] = <<>>
      /\ \A d \in Devices : Other(d) \in Devices
  <2>1. net.down = [d \in Devices |-> <<>>]
    BY DEF Init
  <2> QED BY <2>1, OtherDevice DEF Init
<1>2. InRole(Idle) /\ Holds(Idle, Idle) /\ Idle.phase = "idle"
  BY DEF Idle, InRole, Holds
<1> QED BY <1>1, <1>2 DEF ToldInv, SameCall

(* A step, or a stutter.                                                    *)
LEMMA ToldKept == CallInv /\ ToldInv /\ [Next]_vars => ToldInv'
<1> SUFFICES ASSUME CallInv, ToldInv, [Next]_vars PROVE ToldInv'
  OBVIOUS
<1>1. CASE \E d \in Devices :
          \/ Person(d) \/ Continues(d) \/ OnFrame(d) \/ Signals(d)
          \/ RetryTimer(d) \/ Deadline(d) \/ Gather(d) \/ Media(d) \/ OrphanFails(d)
  BY <1>1, PlaceTold, AcceptTold, EndsTold, ContinuesTold, OnFrameTold, SignalsTold,
     TimerTold, GatherTold, MediaTold DEF Person
<1>2. CASE (\E d \in Devices : SocketDies(d)) \/ RingTimeout \/ GraceExpires
  BY <1>2, NetworkTold
<1>3. CASE UNCHANGED vars
  BY <1>3 DEF vars, ToldInv, SameCall
<1> QED BY <1>1, <1>2, <1>3 DEF Next

(* Who is on the screen of both is talking in the same call.                *)
THEOREM TalkTogether == Spec => []SameCall
<1>1. ToldInv => SameCall
  BY DEF ToldInv
<1> QED BY <1>1, InitCall, CallStep, InitTold, ToldKept, PTL DEF Spec
=============================================================================
