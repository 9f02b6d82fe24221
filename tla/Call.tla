-------------------------------- MODULE Call --------------------------------
(***************************************************************************)
(* 1:1 calls: the CallController of two devices                            *)
(* (clients/ui/src/screens/call_model.ts), the WebRTC adapter it drives    *)
(* (clients/web/src/call_media.ts) and the sockets that carry call.*       *)
(* frames, which are never replayed (clients/web/src/main.ts:1224).        *)
(*                                                                         *)
(* A media or SDP step is a promise: a job.  Every continuation compares   *)
(* the epoch it captured with the current one, so an epoch is modelled by  *)
(* what the comparison tells: epoch += 1 marks the pending jobs late.      *)
(*                                                                         *)
(* The signalling server is external: it keeps one line per person, rings  *)
(* for a while, forwards frames of the call, and ends a call whose device  *)
(* has lost its socket and does not resume in time.  It answers the resume *)
(* of a call that is over with a hangup.  Of ICE there is one candidate    *)
(* per session.  Names, devices, mute, camera and quality are left out, as *)
(* are sibling devices (call.taken) and destroy(), which nothing calls.    *)
(***************************************************************************)
EXTENDS Naturals, Sequences, FiniteSets

CONSTANTS
    Devices,    \* the devices of two people
    MaxCalls,   \* calls the two place between them (a bound)
    MaxDesc,    \* descriptions a device has made when it restarts (a bound)
    MaxEvents   \* calls and other Events, each of these once (a bound)

ASSUME TwoDevices == \E d, e \in Devices : d # e /\ Devices = {d, e}

\* deny: getUserMedia rejects; again: the accept button is tapped once more;
\* drop: a socket goes silent; route: media loses its network path;
\* retry: a recovery timer fires; ice: a local candidate is found.
Events == {"deny", "again", "drop", "route", "retry", "ice"}

ASSUME BoundsAssumption == {MaxCalls, MaxDesc, MaxEvents} \subseteq Nat

VARIABLES
    dev,    \* the controller of each device with its peer connection
    net,    \* the server's line, and the sockets with what they still carry
    placed, \* how many calls have been placed
    used    \* which of Events have happened

counters == <<placed, used>>
vars == <<dev, net, counters>>

Other(d) == CHOOSE o \in Devices : o # d

\* "idle" stands for "ended" too: the card of a call that has ended, which a tap
\* or a timer takes away, and whose callId nothing reads (busy is false).
Phases == {"idle", "dialing", "ringing", "incoming", "connecting", "active",
           "reconnecting"}
Steps  == {"open", "offer", "answer", "apply", "restart", "answerRestart",
           "applyRestart"}
CallIds == Nat                  \* 0: no call_id; 0 as an sdp: none

\* pendingIce and pendingLocalIce are theirs = "queued" and mine = "held".
JobSet == [step : Steps, sdp : Nat, late : BOOLEAN]
Controller == [
    phase : Phases, call : CallIds, out : BOOLEAN,     \* state
    wait : BOOLEAN,                                    \* awaitingMedia
    ever : BOOLEAN,                                    \* connectedAt # null
    jobs : SUBSET JobSet,                              \* awaited promises
    sess : BOOLEAN,                                    \* this.session
    orphan : {"none", "live", "failed"},               \* open, not this.session
    offer : Nat,                                     \* pendingOffer
    mine : {"none", "held", "sent"}, theirs : {"none", "queued", "added"},
    deadline : BOOLEAN, retry : BOOLEAN,               \* recovery timers
    inFlight : BOOLEAN, restart : Nat,               \* restartOfferSdp
    pc : {"new", "checking", "up", "lost"},            \* the session's path
    local : Nat, remote : Nat, offered : BOOLEAN,  \* its descriptions
    made : Nat ]

Idle == [phase |-> "idle", call |-> 0, out |-> TRUE, wait |-> FALSE,
         ever |-> FALSE, jobs |-> {}, sess |-> FALSE, orphan |-> "none",
         offer |-> 0, mine |-> "none", theirs |-> "none", deadline |-> FALSE,
         retry |-> FALSE, inFlight |-> FALSE, restart |-> 0, pc |-> "new",
         local |-> 0, remote |-> 0, offered |-> FALSE, made |-> 0]

Busy(r) == r.phase # "idle"
More == placed + Cardinality(used) < MaxEvents
Happens(e) == /\ e \notin used /\ More
              /\ used' = used \cup {e} /\ UNCHANGED placed

-----------------------------------------------------------------------------
(* The server.  sock: "dead" is a socket the client still takes for open.  *)

FrameTypes == {"ringing", "incoming", "answer", "ice", "restart_request",
               "restart_offer", "restart_answer", "reject", "hangup", "timeout",
               "error", "resume"}
Frames == [type : FrameTypes, call : CallIds, sdp : Nat]
Frame(t, c, s) == [type |-> t, call |-> c, sdp |-> s]

Network == [id : CallIds, line : {"over", "ringing", "live"}, from : Devices,
            grace : SUBSET Devices, sock : [Devices -> {"open", "dead", "down"}],
            down : [Devices -> Seq(Frames)]]

Push(n, p, f) == IF n.sock[p] = "open"
                 THEN [n EXCEPT !.down[p] = Append(@, f)] ELSE n

Over(n) == [n EXCEPT !.line = "over", !.grace = {}]

\* The server on one frame of d.
Serve(n, d, f) ==
    CASE f.call # n.id \/ n.line = "over" ->
            IF f.type = "resume" THEN Push(n, d, Frame("hangup", f.call, 0)) ELSE n
      [] f.type = "answer" ->
            IF n.line = "ringing" /\ d # n.from
            THEN Push([n EXCEPT !.line = "live"], Other(d), f) ELSE n
      [] f.type \in {"hangup", "reject"} -> Push(Over(n), Other(d), f)
      [] f.type = "resume" -> [n EXCEPT !.grace = @ \ {d}]
      [] OTHER -> Push(n, Other(d), f)

\* An offer opens the line, or is refused when the line is taken or for
\* another reason (blocked, privacy, unreachable).
Offers(n, d, s) ==
    {Push(n, d, Frame("error", 0, 0))} \cup
    IF n.line # "over" THEN {}
    ELSE LET m == [n EXCEPT !.id = @ + 1, !.line = "ringing", !.from = d]
         IN {Push(Push(m, d, Frame("ringing", m.id, 0)),
                  Other(d), Frame("incoming", m.id, s))}

CanSend(d) == net.sock[d] # "down"
\* No handler sends more than three frames.
Served(n, d, fs, k) == IF k <= Len(fs) THEN Serve(n, d, fs[k]) ELSE n
Sent(n, d, fs) == IF n.sock[d] # "open" THEN n
    ELSE Served(Served(Served(n, d, fs, 1), d, fs, 2), d, fs, 3)

\* The controller of d is now r and has sent fs.
Does(d, r, fs) ==
    /\ dev' = [dev EXCEPT ![d] = r]
    /\ net' = Sent(net, d, fs)

-----------------------------------------------------------------------------
(* Private methods of the controller, from record to record and frames.    *)

Job(s, x) == [step |-> s, sdp |-> x, late |-> FALSE]
Starts(r, s, x) == [r EXCEPT !.jobs = @ \cup {Job(s, x)}]

Bump(r) == [r EXCEPT !.jobs = {[j EXCEPT !.late = TRUE] : j \in @}]

ClearRecovery(r) == [r EXCEPT !.deadline = FALSE, !.retry = FALSE,
                              !.inFlight = FALSE, !.restart = 0]

KeepsPath(r) == [r EXCEPT !.sess = FALSE, !.local = 0, !.remote = 0]   \* faulty
ForgetsSession(r) ==                                                 \* faulty
    [r EXCEPT !.sess = FALSE, !.orphan = IF r.sess THEN "live" ELSE @,
              !.pc = "new", !.local = 0, !.remote = 0, !.offered = FALSE]
CloseSession(r) == [r EXCEPT !.sess = FALSE, !.pc = "new", !.local = 0,
                             !.remote = 0, !.offered = FALSE]

Finish(r) == [CloseSession(ClearRecovery(Bump(r))) EXCEPT
                !.phase = "idle", !.call = 0, !.out = TRUE, !.ever = FALSE,
                !.wait = FALSE, !.offer = 0, !.mine = "none", !.theirs = "none"]

Hangup(r) == IF r.call # 0 THEN <<Frame("hangup", r.call, 0)>> ELSE <<>>

\* flushLocalIce(), and the frame it sends; can: signal.send() succeeds.
Flushes(can, r) == can /\ r.call # 0 /\ r.mine = "held"
FlushLocal(can, r) == IF Flushes(can, r) THEN [r EXCEPT !.mine = "sent"] ELSE r
LocalIce(can, r) == IF Flushes(can, r) THEN <<Frame("ice", r.call, 0)>> ELSE <<>>

FlushIce(r) == IF r.sess /\ r.theirs = "queued"
               THEN [r EXCEPT !.theirs = "added"] ELSE r

\* sendRestartOffer(): a new offer is a job, a remembered one is sent again.
MayRestart(r) == r.sess /\ r.call # 0 /\ r.out /\ ~r.inFlight
RestartOffer(r) == IF MayRestart(r) /\ r.restart = 0
                   THEN [Starts(r, "restart", 0) EXCEPT !.inFlight = TRUE] ELSE r
Asks(r) == IF ~r.out THEN <<Frame("restart_request", r.call, 0)>>
           ELSE IF MayRestart(r) /\ r.restart # 0
           THEN <<Frame("restart_offer", r.call, r.restart)>> ELSE <<>>

Recovers(r) == Busy(r) /\ r.sess /\ r.call # 0 /\ r.ever
NoDeadline(r, initiate) ==                                           \* faulty
    IF ~Recovers(r) THEN r
    ELSE LET q == [r EXCEPT !.phase = "reconnecting", !.retry = TRUE]
         IN IF initiate THEN RestartOffer(q) ELSE q
BeginRecovery(r, initiate) ==
    IF ~Recovers(r) THEN r
    ELSE LET q == [r EXCEPT !.phase = "reconnecting", !.deadline = TRUE,
                            !.retry = TRUE]
         IN IF initiate THEN RestartOffer(q) ELSE q
RecoveryFrames(r) == IF Recovers(r) THEN Asks(r) ELSE <<>>

RetryRecovery(can, r) == IF r.phase # "reconnecting" THEN r
    ELSE RestartOffer([FlushLocal(can, r) EXCEPT !.retry = TRUE])
RetryFrames(can, r) == IF r.phase # "reconnecting" THEN <<>>
    ELSE LocalIce(can, r) \o Asks(r)

-----------------------------------------------------------------------------
(* What the person does.                                                   *)

Place(d) ==
    LET r == dev[d] IN
    /\ ~Busy(r) /\ placed < MaxCalls /\ More /\ placed' = placed + 1
    /\ Does(d, Starts([Bump(r) EXCEPT
                         !.phase = "dialing", !.wait = TRUE, !.mine = "none"],
                      "open", 0), <<>>)
    /\ UNCHANGED used

\* The buttons stay while the media opens (call_overlay.ts:381), so accept()
\* may run twice.
Accept(d) ==
    LET r == dev[d] IN
    /\ r.phase = "incoming" /\ r.offer # 0 /\ r.call # 0
    /\ IF r.wait THEN Happens("again") ELSE UNCHANGED counters
    /\ Does(d, Starts([Bump(r) EXCEPT !.wait = TRUE], "open", r.offer), <<>>)

Decline(d) ==
    LET r == dev[d] IN
    /\ r.phase = "incoming" /\ r.call # 0
    /\ Does(d, Finish(r), <<Frame("reject", r.call, 0)>>)
    /\ UNCHANGED counters

HangUp(d) ==
    /\ Busy(dev[d]) /\ dev[d].phase # "incoming"
    /\ Does(d, Finish(dev[d]), Hangup(dev[d]))
    /\ UNCHANGED counters

-----------------------------------------------------------------------------
(* Continuations of media and SDP promises; r is the controller without    *)
(* the job j.  What a closed session was doing never settles, or is late.  *)

NeverLate(j) == FALSE                                                \* faulty
Late(j) == j.late

Taken(d, j) == [dev[d] EXCEPT !.jobs = @ \ {j}]

\* A late one closes what it has opened and returns.
Returns(d, j) == Late(j) /\ Does(d, Taken(d, j), <<>>)

\* openMedia() resolves in place(), which answers no offer, or in accept(),
\* which forgets the session of an accept() before it.
Opened(d, j) ==
    LET r == Taken(d, j) IN
    /\ j.step = "open"
    /\ Does(d, Starts([r EXCEPT !.sess = TRUE, !.pc = "new", !.local = 0,
                          !.remote = 0, !.offered = FALSE, !.wait = (j.sdp # 0),
                          !.orphan = IF r.sess THEN "live" ELSE @],
                      IF j.sdp = 0 THEN "offer" ELSE "answer", j.sdp), <<>>)

Denied(d, j) ==
    LET r == Taken(d, j) IN
    /\ j.step = "open" /\ Happens("deny")
    /\ Does(d, Finish(r), IF j.sdp = 0 THEN <<>>
                          ELSE <<Frame("reject", r.call, 0)>>)

\* A description of its own is the next number; "offered" is the signalling
\* state have-local-offer.
Describes(r, isOffer) == [r EXCEPT !.made = @ + 1, !.local = r.made + 1,
                                   !.offered = isOffer]

Offered(d, j) ==
    LET r == Describes(Taken(d, j), TRUE) IN
    /\ j.step = "offer"
    /\ IF ~CanSend(d) THEN Does(d, Finish(r), <<>>)
       ELSE /\ dev' = [dev EXCEPT ![d] = r]
            /\ IF net.sock[d] = "open" THEN net' \in Offers(net, d, r.local)
                                       ELSE UNCHANGED net

Answered(d, j) ==
    LET r == [Describes(Taken(d, j), FALSE) EXCEPT
                !.remote = j.sdp, !.pc = "checking", !.offer = 0]
    IN /\ j.step = "answer"
       /\ IF ~CanSend(d) THEN Does(d, Finish(r), <<>>)
          ELSE Does(d, FlushIce([r EXCEPT !.wait = FALSE, !.phase = "connecting"]),
                    <<Frame("answer", r.call, r.local)>>)

\* setRemoteDescription(answer) rejects unless an offer is open.
Applies(r, j) == FlushIce([r EXCEPT !.remote = j.sdp, !.offered = FALSE,
                                    !.pc = "checking"])
Applied(d, j) ==
    LET r == Taken(d, j) IN
    /\ j.step = "apply"
    /\ IF r.offered THEN Does(d, Applies(r, j), <<>>)
                    ELSE Does(d, Finish(r), Hangup(r))

RestartApplied(d, j) ==
    LET r == Taken(d, j) IN
    /\ j.step = "applyRestart"
    /\ IF r.offered THEN Does(d, [Applies(r, j) EXCEPT !.restart = 0], <<>>)
       ELSE Does(d, RetryRecovery(CanSend(d), r), RetryFrames(CanSend(d), r))

RestartMade(d, j) ==
    LET r == Describes(Taken(d, j), TRUE) IN
    /\ j.step = "restart" /\ dev[d].made < MaxDesc
    /\ Does(d, [r EXCEPT !.restart = r.local, !.inFlight = FALSE],
            <<Frame("restart_offer", r.call, r.local)>>)

RestartAnswered(d, j) ==
    LET r == [Describes(Taken(d, j), FALSE) EXCEPT
                !.remote = j.sdp, !.pc = "checking"]
    IN /\ j.step = "answerRestart" /\ dev[d].made < MaxDesc
       /\ Does(d, FlushIce(r), <<Frame("restart_answer", r.call, r.local)>>)

Continues(d) == \E j \in dev[d].jobs :
    \/ ~Late(j) /\ Denied(d, j)
    \/ /\ \/ Returns(d, j)
          \/ /\ ~Late(j)
             /\ \/ Opened(d, j) \/ Offered(d, j) \/ Answered(d, j)
                \/ Applied(d, j) \/ RestartApplied(d, j)
                \/ RestartMade(d, j) \/ RestartAnswered(d, j)
       /\ UNCHANGED counters

-----------------------------------------------------------------------------
(* onFrame().  A frame of the current call flushes local candidates first.  *)

MatchesAny(r, f) == Busy(r)                                          \* faulty
Matches(r, f) == Busy(r) /\ f.call # 0 /\ f.call = r.call

\* d takes the frame f from its socket and is then r, having sent fs.
Handles(d, f, r, fs) ==
    LET m == [net EXCEPT !.down[d] = Tail(@)]
        q == dev[d]
    IN /\ dev' = [dev EXCEPT ![d] = r]
       /\ net' = Sent(m, d, (IF Matches(q, f) THEN LocalIce(TRUE, q) ELSE <<>>) \o fs)

\* The controller with which the switch of onFrame() starts.
At(d, f) == IF Matches(dev[d], f) THEN FlushLocal(TRUE, dev[d]) ELSE dev[d]

OnRinging(d, f) ==
    LET r == At(d, f)
        s == [r EXCEPT !.phase = "ringing", !.call = f.call]
    IN /\ f.type = "ringing"
       /\ IF r.phase = "dialing"
          THEN Handles(d, f, FlushIce(FlushLocal(TRUE, s)), LocalIce(TRUE, s))
          ELSE Handles(d, f, r, <<>>)

OnIncoming(d, f) ==
    /\ f.type = "incoming"
    /\ IF Busy(dev[d]) THEN Handles(d, f, At(d, f), <<Frame("reject", f.call, 0)>>)
       ELSE Handles(d, f, [Bump(dev[d]) EXCEPT
                !.phase = "incoming", !.call = f.call, !.out = FALSE,
                !.offer = f.sdp,
                !.mine = "none", !.theirs = "none"], <<>>)

OnAnswer(d, f) ==
    LET r == At(d, f) IN
    /\ f.type = "answer"
    /\ Handles(d, f, IF Matches(r, f) /\ r.out /\ r.sess
                     THEN Starts([r EXCEPT !.phase = "connecting"], "apply", f.sdp)
                     ELSE r, <<>>)

OnIce(d, f) ==
    LET r == At(d, f) IN
    /\ f.type = "ice"
    /\ Handles(d, f, IF Matches(r, f)
                     THEN [r EXCEPT !.theirs = IF r.sess THEN "added" ELSE "queued"]
                     ELSE r, <<>>)

OnRestartRequest(d, f) ==
    LET r == At(d, f) IN
    /\ f.type = "restart_request"
    /\ IF Matches(r, f) /\ r.out /\ r.sess
       THEN Handles(d, f, BeginRecovery(r, TRUE), RecoveryFrames(r))
       ELSE Handles(d, f, r, <<>>)

OnRestartOffer(d, f) ==
    LET r == At(d, f) IN
    /\ f.type = "restart_offer"
    /\ Handles(d, f, IF Matches(r, f) /\ ~r.out /\ r.sess
                     THEN Starts(BeginRecovery(r, FALSE), "answerRestart", f.sdp)
                     ELSE r, <<>>)

OnRestartAnswer(d, f) ==
    LET r == At(d, f) IN
    /\ f.type = "restart_answer"
    /\ Handles(d, f, IF Matches(r, f) /\ r.out /\ r.sess
                     THEN Starts(r, "applyRestart", f.sdp) ELSE r, <<>>)

\* call.reject, call.hangup, call.timeout.
OnEnd(d, f) ==
    /\ f.type \in {"reject", "hangup", "timeout"}
    /\ Handles(d, f, IF Matches(dev[d], f) THEN Finish(dev[d]) ELSE dev[d], <<>>)

OnError(d, f) ==
    /\ f.type = "error"
    /\ Handles(d, f, IF dev[d].phase \in {"dialing", "ringing"}
                     THEN Finish(dev[d]) ELSE dev[d], <<>>)

OnFrame(d) ==
    /\ net.sock[d] = "open" /\ net.down[d] # <<>>
    /\ LET f == Head(net.down[d]) IN
       \/ OnRinging(d, f) \/ OnIncoming(d, f) \/ OnAnswer(d, f) \/ OnIce(d, f)
       \/ OnRestartRequest(d, f) \/ OnRestartOffer(d, f) \/ OnRestartAnswer(d, f)
       \/ OnEnd(d, f) \/ OnError(d, f)
    /\ UNCHANGED counters

-----------------------------------------------------------------------------
(* onSignalState().                                                        *)

SocketLost(d) ==
    LET r == dev[d] IN
    /\ net.sock[d] = "dead"
    /\ dev' = [dev EXCEPT ![d] = IF r.phase = "dialing" /\ r.call = 0 /\ ~r.wait
                                 THEN Finish(r) ELSE r]
    /\ net' = [net EXCEPT !.sock[d] = "down"]
    /\ UNCHANGED counters

Resume(r) == IF Busy(r) /\ r.call # 0
             THEN <<Frame("resume", r.call, 0)>> \o LocalIce(TRUE, r) ELSE <<>>

SocketOpens(d) ==
    LET r == dev[d]
        q == IF Busy(r) THEN FlushLocal(TRUE, r) ELSE r
    IN /\ net.sock[d] = "down"
       /\ dev' = [dev EXCEPT ![d] = RetryRecovery(TRUE, q)]
       /\ net' = Sent([net EXCEPT !.sock[d] = "open"], d,
                      Resume(r) \o RetryFrames(TRUE, q))
       /\ UNCHANGED counters

-----------------------------------------------------------------------------
(* Timers of the recovery.                                                 *)

RetryTimer(d) ==
    LET r == [dev[d] EXCEPT !.retry = FALSE] IN
    /\ dev[d].retry /\ Happens("retry")
    /\ Does(d, RetryRecovery(CanSend(d), r), RetryFrames(CanSend(d), r))

Deadline(d) ==
    LET r == [dev[d] EXCEPT !.deadline = FALSE] IN
    /\ dev[d].deadline
    /\ IF r.phase = "reconnecting" THEN Does(d, Finish(r), Hangup(r))
                                   ELSE Does(d, r, <<>>)
    /\ UNCHANGED counters

-----------------------------------------------------------------------------
(* The peer connection: onIce() and onConnectionState().  Media flows when *)
(* each end has the description the other has made last.                   *)

Matched(d) == /\ dev[d].sess /\ dev[Other(d)].sess /\ dev[d].local # 0
              /\ dev[d].remote = dev[Other(d)].local
              /\ dev[Other(d)].remote = dev[d].local

\* Gathering starts in setLocalDescription(), before offer() or answerTo()
\* has resolved.
Gather(d) ==
    LET r == dev[d]
        q == [r EXCEPT !.mine = "held"]
    IN /\ r.sess /\ r.mine = "none"
       /\ r.local # 0 \/ \E j \in r.jobs : j.step \in {"offer", "answer"} /\ ~Late(j)
       /\ Happens("ice")
       /\ Does(d, FlushLocal(CanSend(d), q), LocalIce(CanSend(d), q))

PathUp(d) ==
    LET r == dev[d] IN
    /\ r.pc \in {"checking", "lost"} /\ Matched(d) /\ Busy(r)
    /\ Does(d, [ClearRecovery(r) EXCEPT !.pc = "up", !.phase = "active",
                                        !.ever = TRUE], <<>>)
    /\ UNCHANGED counters

\* mapState() reports "failed" only before media has ever flowed.
PathFails(d) ==
    LET r == dev[d] IN
    /\ r.pc = "checking" /\ ~r.ever /\ Busy(r)
    /\ Does(d, Finish(r), Hangup(r))
    /\ UNCHANGED counters

\* The other end has closed its connection, or has described it differently
\* and nothing is under way that would tell.
Negotiating == \E d \in Devices : \/ \E j \in dev[d].jobs : ~Late(j)
                                  \/ net.down[d] # <<>>
PeerGone(d) == \/ ~dev[Other(d)].sess \/ dev[Other(d)].call # dev[d].call
               \/ ~Matched(d) /\ ~Negotiating
PathLost(d) ==
    LET r == [dev[d] EXCEPT !.pc = "lost"] IN
    /\ r.ever /\ dev[d].pc \in {"checking", "up"}
    /\ IF PeerGone(d) THEN UNCHANGED counters ELSE Happens("route")
    /\ Does(d, BeginRecovery(r, TRUE), RecoveryFrames(r))

\* The session that accept() has forgotten gets no answer through, and fails.
OrphanFails(d) ==
    LET r == [dev[d] EXCEPT !.orphan = "failed"] IN
    /\ dev[d].orphan = "live"
    /\ IF Busy(r) THEN Does(d, Finish(r), Hangup(r)) ELSE Does(d, r, <<>>)
    /\ UNCHANGED counters

-----------------------------------------------------------------------------
(* The network and the timers of the server.                               *)

SocketDies(d) ==
    /\ net.sock[d] = "open" /\ Happens("drop")
    /\ net' = [net EXCEPT !.sock[d] = "dead", !.down[d] = <<>>,
                          !.grace = IF net.line = "over" THEN @ ELSE @ \cup {d}]
    /\ UNCHANGED dev

RingTimeout ==
    /\ net.line = "ringing"
    /\ net' = LET f == Frame("timeout", net.id, 0)
                  d == net.from
              IN Push(Push(Over(net), d, f), Other(d), f)
    /\ UNCHANGED <<dev, counters>>

GraceExpires == \E d \in net.grace :
    /\ net' = LET f == Frame("hangup", net.id, 0)
              IN Push(Push(Over(net), d, f), Other(d), f)
    /\ UNCHANGED <<dev, counters>>

-----------------------------------------------------------------------------
Init ==
    /\ dev = [d \in Devices |-> Idle]
    /\ net \in [id : {0}, line : {"over"}, from : Devices, grace : {{}},
                sock : {[d \in Devices |-> "open"]},
                down : {[d \in Devices |-> <<>>]}]
    /\ net.from = CHOOSE d \in Devices : TRUE
    /\ placed = 0 /\ used = {}

Person(d) == Place(d) \/ Accept(d) \/ Decline(d) \/ HangUp(d)
Media(d)  == PathUp(d) \/ PathFails(d) \/ PathLost(d)
Signals(d) == SocketLost(d) \/ SocketOpens(d)

Next ==
    \/ \E d \in Devices :
          \/ Person(d) \/ Continues(d) \/ OnFrame(d) \/ Signals(d)
          \/ RetryTimer(d) \/ Deadline(d) \/ Gather(d) \/ Media(d)
          \/ OrphanFails(d) \/ SocketDies(d)
    \/ RingTimeout \/ GraceExpires

Spec == Init /\ [][Next]_vars

\* Promises settle, frames arrive, a silent socket is noticed and reopened,
\* timers run, and a peer connection leaves "checking" and notices a peer that
\* has gone.  Of these steps one is taken as long as there is one: the bounds
\* leave no endless behaviour in which others could keep one back.  The person
\* need not do anything.
Progress ==
    \/ \E d \in Devices : \/ Continues(d) \/ OnFrame(d) \/ Signals(d)
                          \/ Deadline(d) \/ Media(d)
    \/ RingTimeout \/ GraceExpires

FairSpec == Spec /\ WF_vars(Progress)

-----------------------------------------------------------------------------
(* Properties.                                                             *)

\* Types; a peer connection has state and timers only while there is one.
TypeOK ==
    /\ dev \in [Devices -> Controller]
    /\ \A d \in Devices : dev[d].pc # "new" \/ dev[d].deadline => dev[d].sess
    /\ net \in Network
    /\ placed \in 0 .. MaxCalls /\ used \subseteq Events

\* No microphone stays open beside the call on the screen, whichever of call
\* end, second tap and getUserMedia() comes first; a second tap on accept while
\* the first one makes its answer is the exception (call_model.ts:346).
MediaReleased == \A d \in Devices :
    /\ dev[d].sess => Busy(dev[d])
    /\ dev[d].orphan # "none" => "again" \in used

\* A call that has ended is not brought back by a late answer, path report,
\* timer or promise: only a new call leaves the terminal screen.
NoResurrection == [][\A d \in Devices :
    ~Busy(dev[d]) /\ Busy(dev'[d]) => dev'[d].phase \in {"dialing", "incoming"}]_vars

InCall(d, c) == Busy(dev[d]) /\ dev[d].call = c

\* Who is on the screen of both is talking in the same call.
SameCall == \A d, e \in Devices :
    dev[d].phase = "active" /\ dev[e].phase = "active" => dev[d].call = dev[e].call

\* No screen dials, rings, connects or reconnects for ever, nobody stays in a
\* call alone, no candidate of an active call is left waiting, and the server's
\* line is given back, over lost sockets, refused microphones and lost frames,
\* and whatever the other person does.
Alone(d) == Busy(dev[d]) /\ dev[d].call # 0 /\ ~InCall(Other(d), dev[d].call)
Waiting(d) == dev[d].phase = "active" /\ (dev[d].mine = "held" \/ dev[d].theirs = "queued")
Deserted == net.line # "over" /\ \A d \in Devices : ~InCall(d, net.id)
AllSettled ==
    /\ \A d \in Devices : dev[d].phase \in {"active", "idle"} /\ ~Alone(d) /\ ~Waiting(d)
    /\ ~Deserted
CallSettles == ~AllSettled ~> AllSettled

-----------------------------------------------------------------------------
(* The inductive invariant.                                                *)

\* A promise that is not late belongs to the call on the screen, and every step
\* but the opening of the media to its session.
JobsOfCall(r) == \A j \in r.jobs : Late(j) \/ (Busy(r) /\ (j.step = "open" \/ r.sess))

\* The media of one place() or accept() is being opened at a time, that of place()
\* never for an incoming call.
OneOpening(r) ==
    /\ \A j, k \in r.jobs :
          j.step = "open" /\ k.step = "open" => Late(j) \/ Late(k) \/ j = k
    /\ \A j \in r.jobs :
          j.step = "open" /\ j.sdp = 0 => Late(j) \/ r.phase # "incoming"

\* An incoming call has its media only while accept() waits for the answer, and
\* opens them beside a session, which is then left behind, only after a second
\* tap.
Tapped(r, happened) ==
    /\ r.phase = "incoming" /\ r.sess => r.wait
    /\ "again" \notin happened =>
          /\ r.orphan = "none"
          /\ \A j \in r.jobs : j.step = "open" => Late(j) \/ ~r.sess

\* Of one controller, when the events that have happened are known.
Sound(r, happened) ==
    /\ r.pc # "new" \/ r.deadline => r.sess
    /\ r.sess => Busy(r)
    /\ JobsOfCall(r) /\ OneOpening(r) /\ Tapped(r, happened)

CallInv == TypeOK /\ \A d \in Devices : Sound(dev[d], used)

-----------------------------------------------------------------------------
(* The inductive invariant behind SameCall.  A description is known by its  *)
(* number, and what one device has of the other's is what was said in one   *)
(* call, as an offer or as an answer.                                       *)

Answering == {"apply", "applyRestart"}          \* steps of the one who has called
Offering  == {"answer", "answerRestart"}        \* and of the one who was called

\* r has made the answer x in the call c: while it describes r, r is in c.
AnswerOf(r, c, x) == x \in 1 .. r.made /\ (r.local = x => ~r.out /\ r.call = c)
\* r has made the offer x.
OfferOf(r, x) == x \in 1 .. r.made /\ (r.local = x => r.out)

\* What the controller q has of the descriptions of r.
Holds(q, r) ==
    /\ \A j \in q.jobs : Late(j) \/
          /\ j.step \in Answering => AnswerOf(r, q.call, j.sdp)
          /\ j.step \in Offering \/ (j.step = "open" /\ ~q.out) => OfferOf(r, j.sdp)
    /\ q.offer # 0 => OfferOf(r, q.offer)
    /\ q.remote # 0 => IF q.out THEN AnswerOf(r, q.call, q.remote) ELSE OfferOf(r, q.remote)

\* What a frame under way says of r, who has sent it.
Truthful(f, r) ==
    /\ f.type \in {"answer", "restart_answer"} => AnswerOf(r, f.call, f.sdp)
    /\ f.type \in {"incoming", "restart_offer"} => OfferOf(r, f.sdp)

\* Which of the two calls, and what it has described.
InRole(r) ==
    /\ r.phase \in {"idle", "dialing", "ringing"} => r.out
    /\ r.phase \in {"idle", "dialing"} => r.call = 0 /\ r.remote = 0
    /\ r.phase = "incoming" \/ r.offer # 0 => ~r.out
    /\ \A j \in r.jobs : Late(j) \/
          /\ j.step \in Answering => r.phase # "dialing"
          /\ r.out <=> j.step \notin Offering /\ (j.step = "open" => j.sdp = 0)
    /\ r.restart # 0 => r.out /\ r.phase # "idle"
    /\ {r.local, r.restart} \subseteq 0 .. r.made
    /\ r.local # 0 \/ r.remote # 0 => r.sess
    /\ ~r.out => (r.local = 0 <=> r.remote = 0)

ToldInv ==
    /\ SameCall
    /\ \A d \in Devices :
          /\ InRole(dev[d]) /\ Holds(dev[d], dev[Other(d)])
          /\ \A k \in DOMAIN net.down[d] : Truthful(net.down[d][k], dev[Other(d)])
=============================================================================
