----------------------------- MODULE BridgeProofs -----------------------------
(***************************************************************************)
(* Proofs about the trace bridge and the game's listener for any set of    *)
(* controllers and commands, and any number of replaced bridge processes.  *)
(***************************************************************************)
EXTENDS CommandBridge, SequenceTheorems, TLAPS

Lines == [id : MaybeId, verb : Verbs]
Attempts == [id : MaybeId, verb : Verbs, exec : Nat, settle : Nat]

Types ==
  /\ latest \in Summaries \union {Unread}
  /\ inFlight \in Attempts
  /\ waiters \in SUBSET Attempts
  /\ queue \in Seq(Lines)
  /\ looping \in BOOLEAN
  /\ seen \in SUBSET CommandIds
  /\ former \in SUBSET CommandIds
  /\ told \in [CommandIds -> {"nothing", "observed", "cancelled"}]
  /\ toGame \in Seq(Lines)
  /\ toBridge \in Seq(Messages)
  /\ listener \in Listeners
  /\ fate \in [CommandIds -> {"none", "executed", "answered"}]
  /\ restarts \in Nat

Known == seen \union former

------------------------------------------------------------------------------
(* The game's handlers, field by field *)

\* A gameplay command opens a transaction in its own name.
LEMMA BegunGameplay ==
  ASSUME NEW m \in Listeners, NEW c \in Lines, c.verb # "state"
  PROVE  LET b == Begun(m, c)
         IN /\ b \in Listeners
            /\ b.before = m.waiting /\ ~b.waiting /\ ~b.polled
            /\ b.exec = m.exec + 1 /\ b.settle = m.settle
            /\ b.active = c.id /\ b.pending
            /\ b.kind = "unsolicited" /\ b.id = NoId
            /\ b.boundary = "unknown"
            /\ b.mustSend = m.mustSend
            /\ b.stirred = m.stirred /\ b.endTurn = m.endTurn
<1> DEFINE b == [m EXCEPT !.before = m.waiting, !.waiting = FALSE,
                          !.boundary = "unknown", !.polled = FALSE,
                          !.exec = @ + 1, !.active = c.id,
                          !.pending = TRUE, !.kind = "unsolicited", !.id = NoId]
<1>1. Begun(m, c) = b
  BY DEF Begun
<1>2. b \in Listeners
  <2> DEFINE attempt == m.exec + 1
  <2>1. attempt \in Nat /\ c.id \in MaybeId /\ NoId \in MaybeId
    BY DEF Listeners, Lines, MaybeId
  <2>2. b = [m EXCEPT !.before = m.waiting, !.waiting = FALSE,
                      !.boundary = "unknown", !.polled = FALSE,
                      !.exec = attempt, !.active = c.id,
                      !.pending = TRUE, !.kind = "unsolicited", !.id = NoId]
    OBVIOUS
  <2> HIDE DEF attempt
  <2> QED BY <2>1, <2>2 DEF Listeners, Kinds, Boundaries
<1>3. /\ b.before = m.waiting /\ ~b.waiting /\ ~b.polled
      /\ b.exec = m.exec + 1 /\ b.settle = m.settle
      /\ b.active = c.id /\ b.pending
      /\ b.kind = "unsolicited" /\ b.id = NoId
      /\ b.boundary = "unknown"
      /\ b.mustSend = m.mustSend
      /\ b.stirred = m.stirred /\ b.endTurn = m.endTurn
  BY DEF Listeners
<1> HIDE DEF b
<1> QED BY <1>1, <1>2, <1>3

\* A STATE leaves its name for the next publication and nothing else.
LEMMA BegunPoll ==
  ASSUME NEW m \in Listeners, NEW c \in Lines, c.verb = "state"
  PROVE  LET b == CarriedOut(Begun(m, c), c)
         IN /\ b \in Listeners
            /\ b.polled /\ b.mustSend /\ b.active = c.id
            /\ b.waiting = m.waiting /\ b.before = m.before
            /\ b.exec = m.exec /\ b.settle = m.settle
            /\ b.pending = m.pending /\ b.kind = m.kind /\ b.id = m.id
            /\ b.boundary = m.boundary
            /\ b.stirred = m.stirred /\ b.endTurn = m.endTurn
BY DEF Begun, CarriedOut, Listeners, Lines, MaybeId

\* Any other command that is carried out leaves the game changing, but for an
\* ABANDON in no run, which leaves it as it is.
LEMMA CarriedOutGameplay ==
  ASSUME NEW m \in Listeners, NEW c, c.verb # "state"
  PROVE  CarriedOut(m, c) = Abandoned(m, TRUE)
BY DEF CarriedOut, Abandoned

LEMMA AbandonedFields ==
  ASSUME NEW m \in Listeners, NEW inRun \in BOOLEAN
  PROVE  LET b == Abandoned(m, inRun)
         IN /\ b \in Listeners
            /\ b.stirred = (inRun \/ m.stirred)
            /\ b.waiting = m.waiting /\ b.before = m.before
            /\ b.polled = m.polled /\ b.mustSend = m.mustSend
            /\ b.exec = m.exec /\ b.settle = m.settle
            /\ b.active = m.active /\ b.pending = m.pending
            /\ b.kind = m.kind /\ b.id = m.id
            /\ b.boundary = m.boundary /\ b.endTurn = m.endTurn
BY DEF Abandoned, Listeners

LEMMA RefusedFields ==
  ASSUME NEW m \in Listeners, NEW c \in Lines
  PROVE  LET b == Refused(m, c)
         IN /\ b \in Listeners
            /\ b.waiting = m.before /\ ~b.before /\ ~b.pending /\ ~b.polled
            /\ b.boundary = "unknown"
            /\ b.id = c.id /\ b.kind = "rejected" /\ b.active = NoId
            /\ b.exec = m.exec /\ b.settle = m.settle
            /\ b.mustSend = m.mustSend
            /\ b.stirred = m.stirred /\ b.endTurn = m.endTurn
BY DEF Refused, Listeners, Lines, MaybeId, Kinds, Boundaries

\* A stable state closes an open transaction in the name of its command.
LEMMA DetectedFields ==
  ASSUME NEW m \in Listeners, NEW endTurn \in BOOLEAN
  PROVE  LET b == Detected(m, endTurn)
         IN /\ b \in Listeners
            /\ b.waiting /\ ~b.stirred /\ ~b.pending /\ b.mustSend
            /\ b.endTurn = endTurn
            /\ b.boundary = IF endTurn THEN "interaction_ready" ELSE "quiescent"
            /\ b.polled = m.polled /\ b.exec = m.exec
            /\ IF m.pending
               THEN /\ b.settle = m.settle + 1 /\ b.kind = "settled"
                    /\ b.id = m.active /\ b.active = NoId /\ ~b.before
               ELSE /\ b.settle = m.settle /\ b.kind = "unsolicited"
                    /\ b.id = NoId /\ b.active = m.active /\ b.before = m.before
<1> DEFINE d == [m EXCEPT !.stirred = FALSE, !.waiting = TRUE, !.mustSend = TRUE,
                    !.endTurn = endTurn,
                    !.boundary = IF endTurn THEN "interaction_ready"
                                 ELSE "quiescent"]
<1>1. /\ d \in Listeners
      /\ d.waiting /\ ~d.stirred /\ d.mustSend /\ d.endTurn = endTurn
      /\ d.boundary = IF endTurn THEN "interaction_ready" ELSE "quiescent"
      /\ d.polled = m.polled /\ d.exec = m.exec /\ d.settle = m.settle
      /\ d.pending = m.pending /\ d.active = m.active /\ d.before = m.before
  BY DEF Listeners, Boundaries
<1>2. Detected(m, endTurn) = Stamped(d)
  BY DEF Detected
<1> HIDE DEF d
<1>3. CASE m.pending
  <2> DEFINE b == [d EXCEPT !.settle = @ + 1, !.kind = "settled", !.id = d.active,
                            !.pending = FALSE, !.before = FALSE, !.active = NoId]
  <2>1. Detected(m, endTurn) = b
    BY <1>1, <1>2, <1>3 DEF Stamped
  <2>2. b \in Listeners
    <3> DEFINE settled == d.settle + 1
    <3>1. settled \in Nat /\ d.active \in MaybeId /\ NoId \in MaybeId
      BY <1>1 DEF Listeners, MaybeId
    <3>2. b = [d EXCEPT !.settle = settled, !.kind = "settled", !.id = d.active,
                        !.pending = FALSE, !.before = FALSE, !.active = NoId]
      OBVIOUS
    <3> HIDE DEF settled
    <3> QED BY ZenonT(60), <1>1, <3>1, <3>2 DEF Listeners, Kinds
  <2>3. /\ b.waiting = d.waiting /\ b.stirred = d.stirred /\ ~b.pending
        /\ b.mustSend = d.mustSend /\ b.endTurn = d.endTurn
        /\ b.boundary = d.boundary /\ b.polled = d.polled /\ b.exec = d.exec
        /\ b.settle = d.settle + 1 /\ b.kind = "settled" /\ b.id = d.active
        /\ b.active = NoId /\ ~b.before
    BY <1>1 DEF Listeners
  <2> HIDE DEF b
  <2> QED BY <1>1, <1>3, <2>1, <2>2, <2>3
<1>4. CASE ~m.pending
  <2> DEFINE b == [d EXCEPT !.kind = "unsolicited", !.id = NoId]
  <2>1. Detected(m, endTurn) = b
    BY <1>1, <1>2, <1>4 DEF Stamped
  <2>2. /\ b \in Listeners
        /\ b.waiting = d.waiting /\ b.stirred = d.stirred
        /\ b.pending = d.pending
        /\ b.mustSend = d.mustSend /\ b.endTurn = d.endTurn
        /\ b.boundary = d.boundary /\ b.polled = d.polled /\ b.exec = d.exec
        /\ b.settle = d.settle /\ b.kind = "unsolicited" /\ b.id = NoId
        /\ b.active = d.active /\ b.before = d.before
    BY <1>1 DEF Listeners, MaybeId, Kinds
  <2> HIDE DEF b
  <2> QED BY <1>1, <1>4, <2>1, <2>2
<1> QED BY <1>3, <1>4

LEMMA StirredFields ==
  ASSUME NEW m \in Listeners
  PROVE  LET b == Stirred(m)
         IN /\ b \in Listeners
            /\ b.stirred /\ ~b.waiting
            /\ b.before = m.before /\ b.boundary = m.boundary
            /\ b.polled = m.polled /\ b.mustSend = m.mustSend
            /\ b.exec = m.exec /\ b.settle = m.settle
            /\ b.active = m.active /\ b.pending = m.pending
            /\ b.kind = m.kind /\ b.id = m.id /\ b.endTurn = m.endTurn
BY DEF Stirred, Listeners

\* The error message that refuses a command.
LEMMA ErrorFields ==
  ASSUME NEW m \in Listeners
  PROVE  LET r == Report(m, TRUE, "unknown", TRUE, "none")
         IN /\ r \in Messages
            /\ r.error /\ r.kind = m.kind /\ r.id = m.id
            /\ r.exec = m.exec /\ r.settle = m.settle
            /\ r.pending = m.pending
BY DEF Report, Messages, Listeners, Boundaries, Offers

\* Publication: a poll is answered in its own name, anything else as it stands.
LEMMA PublishedFields ==
  ASSUME NEW m \in Listeners, NEW clear \in BOOLEAN, NEW offers \in Offers
  PROVE  LET b == Published(m)
             s == StateMessage(m, clear, offers)
         IN /\ b \in Listeners /\ s \in Messages
            /\ ~b.polled /\ ~b.mustSend
            /\ b.waiting = m.waiting /\ b.before = m.before
            /\ b.exec = m.exec /\ b.settle = m.settle
            /\ b.pending = m.pending
            /\ b.stirred = m.stirred /\ b.endTurn = m.endTurn
            /\ b.boundary = m.boundary
            /\ s.kind = b.kind /\ s.id = b.id
            /\ s.exec = b.exec /\ s.settle = b.settle
            /\ s.pending = b.pending /\ s.ready = b.waiting
            /\ ~s.error /\ s.clear = clear
            /\ IF m.polled
               THEN /\ b.kind = "poll" /\ b.id = m.active /\ b.active = NoId
                    /\ s.boundary = "poll"
               ELSE /\ b.kind = m.kind /\ b.id = m.id /\ b.active = m.active
                    /\ s.boundary = m.boundary
<1>1. CASE m.polled
  BY ZenonT(60), <1>1 DEF Published, StateMessage, Consumed, Report, Listeners, Messages,
              MaybeId, Kinds, Boundaries
<1>2. CASE ~m.polled
  BY <1>2 DEF Published, StateMessage, Consumed, Report, Listeners, Messages
<1> QED BY <1>1, <1>2
------------------------------------------------------------------------------
(* A frame *)

\* The state message s shows the listener as it leaves the frame.
Shows(s, l) ==
  /\ s \in Messages /\ ~s.error
  /\ s.kind = l.kind /\ s.id = l.id
  /\ s.exec = l.exec /\ s.settle = l.settle
  /\ s.pending = l.pending /\ s.ready = l.waiting

Delivers(read, messages) ==
  toBridge' = toBridge \o messages /\ fate' = Judged(read, messages)

Unmoved(m, l) ==
  /\ l.kind = m.kind /\ l.id = m.id /\ l.active = m.active
  /\ l.settle = m.settle /\ l.pending = m.pending
  /\ l.waiting = m.waiting /\ l.stirred = m.stirred

Rested(m, l) ==
  /\ ~m.pending
  /\ l.kind = "unsolicited" /\ l.id = NoId /\ l.active = m.active
  /\ l.settle = m.settle /\ ~l.pending /\ l.waiting /\ ~l.stirred

Settled(m, l) ==
  /\ m.pending
  /\ l.kind = "settled" /\ l.id = m.active /\ l.active = NoId
  /\ l.settle = m.settle + 1 /\ ~l.pending /\ l.waiting /\ ~l.stirred

\* Without a poll, a frame publishes what it finds, if anything.
LEMMA UnpolledFrame ==
  ASSUME NEW m \in Listeners, ~m.polled, NEW read,
         NEW errors \in Seq(Messages), Frame(m, read, errors)
  PROVE  /\ listener' \in Listeners /\ ~listener'.polled
         /\ listener'.exec = m.exec
         /\ \/ Unmoved(m, listener') /\ Delivers(read, errors)
            \/ \E s : /\ Shows(s, listener') /\ Delivers(read, Append(errors, s))
                     /\ \/ Unmoved(m, listener') \/ Rested(m, listener')
                        \/ /\ Settled(m, listener')
                           /\ s.boundary \in {"interaction_ready", "quiescent"}
                           /\ s.clear \/ s.boundary = "interaction_ready"
<1> PICK stable \in BOOLEAN, flag \in BOOLEAN, offers \in Offers :
      LET found == IF stable THEN Detected(m, flag) ELSE m
          clear == IF found.stirred THEN flag ELSE ~found.endTurn
      IN Conclude(found, read, errors, clear, offers)
  BY DEF Frame
<1> DEFINE found == IF stable THEN Detected(m, flag) ELSE m
           clear == IF found.stirred THEN flag ELSE ~found.endTurn
           s == StateMessage(found, clear, offers)
<1>1. found \in Listeners /\ ~found.polled /\ found.exec = m.exec
  BY DetectedFields
<1>2. clear \in BOOLEAN
  BY <1>1 DEF Listeners
<1>3. Conclude(found, read, errors, clear, offers)
  OBVIOUS
<1>4. stable => /\ Rested(m, found) \/ Settled(m, found)
                /\ found.mustSend /\ ~found.stirred /\ found.endTurn = flag
                /\ found.boundary = IF flag THEN "interaction_ready" ELSE "quiescent"
  BY DetectedFields DEF Rested, Settled
<1>5. ~stable => found = m
  OBVIOUS
<1>6. stable => Publishing(found) /\ (clear \/ found.boundary = "interaction_ready")
                /\ found.boundary \in {"interaction_ready", "quiescent"}
  BY <1>4 DEF Publishing, HasCompletingBoundary
<1> HIDE DEF found, clear
<1>7. CASE Publishing(found)
  <2> DEFINE l == Published(found)
  <2>1. /\ l \in Listeners /\ ~l.polled /\ l.exec = found.exec
        /\ Shows(s, l) /\ Unmoved(found, l)
        /\ s.boundary = found.boundary /\ s.clear = clear
    BY <1>1, <1>2, PublishedFields DEF Shows, Unmoved
  <2>2. listener' = l /\ Delivers(read, Append(errors, s))
    BY <1>3, <1>7 DEF Conclude, Delivers
  <2> HIDE DEF s, l
  <2>3. CASE stable
    <3>1. Rested(m, l) \/ Settled(m, l)
      BY <1>4, <2>1, <2>3 DEF Unmoved, Rested, Settled
    <3> QED BY <1>1, <1>6, <2>1, <2>2, <2>3, <3>1
  <2>4. CASE ~stable
    BY <1>1, <1>5, <2>1, <2>2, <2>4
  <2> QED BY <2>3, <2>4
<1>8. CASE ~Publishing(found)
  <2>1. listener' = found /\ Delivers(read, errors)
    BY <1>3, <1>8 DEF Conclude, Delivers
  <2>2. found = m
    BY <1>5, <1>6, <1>8
  <2> QED BY <1>1, <2>1, <2>2 DEF Unmoved
<1> QED BY <1>7, <1>8

\* A poll is answered at once, in its own name unless the frame settles the
\* transaction of another command.
LEMMA PolledFrame ==
  ASSUME NEW m \in Listeners, m.polled, m.mustSend, NEW read,
         NEW errors \in Seq(Messages), Frame(m, read, errors)
  PROVE  /\ listener' \in Listeners /\ ~listener'.polled
         /\ listener'.exec = m.exec
         /\ \E s : Shows(s, listener') /\ Delivers(read, Append(errors, s))
         /\ listener'.kind = "poll" /\ listener'.active = NoId
         /\ \/ /\ listener'.id = m.active /\ listener'.settle = m.settle
               /\ listener'.pending = m.pending
               /\ listener'.waiting = m.waiting /\ listener'.stirred = m.stirred
            \/ /\ listener'.waiting /\ ~listener'.stirred /\ ~listener'.pending
               /\ IF m.pending
                  THEN listener'.id = NoId /\ listener'.settle = m.settle + 1
                  ELSE listener'.id = m.active /\ listener'.settle = m.settle
<1> PICK stable \in BOOLEAN, flag \in BOOLEAN, offers \in Offers :
      LET found == IF stable THEN Detected(m, flag) ELSE m
          clear == IF found.stirred THEN flag ELSE ~found.endTurn
      IN Conclude(found, read, errors, clear, offers)
  BY DEF Frame
<1> DEFINE found == IF stable THEN Detected(m, flag) ELSE m
           clear == IF found.stirred THEN flag ELSE ~found.endTurn
           s == StateMessage(found, clear, offers)
           l == Published(found)
<1>1. found \in Listeners /\ found.polled /\ found.mustSend /\ found.exec = m.exec
  BY DetectedFields
<1>2. clear \in BOOLEAN
  BY <1>1 DEF Listeners
<1>3. \/ found = m
      \/ /\ found.waiting /\ ~found.stirred /\ ~found.pending
         /\ IF m.pending
            THEN found.active = NoId /\ found.settle = m.settle + 1
            ELSE found.active = m.active /\ found.settle = m.settle
  BY DetectedFields
<1>4. Conclude(found, read, errors, clear, offers)
  OBVIOUS
<1> HIDE DEF found, clear
<1>5. listener' = l /\ Delivers(read, Append(errors, s))
  BY <1>1, <1>4 DEF Conclude, Delivers, Publishing, HasCompletingBoundary
<1>6. /\ l \in Listeners /\ ~l.polled /\ l.exec = found.exec /\ Shows(s, l)
      /\ l.kind = "poll" /\ l.id = found.active /\ l.active = NoId
      /\ l.settle = found.settle /\ l.pending = found.pending
      /\ l.waiting = found.waiting /\ l.stirred = found.stirred
  BY <1>1, <1>2, PublishedFields DEF Shows
<1> HIDE DEF s, l
<1> QED BY <1>1, <1>3, <1>5, <1>6

------------------------------------------------------------------------------
(* The two game actions *)

\* A response that names a command.
Names(response, id) == response.kind # "unsolicited" /\ response.id = id

\* A message that closes the transaction of command id which l had open.
Closes(l, id, msg) ==
  /\ msg.id = id /\ ~msg.pending
  /\ \/ msg.error /\ msg.kind = "rejected" /\ msg.settle = l.settle
     \/ /\ ~msg.error /\ msg.kind = "settled" /\ msg.settle = l.settle + 1
        /\ msg.boundary \in {"interaction_ready", "quiescent"}
        /\ msg.clear \/ msg.boundary = "interaction_ready"

\* Every message of a frame carries the counters the frame ends with.
FrameOutcome(read, messages) ==
  /\ messages \in Seq(Messages)
  /\ Delivers(read, messages)
  /\ listener' \in Listeners /\ ~listener'.polled
  /\ \A i \in DOMAIN messages :
       messages[i].exec = listener'.exec /\ messages[i].settle = listener'.settle

ReadOutcome(command, messages) ==
  /\ FrameOutcome({command.id} \ {NoId}, messages)
  /\ listener'.active \in {command.id, NoId}
  /\ \A i \in DOMAIN messages :
       messages[i].kind # "unsolicited" => messages[i].id \in {command.id, NoId}
  /\ listener'.kind # "unsolicited" =>
       \E i \in DOMAIN messages : Names(messages[i], listener'.id)
  /\ ReadyMeansStable => ReadyMeansStable'
  /\ IF command.verb = "state"
     THEN /\ listener'.exec = listener.exec
          /\ ~listener.pending => ~listener'.pending /\ listener'.settle = listener.settle
     ELSE /\ listener'.exec = listener.exec + 1
          /\ \/ /\ listener'.pending /\ listener'.active = command.id
                /\ listener'.settle = listener.settle
                /\ \A i \in DOMAIN messages : messages[i].kind = "unsolicited"
             \/ /\ ~listener'.pending
                /\ \E i \in DOMAIN messages : Closes(listener, command.id, messages[i])

StableOutcome(messages) ==
  /\ FrameOutcome({}, messages)
  /\ listener'.exec = listener.exec
  /\ ReadyMeansStable => ReadyMeansStable'
  /\ \/ /\ listener'.active = listener.active
        /\ listener'.pending = listener.pending /\ listener'.settle = listener.settle
        /\ listener'.kind # "unsolicited" => Names(listener, listener'.id)
        /\ \A i \in DOMAIN messages :
             messages[i].kind # "unsolicited" => Names(listener, messages[i].id)
     \/ /\ listener.pending /\ ~listener'.pending /\ listener'.active = NoId
        /\ listener'.id = listener.active
        /\ \A i \in DOMAIN messages : messages[i].id = listener.active
        /\ \E i \in DOMAIN messages :
             Names(messages[i], listener.active) /\ Closes(listener, listener.active, messages[i])

\* Between frames no poll is open, and the input is held for nobody's command.
Idle == /\ looping => inFlight = NoCommand
        /\ ~listener.polled

LEMMA ShortSequences ==
  ASSUME NEW S, NEW a \in S, NEW b \in S
  PROVE  /\ Append(<<>>, a) = <<a>> /\ <<a>> \in Seq(S)
         /\ DOMAIN <<a>> = {1} /\ <<a>>[1] = a
         /\ Append(<<a>>, b) = <<a, b>> /\ <<a, b>> \in Seq(S)
         /\ DOMAIN <<a, b>> = {1, 2} /\ <<a, b>>[1] = a /\ <<a, b>>[2] = b
<1>1. <<a>> \in Seq(S) /\ Len(<<a>>) = 1 /\ <<a>>[1] = a
  OBVIOUS
<1>2. <<a, b>> \in Seq(S) /\ Len(<<a, b>>) = 2 /\ <<a, b>>[1] = a /\ <<a, b>>[2] = b
  OBVIOUS
<1>3. Append(<<>>, a) = <<a>>
  OBVIOUS
<1>4. Append(<<a>>, b) = <<a, b>>
  <2> DEFINE one == <<a>>
             two == <<a, b>>
  <2>1. one \in Seq(S) /\ Len(one) = 1 /\ one[1] = a
    BY <1>1
  <2>2. two \in Seq(S) /\ Len(two) = 2 /\ two[1] = a /\ two[2] = b
    BY <1>2
  <2> HIDE DEF one, two
  <2>3. /\ Append(one, b) \in Seq(S) /\ Len(Append(one, b)) = 2
        /\ Append(one, b)[1] = a /\ Append(one, b)[2] = b
    <3> DEFINE t == Append(one, b)
    <3>1. /\ t \in Seq(S) /\ Len(t) = Len(one) + 1 /\ t[Len(one) + 1] = b
          /\ \A i \in 1..Len(one) : t[i] = one[i]
      BY ZenonT(60), <2>1, AppendProperties
    <3> HIDE DEF t
    <3>2. t \in Seq(S) /\ Len(t) = 2 /\ t[1] = a /\ t[2] = b
      BY <2>1, <3>1
    <3> QED BY <3>2 DEF t
  <2>4. \A i \in 1..2 : Append(one, b)[i] = two[i]
    BY <2>2, <2>3
  <2>5. Append(one, b) = two
    BY <2>2, <2>3, <2>4, SeqEqual
  <2> QED BY <2>5 DEF one, two
<1>5. DOMAIN <<a>> = {1}
  BY <1>1
<1>6. DOMAIN <<a, b>> = {1, 2}
  BY <1>2
<1> QED BY <1>1, <1>2, <1>3, <1>4, <1>5, <1>6

LEMMA ReadFrameFacts ==
  ASSUME Types, Idle, ReadFrame
  PROVE  \E messages : ReadOutcome(Head(toGame), messages)
<1> DEFINE command == Head(toGame)
           begun == Begun(listener, command)
           polled == CarriedOut(begun, command)
           refused == Refused(begun, command)
           read == {command.id} \ {NoId}
           e == Report(refused, TRUE, "unknown", TRUE, "none")
<1>1. listener \in Listeners /\ ~listener.polled /\ command \in Lines
  BY HeadTailProperties DEF Types, Idle, ReadFrame
<1>2. <<>> \in Seq(Messages)
  OBVIOUS
<1>3. CASE command.verb = "state" /\ Frame(polled, read, <<>>)
  <2>1. /\ polled \in Listeners
        /\ polled.polled /\ polled.mustSend /\ polled.active = command.id
        /\ polled.waiting = listener.waiting /\ polled.exec = listener.exec
        /\ polled.settle = listener.settle /\ polled.pending = listener.pending
        /\ polled.stirred = listener.stirred
    BY <1>1, <1>3, BegunPoll
  <2> HIDE DEF polled, command, read
  <2>2. /\ listener' \in Listeners /\ ~listener'.polled
        /\ listener'.exec = listener.exec
        /\ \E s : Shows(s, listener') /\ Delivers(read, Append(<<>>, s))
        /\ listener'.kind = "poll" /\ listener'.active = NoId
        /\ \/ /\ listener'.id = command.id /\ listener'.settle = listener.settle
              /\ listener'.pending = listener.pending
              /\ listener'.waiting = listener.waiting
              /\ listener'.stirred = listener.stirred
           \/ /\ listener'.waiting /\ ~listener'.stirred /\ ~listener'.pending
              /\ IF listener.pending
                 THEN listener'.id = NoId
                 ELSE /\ listener'.id = command.id
                      /\ listener'.settle = listener.settle
    BY <1>2, <1>3, <2>1, PolledFrame
  <2>3. PICK s : Shows(s, listener') /\ Delivers(read, Append(<<>>, s))
    BY <2>2
  <2> DEFINE messages == <<s>>
  <2>4. /\ Append(<<>>, s) = messages /\ messages \in Seq(Messages)
        /\ DOMAIN messages = {1} /\ messages[1] = s
    BY <2>3, ShortSequences DEF Shows
  <2> HIDE DEF messages
  <2>5. FrameOutcome(read, messages)
    BY <2>2, <2>3, <2>4 DEF FrameOutcome, Shows
  <2>6. ReadyMeansStable => ReadyMeansStable'
    BY <2>2 DEF ReadyMeansStable
  <2>7. ReadOutcome(command, messages)
    BY <1>3, <2>2, <2>3, <2>4, <2>5, <2>6 DEF ReadOutcome, Shows, Names, read
  <2> QED BY <2>7 DEF command
<1>4. ASSUME command.verb # "state", NEW inRun \in BOOLEAN,
             Frame(Abandoned(begun, inRun), read, <<>>)
      PROVE  \E messages : ReadOutcome(command, messages)
  <2> DEFINE carried == Abandoned(begun, inRun)
  <2>0. Frame(carried, read, <<>>)
    BY <1>4
  <2>1. /\ begun \in Listeners /\ carried \in Listeners /\ ~carried.polled
        /\ ~carried.waiting /\ carried.exec = listener.exec + 1
        /\ carried.settle = listener.settle
        /\ carried.active = command.id /\ carried.pending
        /\ carried.kind = "unsolicited"
    <3>1. /\ begun \in Listeners /\ ~begun.waiting /\ ~begun.polled
          /\ begun.exec = listener.exec + 1 /\ begun.settle = listener.settle
          /\ begun.active = command.id /\ begun.pending
          /\ begun.kind = "unsolicited"
      BY <1>1, <1>4, BegunGameplay
    <3> HIDE DEF begun, command
    <3> QED BY <3>1, AbandonedFields
  <2> HIDE DEF carried, command, read
  <2>2. /\ listener' \in Listeners /\ ~listener'.polled
        /\ listener'.exec = carried.exec
        /\ \/ Unmoved(carried, listener') /\ Delivers(read, <<>>)
           \/ \E s : /\ Shows(s, listener') /\ Delivers(read, Append(<<>>, s))
                    /\ \/ Unmoved(carried, listener') \/ Rested(carried, listener')
                       \/ /\ Settled(carried, listener')
                          /\ s.boundary \in {"interaction_ready", "quiescent"}
                          /\ s.clear \/ s.boundary = "interaction_ready"
    BY <1>2, <2>0, <2>1, UnpolledFrame
  <2>3. CASE Unmoved(carried, listener') /\ Delivers(read, <<>>)
    <3>1. ReadOutcome(command, <<>>)
      BY <1>2, <1>4, <2>1, <2>2, <2>3
         DEF ReadOutcome, FrameOutcome, Unmoved, ReadyMeansStable, read
    <3> QED BY <3>1 DEF command
  <2>4. ASSUME NEW s, Shows(s, listener'), Delivers(read, Append(<<>>, s)),
               \/ Unmoved(carried, listener') \/ Rested(carried, listener')
               \/ /\ Settled(carried, listener')
                  /\ s.boundary \in {"interaction_ready", "quiescent"}
                  /\ s.clear \/ s.boundary = "interaction_ready"
        PROVE  ReadOutcome(command, <<s>>)
    <3> DEFINE messages == <<s>>
    <3>1. /\ Append(<<>>, s) = messages /\ messages \in Seq(Messages)
          /\ DOMAIN messages = {1} /\ messages[1] = s
      BY <2>4, ShortSequences DEF Shows
    <3> HIDE DEF messages
    <3>2. FrameOutcome(read, messages)
      BY <2>2, <2>4, <3>1 DEF FrameOutcome, Shows
    <3>3. ReadyMeansStable => ReadyMeansStable'
      BY <2>1, <2>4 DEF ReadyMeansStable, Unmoved, Rested, Settled
    <3>4. CASE Unmoved(carried, listener')
      BY <1>4, <2>1, <2>2, <2>4, <3>1, <3>2, <3>3, <3>4
         DEF ReadOutcome, Shows, Names, Unmoved, read
    <3>5. CASE Settled(carried, listener')
      <4>1. Closes(listener, command.id, messages[1])
        BY <2>1, <2>4, <3>1, <3>5 DEF Closes, Shows, Unmoved, Rested, Settled
      <4> QED BY <1>4, <2>1, <2>2, <2>4, <3>1, <3>2, <3>3, <3>5, <4>1
                 DEF ReadOutcome, Shows, Names, Settled, read
    <3> QED BY <2>1, <2>4, <3>4, <3>5 DEF Rested, messages
  <2> QED BY <2>2, <2>3, <2>4 DEF command
<1>5. CASE command.verb # "state" /\ Frame(refused, read, <<e>>)
  <2>1. /\ refused \in Listeners /\ ~refused.polled
        /\ refused.waiting = listener.waiting /\ ~refused.pending
        /\ refused.id = command.id /\ refused.kind = "rejected"
        /\ refused.active = NoId
        /\ refused.exec = listener.exec + 1 /\ refused.settle = listener.settle
        /\ refused.stirred = listener.stirred
    <3>1. /\ begun \in Listeners /\ begun.before = listener.waiting
          /\ begun.exec = listener.exec + 1 /\ begun.settle = listener.settle
          /\ begun.stirred = listener.stirred
      BY <1>1, <1>5, BegunGameplay
    <3> HIDE DEF begun, command
    <3> QED BY <1>1, <3>1, RefusedFields
  <2>2. /\ e \in Messages /\ e.error /\ e.kind = "rejected" /\ e.id = command.id
        /\ e.exec = listener.exec + 1 /\ e.settle = listener.settle /\ ~e.pending
    <3> HIDE DEF refused
    <3>1. /\ e \in Messages /\ e.error
          /\ e.kind = refused.kind /\ e.id = refused.id
          /\ e.exec = refused.exec /\ e.settle = refused.settle
          /\ e.pending = refused.pending
      BY <2>1, ErrorFields
    <3> HIDE DEF e
    <3> QED BY <2>1, <3>1
  <2> HIDE DEF refused, command, read, e
  <2>3. <<e>> \in Seq(Messages)
    BY <2>2
  <2>4. /\ listener' \in Listeners /\ ~listener'.polled
        /\ listener'.exec = refused.exec
        /\ \/ Unmoved(refused, listener') /\ Delivers(read, <<e>>)
           \/ \E s : /\ Shows(s, listener') /\ Delivers(read, Append(<<e>>, s))
                    /\ \/ Unmoved(refused, listener') \/ Rested(refused, listener')
                       \/ /\ Settled(refused, listener')
                          /\ s.boundary \in {"interaction_ready", "quiescent"}
                          /\ s.clear \/ s.boundary = "interaction_ready"
    BY <1>5, <2>1, <2>3, UnpolledFrame
  <2>5. CASE Unmoved(refused, listener') /\ Delivers(read, <<e>>)
    <3>1. ReadOutcome(command, <<e>>)
      BY <1>5, <2>1, <2>2, <2>3, <2>4, <2>5
         DEF ReadOutcome, FrameOutcome, Unmoved, ReadyMeansStable, Closes, Names, read
    <3> QED BY <3>1 DEF command
  <2>6. ASSUME NEW s, Shows(s, listener'), Delivers(read, Append(<<e>>, s)),
               Unmoved(refused, listener') \/ Rested(refused, listener')
        PROVE  ReadOutcome(command, <<e, s>>)
    <3> DEFINE messages == <<e, s>>
    <3>1. /\ Append(<<e>>, s) = messages /\ messages \in Seq(Messages)
          /\ DOMAIN messages = {1, 2} /\ messages[1] = e /\ messages[2] = s
      BY <2>2, <2>6, ShortSequences DEF Shows
    <3> HIDE DEF messages
    <3>2. FrameOutcome(read, messages)
      BY <2>1, <2>2, <2>4, <2>6, <3>1 DEF FrameOutcome, Shows, Unmoved, Rested
    <3>3. ReadyMeansStable => ReadyMeansStable'
      BY <2>1, <2>6 DEF ReadyMeansStable, Unmoved, Rested
    <3>4. Closes(listener, command.id, messages[1])
      BY <2>2, <3>1 DEF Closes
    <3>5. ReadOutcome(command, messages)
      BY <1>5, <2>1, <2>2, <2>4, <2>6, <3>1, <3>2, <3>3, <3>4
         DEF ReadOutcome, Shows, Names, Unmoved, Rested, read
    <3> QED BY <3>5 DEF messages
  <2> QED BY <2>1, <2>4, <2>5, <2>6 DEF command, Settled
<1>6. CASE command.verb = "play" /\ Frame(polled, read, <<>>)
  <2>1. begun \in Listeners
    BY <1>1, <1>6, BegunGameplay
  <2>2. polled = Abandoned(begun, TRUE)
    BY <1>6, <2>1, CarriedOutGameplay
  <2> QED BY <1>4, <1>6, <2>2
<1>7. CASE command.verb = "abandon" /\
             \E inRun \in BOOLEAN : Frame(Abandoned(begun, inRun), read, <<>>)
  BY <1>4, <1>7
<1> QED BY <1>3, <1>5, <1>6, <1>7 DEF ReadFrame

LEMMA StableFrameFacts ==
  ASSUME Types, Idle, StableFrame
  PROVE  \E messages : StableOutcome(messages)
<1>1. listener \in Listeners /\ ~listener.polled /\ <<>> \in Seq(Messages)
  BY DEF Types, Idle
<1>2. /\ listener' \in Listeners /\ ~listener'.polled
      /\ listener'.exec = listener.exec
      /\ \/ Unmoved(listener, listener') /\ Delivers({}, <<>>)
         \/ \E s : /\ Shows(s, listener') /\ Delivers({}, Append(<<>>, s))
                  /\ \/ Unmoved(listener, listener') \/ Rested(listener, listener')
                     \/ /\ Settled(listener, listener')
                        /\ s.boundary \in {"interaction_ready", "quiescent"}
                        /\ s.clear \/ s.boundary = "interaction_ready"
  BY <1>1, UnpolledFrame DEF StableFrame
<1>3. CASE Unmoved(listener, listener') /\ Delivers({}, <<>>)
  <2>1. StableOutcome(<<>>)
    BY <1>1, <1>2, <1>3
       DEF StableOutcome, FrameOutcome, Unmoved, ReadyMeansStable, Names
  <2> QED BY <2>1
<1>4. ASSUME NEW s, Shows(s, listener'), Delivers({}, Append(<<>>, s)),
             \/ Unmoved(listener, listener') \/ Rested(listener, listener')
             \/ /\ Settled(listener, listener')
                /\ s.boundary \in {"interaction_ready", "quiescent"}
                /\ s.clear \/ s.boundary = "interaction_ready"
      PROVE  StableOutcome(<<s>>)
  <2> DEFINE messages == <<s>>
  <2>1. /\ Append(<<>>, s) = messages /\ messages \in Seq(Messages)
        /\ DOMAIN messages = {1} /\ messages[1] = s
    BY <1>4, ShortSequences DEF Shows
  <2> HIDE DEF messages
  <2>2. FrameOutcome({}, messages)
    BY <1>2, <1>4, <2>1 DEF FrameOutcome, Shows
  <2>3. ReadyMeansStable => ReadyMeansStable'
    BY <1>4 DEF ReadyMeansStable, Unmoved, Rested, Settled
  <2>4. CASE Settled(listener, listener')
    <3>1. Closes(listener, listener.active, messages[1])
      BY <1>4, <2>1, <2>4 DEF Closes, Shows, Rested, Settled, Unmoved
    <3>2. Names(messages[1], listener.active)
      BY <1>4, <2>1, <2>4 DEF Names, Shows, Settled
    <3> QED BY <1>2, <1>4, <2>1, <2>2, <2>3, <2>4, <3>1, <3>2
              DEF StableOutcome, Shows, Settled, messages
  <2>5. CASE Unmoved(listener, listener') \/ Rested(listener, listener')
    <3>1. listener'.pending = listener.pending
      BY <1>1, <1>2, <2>5 DEF Unmoved, Rested, Listeners
    <3>2. StableOutcome(messages)
      BY <1>1, <1>2, <1>4, <2>1, <2>2, <2>3, <2>5, <3>1
         DEF StableOutcome, Shows, Names, Unmoved, Rested
    <3> QED BY <3>2 DEF messages
  <2> QED BY <1>4, <2>4, <2>5
<1> QED BY <1>2, <1>3, <1>4

------------------------------------------------------------------------------
(* Lines on their way *)

In(lines, id) == \E i \in DOMAIN lines : lines[i].id = id
Once(lines) ==
  \A i, j \in DOMAIN lines :
    lines[i].id = lines[j].id => i = j \/ lines[i].id = NoId

LEMMA AppendLine ==
  ASSUME NEW q \in Seq(Lines), NEW line \in Lines
  PROVE  /\ Append(q, line) \in Seq(Lines)
         /\ \A id : In(Append(q, line), id) <=> In(q, id) \/ line.id = id
         /\ Once(q) /\ (line.id = NoId \/ ~In(q, line.id)) => Once(Append(q, line))
<1> DEFINE a == Append(q, line)
<1>1. /\ a \in Seq(Lines) /\ Len(a) = Len(q) + 1 /\ a[Len(q) + 1] = line
      /\ \A i \in 1..Len(q) : a[i] = q[i]
  BY AppendProperties
<1>2. DOMAIN q = 1..Len(q) /\ DOMAIN a = 1..Len(a) /\ Len(q) \in Nat
  BY <1>1, LenProperties
<1> HIDE DEF a
<1>3. \A i \in DOMAIN a :
        \/ i \in DOMAIN q /\ a[i] = q[i]
        \/ i = Len(q) + 1 /\ a[i] = line
  BY <1>1, <1>2
<1>4. DOMAIN q \subseteq DOMAIN a /\ Len(q) + 1 \in DOMAIN a
  BY <1>1, <1>2
<1>5. \A id : In(a, id) <=> In(q, id) \/ line.id = id
  BY <1>1, <1>2, <1>3, <1>4 DEF In
<1>6. Once(q) /\ (line.id = NoId \/ ~In(q, line.id)) => Once(a)
  BY <1>3 DEF Once, In
<1> QED BY <1>1, <1>5, <1>6 DEF a

LEMMA TailLine ==
  ASSUME NEW q \in Seq(Lines), q # <<>>
  PROVE  /\ Tail(q) \in Seq(Lines) /\ Head(q) \in Lines
         /\ \A id : In(q, id) <=> Head(q).id = id \/ In(Tail(q), id)
         /\ Once(q) => /\ Once(Tail(q))
                       /\ Head(q).id # NoId => ~In(Tail(q), Head(q).id)
<1> DEFINE t == Tail(q)
<1>1. /\ t \in Seq(Lines) /\ Len(t) = Len(q) - 1 /\ Head(q) = q[1]
      /\ \A i \in 1..Len(t) : t[i] = q[i + 1]
  BY HeadTailProperties
<1>2. /\ DOMAIN q = 1..Len(q) /\ DOMAIN t = 1..Len(t)
      /\ Len(q) \in Nat \ {0} /\ Len(t) \in Nat
  BY <1>1, LenProperties, EmptySeq
<1>3. Head(q) \in Lines
  BY HeadTailProperties
<1> HIDE DEF t
<1>4. \A i \in DOMAIN t : i + 1 \in DOMAIN q /\ t[i] = q[i + 1] /\ i + 1 # 1
  BY <1>1, <1>2
<1>5. \A i \in DOMAIN q :
        \/ i = 1
        \/ i - 1 \in DOMAIN t /\ t[i - 1] = q[i]
  BY <1>1, <1>2
<1>6. \A id : In(q, id) <=> Head(q).id = id \/ In(t, id)
  <2> TAKE id
  <2>1. 1 \in DOMAIN q /\ q[1] = Head(q)
    BY <1>1, <1>2
  <2>2. ASSUME In(q, id) PROVE Head(q).id = id \/ In(t, id)
    <3>1. PICK i \in DOMAIN q : q[i].id = id
      BY <2>2 DEF In
    <3> QED BY <1>5, <2>1, <3>1 DEF In
  <2>3. ASSUME Head(q).id = id \/ In(t, id) PROVE In(q, id)
    BY <1>4, <2>1, <2>3 DEF In
  <2> QED BY <2>2, <2>3
<1>7. ASSUME Once(q) PROVE Once(t) /\ (Head(q).id # NoId => ~In(t, Head(q).id))
  BY SMTT(20), <1>1, <1>2, <1>4, <1>7 DEF Once, In
<1> QED BY <1>1, <1>3, <1>6, <1>7 DEF t

LEMMA KeptLines ==
  ASSUME NEW q \in Seq(Lines), NEW n \in 0..Len(q), n # 0
  PROVE  LET s == SubSeq(q, 2, n)
         IN /\ s \in Seq(Lines)
            /\ \A id : In(s, id) => In(q, id)
            /\ Once(q) => Once(s)
<1> DEFINE s == SubSeq(q, 2, n)
<1>1. Len(q) \in Nat /\ n \in Nat /\ n >= 1 /\ n <= Len(q) /\ DOMAIN q = 1..Len(q)
  BY LenProperties
<1>2. \A i \in 2..n : q[i] \in Lines
  BY <1>1, ElementOfSeq
<1>3. /\ s \in Seq(Lines) /\ Len(s) = n - 1
      /\ \A i \in 1..n - 1 : s[i] = q[i + 1]
  BY <1>1, <1>2, SubSeqProperties
<1>4. DOMAIN s = 1..n - 1
  BY <1>3, LenProperties
<1> HIDE DEF s
<1>5. \A i \in DOMAIN s : i \in Int /\ i + 1 \in DOMAIN q /\ s[i] = q[i + 1]
  BY <1>1, <1>3, <1>4
<1>6. \A id : In(s, id) => In(q, id)
  BY <1>5 DEF In
<1>7. Once(q) => Once(s)
  BY <1>5 DEF Once
<1> QED BY <1>3, <1>6, <1>7 DEF s

\* What a frame delivers, and what it makes of the commands.
Delivered(read, messages) ==
  /\ toBridge' \in Seq(Messages)
  /\ fate' \in [CommandIds -> {"none", "executed", "answered"}]
  /\ \A id \in CommandIds :
       fate'[id] =
         IF /\ \E i \in DOMAIN messages : Names(messages[i], id)
            /\ fate[id] # "none" \/ id \in read
         THEN "answered" ELSE IF id \in read THEN "executed" ELSE fate[id]
  /\ \A i \in DOMAIN toBridge' :
       \/ i \in DOMAIN toBridge /\ toBridge'[i] = toBridge[i]
       \/ /\ i \notin DOMAIN toBridge
          /\ i - Len(toBridge) \in DOMAIN messages
          /\ toBridge'[i] = messages[i - Len(toBridge)]
  /\ \A i \in DOMAIN toBridge : i \in DOMAIN toBridge' /\ toBridge'[i] = toBridge[i]
  /\ \A j \in DOMAIN messages :
       /\ Len(toBridge) + j \in DOMAIN toBridge'
       /\ toBridge'[Len(toBridge) + j] = messages[j]

LEMMA DeliveryFacts ==
  ASSUME Types, NEW read \in SUBSET CommandIds, NEW messages \in Seq(Messages),
         Delivers(read, messages)
  PROVE  Delivered(read, messages)
<1>1. toBridge \in Seq(Messages) /\ toBridge' = toBridge \o messages
  BY DEF Types, Delivers
<1>2. /\ toBridge' \in Seq(Messages)
      /\ Len(toBridge') = Len(toBridge) + Len(messages)
      /\ \A i \in 1..Len(toBridge) + Len(messages) :
           toBridge'[i] = IF i <= Len(toBridge) THEN toBridge[i]
                          ELSE messages[i - Len(toBridge)]
  BY <1>1, ConcatProperties
<1>3. /\ DOMAIN toBridge = 1..Len(toBridge) /\ DOMAIN messages = 1..Len(messages)
      /\ DOMAIN toBridge' = 1..Len(toBridge')
      /\ Len(toBridge) \in Nat /\ Len(messages) \in Nat
  BY <1>1, <1>2, LenProperties
<1>4. \A id : id \in Answers(messages) <=> \E i \in DOMAIN messages : Names(messages[i], id)
  BY DEF Answers, Names
<1>5. fate' = Judged(read, messages) /\ fate \in [CommandIds -> {"none", "executed", "answered"}]
  BY DEF Delivers, Types
<1>6. /\ fate' \in [CommandIds -> {"none", "executed", "answered"}]
      /\ \A id \in CommandIds :
           fate'[id] =
             IF id \in Answers(messages) /\ (fate[id] # "none" \/ id \in read)
             THEN "answered" ELSE IF id \in read THEN "executed" ELSE fate[id]
  BY <1>5 DEF Judged
<1>7. \A i \in DOMAIN toBridge' :
        \/ i \in DOMAIN toBridge /\ toBridge'[i] = toBridge[i]
        \/ /\ i \notin DOMAIN toBridge
           /\ i - Len(toBridge) \in DOMAIN messages
           /\ toBridge'[i] = messages[i - Len(toBridge)]
  BY <1>2, <1>3
<1>8. \A i \in DOMAIN toBridge : i \in DOMAIN toBridge' /\ toBridge'[i] = toBridge[i]
  BY <1>2, <1>3
<1>9. \A j \in DOMAIN messages : /\ Len(toBridge) + j \in DOMAIN toBridge'
                                 /\ toBridge'[Len(toBridge) + j] = messages[j]
  BY <1>2, <1>3
<1>10. \A id \in CommandIds :
         fate'[id] =
           IF /\ \E i \in DOMAIN messages : Names(messages[i], id)
              /\ fate[id] # "none" \/ id \in read
           THEN "answered" ELSE IF id \in read THEN "executed" ELSE fate[id]
  BY <1>4, <1>6, Zenon
<1> QED BY <1>2, <1>6, <1>7, <1>8, <1>9, <1>10 DEF Delivered

------------------------------------------------------------------------------
(* The inductive invariant *)

\* Whatever is known of a command, a bridge process has accepted it.
OnlyAccepted ==
  /\ \A id \in CommandIds \ Known :
       /\ fate[id] = "none" /\ told[id] = "nothing"
       /\ ~In(toGame, id) /\ ~In(queue, id)
  /\ inFlight = NoCommand \/ inFlight.id \in seen
  /\ \A command \in waiters : command.id \in seen
  /\ \A i \in DOMAIN queue : queue[i].id \in seen

\* A command is in one place only: queued, on its way, or with the game.
OnePlace ==
  /\ Once(toGame)
  /\ \A id \in CommandIds :
       /\ In(toGame, id) \/ In(queue, id) => fate[id] = "none"
       /\ ~(In(toGame, id) /\ In(queue, id))

VerdictsStand ==
  \A id \in CommandIds :
    /\ told[id] = "observed" => fate[id] = "answered"
    /\ told[id] = "cancelled" =>
         fate[id] = "none" /\ ~In(toGame, id) /\ ~In(queue, id)

\* What a response names was answered.
NamedAreAnswered ==
  \A id \in CommandIds :
    /\ Names(listener, id) => fate[id] = "answered"
    /\ \A i \in DOMAIN toBridge : Names(toBridge[i], id) => fate[id] = "answered"
    /\ listener.active = id => fate[id] # "none"

IInv ==
  /\ Types /\ OnlyAccepted /\ OnePlace /\ VerdictsStand
  /\ NamedAreAnswered /\ QueuedHoldsBridge /\ Idle

LEMMA InitHolds == ASSUME Init PROVE IInv
<1>1. Booted \in Listeners /\ ~Booted.polled
  BY DEF Booted, Listeners, MaybeId, Kinds, Boundaries
<1>2. NoCommand \in Attempts
  BY DEF NoCommand, Attempts, MaybeId, Verbs
<1>3. /\ <<>> \in Seq(Lines) /\ <<>> \in Seq(Messages)
      /\ \A id : ~In(<<>>, id)
      /\ Once(<<>>)
  BY DEF In, Once
<1>4. Types
  BY <1>1, <1>2, <1>3 DEF Init, Types
<1>5. OnlyAccepted /\ OnePlace /\ VerdictsStand
  BY <1>3 DEF Init, OnlyAccepted, OnePlace, VerdictsStand
<1>6. NamedAreAnswered
  <2>1. listener.kind = "unsolicited" /\ listener.active = NoId
    BY DEF Init, Booted
  <2>2. DOMAIN toBridge = {}
    BY DEF Init
  <2> QED BY <2>1, <2>2, NoIdAssumption DEF NamedAreAnswered, Names
<1>7. QueuedHoldsBridge /\ Idle
  BY <1>1 DEF Init, QueuedHoldsBridge, Idle
<1> QED BY <1>4, <1>5, <1>6, <1>7 DEF IInv

LEMMA ReadFrameKeeps == ASSUME IInv, ReadFrame PROVE IInv'
<1> DEFINE command == Head(toGame)
           read == {command.id} \ {NoId}
<1> USE DEF IInv
<1>1. PICK messages : ReadOutcome(command, messages)
  BY ReadFrameFacts
<1>2. /\ toGame \in Seq(Lines) /\ toGame # <<>> /\ toGame' = Tail(toGame)
      /\ UNCHANGED <<polling, bridge, former, restarts>>
  BY DEF Types, ReadFrame
<1>3. /\ toGame' \in Seq(Lines) /\ command \in Lines
      /\ \A id : In(toGame, id) <=> command.id = id \/ In(toGame', id)
      /\ Once(toGame')
      /\ command.id # NoId => ~In(toGame', command.id)
  BY <1>2, TailLine DEF OnePlace
<1>4. read \in SUBSET CommandIds
  BY <1>3 DEF Lines, MaybeId
<1> HIDE DEF command
<1>5. messages \in Seq(Messages) /\ Delivers(read, messages)
  BY <1>1 DEF ReadOutcome, FrameOutcome
<1>6. Delivered(read, messages)
  BY <1>4, <1>5, DeliveryFacts
<1>7. Types'
  BY <1>1, <1>2, <1>3, <1>6 DEF Types, ReadOutcome, FrameOutcome, Delivered, bridge
<1>8. /\ \A id \in CommandIds : id # command.id => fate'[id] = fate[id]
      /\ command.id \in CommandIds =>
           /\ fate[command.id] = "none" /\ command.id \in Known
           /\ told[command.id] # "observed" /\ told[command.id] # "cancelled"
           /\ fate'[command.id] \in {"executed", "answered"}
  <2>1. \A id \in CommandIds : id # command.id =>
          ~\E i \in DOMAIN messages : Names(messages[i], id)
    BY <1>1, NoIdAssumption DEF ReadOutcome, Names
  <2>2. \A id \in CommandIds : id # command.id => fate'[id] = fate[id]
    BY <1>6, <2>1 DEF Delivered
  <2>3. ASSUME command.id \in CommandIds
        PROVE  fate'[command.id] \in {"executed", "answered"}
    BY <1>6, <2>3, NoIdAssumption DEF Delivered
  <2>4. ASSUME command.id \in CommandIds
        PROVE  /\ fate[command.id] = "none" /\ command.id \in Known
               /\ told[command.id] # "observed" /\ told[command.id] # "cancelled"
    BY <1>3, <2>4 DEF OnePlace, OnlyAccepted, VerdictsStand
  <2> QED BY <2>2, <2>3, <2>4
<1>9. OnlyAccepted'
  BY <1>2, <1>3, <1>8 DEF OnlyAccepted, bridge, Known
<1>10. OnePlace'
  BY <1>2, <1>3, <1>8, NoIdAssumption DEF OnePlace, bridge
<1>11. VerdictsStand'
  BY <1>2, <1>3, <1>8 DEF VerdictsStand, bridge
<1>12. NamedAreAnswered'
  <2> SUFFICES ASSUME NEW id \in CommandIds
               PROVE  /\ Names(listener', id) => fate'[id] = "answered"
                      /\ \A i \in DOMAIN toBridge' :
                           Names(toBridge'[i], id) => fate'[id] = "answered"
                      /\ listener'.active = id => fate'[id] # "none"
    BY DEF NamedAreAnswered, Names
  <2>1. ASSUME NEW i \in DOMAIN messages, Names(messages[i], id)
        PROVE  fate'[id] = "answered"
    BY <1>1, <1>6, <2>1, NoIdAssumption DEF ReadOutcome, Names, Delivered
  <2>2. Names(listener', id) => fate'[id] = "answered"
    BY <1>1, <2>1 DEF ReadOutcome, Names
  <2>3. ASSUME NEW i \in DOMAIN toBridge', Names(toBridge'[i], id)
        PROVE  fate'[id] = "answered"
    <3>1. CASE i \in DOMAIN toBridge /\ toBridge'[i] = toBridge[i]
      BY <1>8, <2>3, <3>1 DEF NamedAreAnswered
    <3> QED BY <1>6, <2>1, <2>3, <3>1 DEF Delivered
  <2>4. listener'.active = id => fate'[id] # "none"
    BY <1>1, <1>8, NoIdAssumption DEF ReadOutcome
  <2> QED BY <2>2, <2>3, <2>4
<1>13. QueuedHoldsBridge' /\ Idle'
  BY <1>1, <1>2 DEF QueuedHoldsBridge, Idle, bridge, ReadOutcome, FrameOutcome
<1> QED BY <1>7, <1>9, <1>10, <1>11, <1>12, <1>13

LEMMA StableFrameKeeps == ASSUME IInv, StableFrame PROVE IInv'
<1> USE DEF IInv
<1>1. PICK messages : StableOutcome(messages)
  BY StableFrameFacts
<1>2. UNCHANGED <<polling, bridge, former, toGame, restarts>>
  BY DEF StableFrame
<1>3. messages \in Seq(Messages) /\ Delivers({}, messages)
  BY <1>1 DEF StableOutcome, FrameOutcome
<1>4. Delivered({}, messages)
  BY <1>3, DeliveryFacts
<1>5. Types'
  BY <1>1, <1>2, <1>4 DEF Types, StableOutcome, FrameOutcome, Delivered, bridge
<1>6. \A id \in CommandIds :
        \/ fate'[id] = fate[id]
        \/ fate[id] = "executed" /\ fate'[id] = "answered"
  BY <1>4 DEF Types, Delivered
<1>7. OnlyAccepted' /\ OnePlace' /\ VerdictsStand'
  BY <1>2, <1>6 DEF OnlyAccepted, OnePlace, VerdictsStand, bridge, Known
<1>8. NamedAreAnswered'
  <2> SUFFICES ASSUME NEW id \in CommandIds
               PROVE  /\ Names(listener', id) => fate'[id] = "answered"
                      /\ \A i \in DOMAIN toBridge' :
                           Names(toBridge'[i], id) => fate'[id] = "answered"
                      /\ listener'.active = id => fate'[id] # "none"
    BY DEF NamedAreAnswered, Names
  <2>1. ASSUME NEW i \in DOMAIN messages, Names(messages[i], id)
        PROVE  fate'[id] = "answered"
    <3>1. fate[id] # "none"
      BY <1>1, <2>1 DEF StableOutcome, Names, NamedAreAnswered
    <3> QED BY <1>4, <2>1, <3>1 DEF Delivered
  <2>2. Names(listener', id) => fate'[id] = "answered"
    BY <1>1, <1>4, <1>6, <2>1 DEF StableOutcome, Names, NamedAreAnswered, Delivered
  <2>3. ASSUME NEW i \in DOMAIN toBridge', Names(toBridge'[i], id)
        PROVE  fate'[id] = "answered"
    <3>1. CASE i \in DOMAIN toBridge /\ toBridge'[i] = toBridge[i]
      BY <1>6, <2>3, <3>1 DEF NamedAreAnswered
    <3> QED BY <1>4, <2>1, <2>3, <3>1 DEF Delivered
  <2>4. listener'.active = id => fate'[id] # "none"
    BY <1>1, <1>6, NoIdAssumption DEF StableOutcome, NamedAreAnswered
  <2> QED BY <2>2, <2>3, <2>4
<1>9. QueuedHoldsBridge' /\ Idle'
  BY <1>1, <1>2 DEF QueuedHoldsBridge, Idle, bridge, StableOutcome, FrameOutcome
<1> QED BY <1>5, <1>7, <1>8, <1>9

LEMMA CompletesNames ==
  ASSUME NEW command, NEW msg, Completes(command, msg)
  PROVE  Names(msg, command.id)
BY DEF Completes, Names

\* Only an answer to itself ends the command in flight.
LEMMA DoneIsAnswered ==
  ASSUME IInv, toBridge # <<>>, inFlight # NoCommand,
         Completes(inFlight, Head(toBridge))
  PROVE  inFlight.id \in seen /\ fate[inFlight.id] = "answered" /\ queue = <<>>
<1> USE DEF IInv
<1>1. inFlight.id \in seen /\ seen \subseteq CommandIds
  BY DEF OnlyAccepted, Types
<1>2. Names(Head(toBridge), inFlight.id)
  BY CompletesNames
<1>3. 1 \in DOMAIN toBridge /\ toBridge[1] = Head(toBridge)
  <2>1. toBridge \in Seq(Messages)
    BY DEF Types
  <2> QED BY <2>1, LenProperties, EmptySeq
<1>4. fate[inFlight.id] = "answered"
  BY <1>1, <1>2, <1>3 DEF NamedAreAnswered
<1>5. ASSUME queue # <<>> PROVE FALSE
  <2>1. 1 \in DOMAIN queue /\ queue[1].id = inFlight.id
    BY <1>5, LenProperties DEF QueuedHoldsBridge, Types
  <2> QED BY <1>1, <1>4, <2>1 DEF OnePlace, In
<1> QED BY <1>1, <1>4, <1>5

LEMMA QueuedIsReal ==
  ASSUME IInv, queue # <<>>
  PROVE  /\ DOMAIN queue = {1} /\ queue[1].id = inFlight.id /\ ~looping
         /\ inFlight # NoCommand /\ inFlight.id \in seen
<1>1. DOMAIN queue = {1} /\ queue[1].id = inFlight.id /\ ~looping
  BY LenProperties DEF IInv, QueuedHoldsBridge, Types
<1>2. inFlight.id \in seen /\ seen \subseteq CommandIds
  BY <1>1 DEF IInv, OnlyAccepted, Types
<1> QED BY <1>1, <1>2, NoIdAssumption DEF NoCommand

LEMMA ReceiveLineKeeps == ASSUME IInv, ReceiveLine PROVE IInv'
<1> USE DEF IInv
<1> DEFINE msg == Head(toBridge)
           answered == {command \in waiters : Completes(command, msg)}
           done == inFlight # NoCommand /\ Completes(inFlight, msg)
<1>1. /\ toBridge' \in Seq(Messages) /\ msg \in Messages
      /\ 1 \in DOMAIN toBridge /\ toBridge[1] = msg
      /\ \A i \in DOMAIN toBridge' : i + 1 \in DOMAIN toBridge /\ toBridge'[i] = toBridge[i + 1]
  <2>1. toBridge \in Seq(Messages) /\ toBridge # <<>> /\ toBridge' = Tail(toBridge)
    BY DEF Types, ReceiveLine
  <2>2. /\ toBridge' \in Seq(Messages) /\ msg \in Messages /\ msg = toBridge[1]
        /\ Len(toBridge') = Len(toBridge) - 1
        /\ \A i \in 1..Len(toBridge') : toBridge'[i] = toBridge[i + 1]
    BY <2>1, HeadTailProperties
  <2>3. /\ DOMAIN toBridge = 1..Len(toBridge) /\ DOMAIN toBridge' = 1..Len(toBridge')
        /\ Len(toBridge) \in Nat \ {0}
    BY <2>1, <2>2, LenProperties, EmptySeq
  <2> QED BY <2>2, <2>3
<1>2. /\ latest' = [error |-> msg.error, ready |-> msg.ready, offers |-> msg.offers,
                    exec |-> msg.exec, settle |-> msg.settle]
      /\ inFlight' = IF done THEN NoCommand ELSE inFlight
      /\ looping' = (done \/ inFlight = NoCommand)
      /\ waiters' = waiters \ answered
      /\ Told({command.id : command \in answered}, "observed")
      /\ UNCHANGED <<polling, queue, seen, owner, former, toGame, game, restarts>>
  BY DEF ReceiveLine
<1> HIDE DEF msg
<1>3. \A id \in CommandIds :
        \/ told'[id] = told[id]
        \/ told'[id] = "observed" /\ id \in seen /\ fate[id] = "answered"
  <2> SUFFICES ASSUME NEW id \in CommandIds, told'[id] # told[id]
               PROVE  told'[id] = "observed" /\ id \in seen /\ fate[id] = "answered"
    OBVIOUS
  <2>1. told'[id] = "observed" /\ \E command \in answered : command.id = id
    BY <1>2 DEF Told
  <2>2. PICK command \in waiters : Completes(command, msg) /\ command.id = id
    BY <2>1
  <2>3. id \in seen
    BY <2>2 DEF OnlyAccepted
  <2>4. fate[id] = "answered"
    BY <1>1, <2>2, CompletesNames DEF NamedAreAnswered
  <2> QED BY <2>1, <2>3, <2>4
<1>4. told' \in [CommandIds -> {"nothing", "observed", "cancelled"}]
  BY <1>2 DEF Told, Types
<1>5. NoCommand \in Attempts
  BY DEF NoCommand, Attempts, MaybeId, Verbs
<1>6. latest' \in Summaries
  BY <1>1, <1>2 DEF Summaries, Messages
<1> HIDE DEF answered
<1>7. Types'
  BY <1>1, <1>2, <1>4, <1>5, <1>6 DEF Types, game
<1> HIDE DEF done
<1>8. OnlyAccepted'
  BY <1>2, <1>3 DEF OnlyAccepted, Known, game
<1>9. OnePlace'
  BY <1>2 DEF OnePlace, game
<1>10. VerdictsStand'
  BY <1>2, <1>3 DEF VerdictsStand, OnlyAccepted, game
<1>11. NamedAreAnswered'
  BY <1>1, <1>2 DEF NamedAreAnswered, Names, game
<1>12. QueuedHoldsBridge'
  <2> SUFFICES ASSUME queue # <<>>
               PROVE  Len(queue) = 1 /\ queue[1].id = inFlight'.id /\ ~looping'
    BY <1>2 DEF QueuedHoldsBridge
  <2>1. ~done
    BY DoneIsAnswered DEF done, msg, ReceiveLine
  <2> QED BY <1>2, <2>1, QueuedIsReal DEF QueuedHoldsBridge
<1>13. Idle'
  BY <1>2 DEF Idle, game
<1> QED BY <1>7, <1>8, <1>9, <1>10, <1>11, <1>12, <1>13

LEMMA AttemptFields ==
  ASSUME Types, NEW id \in CommandIds, NEW verb \in Verbs
  PROVE  LET command == Attempt(id, verb)
         IN /\ command \in Attempts /\ command.id = id /\ command.verb = verb
            /\ command.exec = IF latest = Unread THEN 0 ELSE latest.exec
            /\ command.settle = IF latest = Unread THEN 0 ELSE latest.settle
            /\ Line(command) \in Lines
            /\ Line(command).id = id /\ Line(command).verb = verb
BY DEF Attempt, AtStartup, Attempts, Line, Lines, MaybeId, Types, Summaries

\* What a new command finds, and how it leaves the bridge.
LEMMA SubmitFacts ==
  ASSUME IInv, NEW c, NEW id \in CommandIds, NEW verb \in {"state", "play", "abandon"},
         Submit(c, id, verb)
  PROVE  LET command == Attempt(id, verb)
         IN /\ id \notin Known /\ queue = <<>> /\ inFlight = NoCommand
            /\ Allowed(verb)
            /\ seen' = seen \union {id} /\ inFlight' = command
            /\ waiters' \in {waiters, waiters \union {command}}
            /\ ~looping' /\ looping' \in BOOLEAN
            /\ \/ toGame' = Append(toGame, Line(command)) /\ queue' = queue
               \/ toGame' = toGame /\ queue' = Append(<<>>, Line(command))
            /\ UNCHANGED <<polling, latest, owner, told, former, toBridge, game, restarts>>
<1> DEFINE command == Attempt(id, verb)
<1>1. command.id = id
  BY AttemptFields DEF IInv, Verbs
<1>2. /\ NewCommand(c, id) /\ Allowed(verb) /\ Accept(command)
      /\ SendNow(command) \/ Enqueue(command)
      /\ UNCHANGED <<polling, latest, owner, told, former, toBridge, game, restarts>>
  BY DEF Submit
<1> HIDE DEF command
<1>3. looping \in BOOLEAN
  BY DEF IInv, Types
<1> QED BY <1>1, <1>2, <1>3
           DEF NewCommand, Accept, SendNow, Enqueue, Known, command

LEMMA SubmitKeeps ==
  ASSUME IInv, NEW c, NEW id \in CommandIds, NEW verb \in {"state", "play", "abandon"},
         Submit(c, id, verb)
  PROVE  IInv'
<1> DEFINE command == Attempt(id, verb)
           line == Line(command)
<1>1. /\ id \notin Known /\ queue = <<>> /\ inFlight = NoCommand
      /\ seen' = seen \union {id} /\ inFlight' = command
      /\ waiters' \in {waiters, waiters \union {command}}
      /\ ~looping' /\ looping' \in BOOLEAN
      /\ \/ toGame' = Append(toGame, line) /\ queue' = queue
         \/ toGame' = toGame /\ queue' = Append(<<>>, line)
      /\ UNCHANGED <<polling, latest, owner, told, former, toBridge, game, restarts>>
  BY SubmitFacts
<1> USE DEF IInv
<1>2. /\ command \in Attempts /\ command.id = id
      /\ line \in Lines /\ line.id = id
  BY AttemptFields DEF Verbs
<1> HIDE DEF command, line
<1>3. toGame \in Seq(Lines) /\ Once(toGame) /\ ~In(toGame, id) /\ fate[id] = "none"
      /\ told[id] = "nothing"
  BY <1>1 DEF Types, OnePlace, OnlyAccepted
<1>4. /\ Append(toGame, line) \in Seq(Lines)
      /\ \A x : In(Append(toGame, line), x) <=> In(toGame, x) \/ x = id
      /\ Once(Append(toGame, line))
  BY <1>2, <1>3, AppendLine
<1>5. /\ Append(<<>>, line) = <<line>> /\ <<line>> \in Seq(Lines)
      /\ DOMAIN <<line>> = {1} /\ <<line>>[1] = line /\ Len(<<line>>) = 1
  BY <1>2, ShortSequences
<1>6. \A x : ~In(queue, x)
  BY <1>1 DEF In
<1>7. /\ queue' \in Seq(Lines)
      /\ \A x : In(queue', x) => x = id
      /\ \A i \in DOMAIN queue' : queue'[i].id = id
  <2>1. CASE queue' = queue
    BY <1>1, <2>1 DEF In, Types
  <2>2. CASE queue' = <<line>>
    BY <1>2, <1>5, <2>2 DEF In
  <2> QED BY <1>1, <1>5, <2>1, <2>2
<1>8. /\ toGame' \in Seq(Lines)
      /\ Once(toGame')
      /\ \A x : In(toGame', x) => In(toGame, x) \/ x = id
      /\ ~(In(toGame', id) /\ In(queue', id))
  <2>1. CASE toGame' = Append(toGame, line) /\ queue' = queue
    BY <1>4, <1>6, <2>1
  <2>2. CASE toGame' = toGame
    BY <1>3, <2>2
  <2> QED BY <1>1, <2>1, <2>2
<1>9. Types'
  <2>1. seen' \in SUBSET CommandIds /\ waiters' \in SUBSET Attempts /\ looping' \in BOOLEAN
    BY <1>1, <1>2 DEF Types
  <2> QED BY <1>1, <1>2, <1>7, <1>8, <2>1 DEF Types, game
<1>10. OnlyAccepted'
  BY <1>1, <1>2, <1>7, <1>8 DEF OnlyAccepted, Known, game
<1>11. OnePlace'
  BY <1>1, <1>3, <1>6, <1>7, <1>8 DEF OnePlace, game
<1>12. VerdictsStand'
  BY <1>1, <1>3, <1>7, <1>8 DEF VerdictsStand, game
<1>13. NamedAreAnswered'
  BY <1>1 DEF NamedAreAnswered, Names, game
<1>14. QueuedHoldsBridge'
  BY <1>1, <1>2, <1>5 DEF QueuedHoldsBridge
<1>15. Idle'
  BY <1>1 DEF Idle, game
<1> QED BY <1>9, <1>10, <1>11, <1>12, <1>13, <1>14, <1>15

LEMMA PreemptKeeps ==
  ASSUME IInv, NEW c, NEW id \in CommandIds, Preempt(c, id)
  PROVE  IInv'
<1> USE DEF IInv
<1> DEFINE command == Attempt(id, "abandon")
           line == [id |-> id, verb |-> "abandon"]
<1>1. /\ id \notin Known /\ queue = <<>> /\ inFlight # NoCommand
      /\ seen' = seen \union {command.id} /\ inFlight' = command
      /\ waiters' \in {waiters, waiters \union {command}}
      /\ toGame' = Append(toGame, line)
      /\ UNCHANGED <<polling, latest, queue, looping, owner, told, former,
                     toBridge, game, restarts>>
  BY DEF Preempt, Accept, Preemptable, Known
<1>2. /\ command \in Attempts /\ command.id = id
      /\ line \in Lines /\ line.id = id
  BY AttemptFields DEF Verbs, Lines, MaybeId
<1> HIDE DEF command, line
<1>3. /\ toGame \in Seq(Lines) /\ Once(toGame) /\ ~In(toGame, id)
      /\ fate[id] = "none" /\ told[id] = "nothing"
  BY <1>1 DEF Types, OnePlace, OnlyAccepted
<1>4. /\ toGame' \in Seq(Lines)
      /\ \A x : In(toGame', x) <=> In(toGame, x) \/ x = id
      /\ Once(toGame')
  BY <1>1, <1>2, <1>3, AppendLine
<1>5. \A x : ~In(queue, x)
  BY <1>1 DEF In
<1>6. ~looping
  BY <1>1 DEF Idle
<1>7. Types'
  <2>1. seen' \in SUBSET CommandIds /\ waiters' \in SUBSET Attempts
    BY <1>1, <1>2 DEF Types
  <2> QED BY <1>1, <1>2, <1>4, <2>1 DEF Types, game
<1>8. OnlyAccepted'
  BY <1>1, <1>2, <1>4 DEF OnlyAccepted, Known, game
<1>9. OnePlace'
  BY <1>1, <1>3, <1>4, <1>5 DEF OnePlace, game
<1>10. VerdictsStand'
  BY <1>1, <1>3, <1>4 DEF VerdictsStand, game
<1>11. NamedAreAnswered'
  BY <1>1 DEF NamedAreAnswered, Names, game
<1>12. QueuedHoldsBridge' /\ Idle'
  BY <1>1, <1>6 DEF QueuedHoldsBridge, Idle, game
<1> QED BY <1>7, <1>8, <1>9, <1>10, <1>11, <1>12

\* Only what is still queued can be cancelled, and then nothing is queued.
LEMMA TimeoutFacts ==
  ASSUME IInv, NEW command \in waiters, ObservationTimeout(command)
  PROVE  /\ waiters' = waiters \ {command} /\ command.id \in seen
         /\ \/ /\ In(queue, command.id) /\ inFlight.id = command.id
               /\ queue' = <<>> /\ inFlight' = NoCommand
               /\ told' = [told EXCEPT ![command.id] = "cancelled"]
            \/ /\ ~In(queue, command.id)
               /\ queue' = queue /\ inFlight' = inFlight /\ told' = told
         /\ UNCHANGED <<polling, latest, looping, seen, owner, former, toGame,
                        toBridge, game, restarts>>
<1>1. command.id \in seen /\ command.id \in CommandIds
  BY DEF IInv, OnlyAccepted, Types
<1>2. IsQueued(command.id) <=> In(queue, command.id)
  BY DEF IsQueued, In
<1>3. told \in [CommandIds -> {"nothing", "observed", "cancelled"}]
  BY DEF IInv, Types
<1>4. /\ waiters' = waiters \ {command}
      /\ queue' = IF IsQueued(command.id) THEN RemoveAt(queue, Place(command.id))
                  ELSE queue
      /\ inFlight' = HeldAfterTimeout(command.id)
      /\ Told({command.id} \intersect {id \in CommandIds : IsQueued(id)}, "cancelled")
      /\ UNCHANGED <<polling, latest, looping, seen, owner, former, toGame,
                     toBridge, game, restarts>>
  BY DEF ObservationTimeout
<1>5. CASE In(queue, command.id)
  <2>1. /\ DOMAIN queue = {1} /\ queue[1].id = inFlight.id
        /\ queue \in Seq(Lines) /\ Len(queue) = 1
    BY <1>5, QueuedIsReal DEF In, IInv, Types, QueuedHoldsBridge
  <2>2. inFlight.id = command.id
    BY <1>5, <2>1 DEF In
  <2>3. Place(command.id) = 1
    BY <2>1, <2>2 DEF Place
  <2>4. RemoveAt(queue, 1) = <<>>
    <3>1. SubSeq(queue, 1, 1 - 1) = <<>> /\ SubSeq(queue, 1 + 1, Len(queue)) = <<>>
      BY <2>1, SubSeqEmpty
    <3>2. <<>> \o <<>> = <<>>
      OBVIOUS
    <3> QED BY <3>1, <3>2 DEF RemoveAt
  <2>5. queue' = <<>>
    BY <1>2, <1>4, <1>5, <2>3, <2>4
  <2>6. inFlight' = NoCommand
    BY <1>2, <1>4, <1>5, <2>2 DEF HeldAfterTimeout
  <2>7. {command.id} \intersect {id \in CommandIds : IsQueued(id)} = {command.id}
    BY <1>1, <1>2, <1>5
  <2>8. told' = [told EXCEPT ![command.id] = "cancelled"]
    BY <1>3, <1>4, <2>7 DEF Told
  <2> QED BY <1>1, <1>4, <1>5, <2>2, <2>5, <2>6, <2>8
<1>6. CASE ~In(queue, command.id)
  <2>1. {command.id} \intersect {id \in CommandIds : IsQueued(id)} = {}
    BY <1>2, <1>6
  <2>2. told' = told
    BY <1>3, <1>4, <2>1 DEF Told
  <2> QED BY <1>1, <1>2, <1>4, <1>6, <2>2 DEF HeldAfterTimeout
<1> QED BY <1>5, <1>6

LEMMA TimeoutKeeps ==
  ASSUME IInv, NEW command \in waiters, ObservationTimeout(command)
  PROVE  IInv'
<1> USE DEF IInv
<1>1. UNCHANGED <<polling, latest, looping, seen, owner, former, toGame,
                 toBridge, game, restarts>>
  BY TimeoutFacts
<1>2. waiters' = waiters \ {command} /\ command.id \in seen
  BY TimeoutFacts
<1>3. /\ \A i \in DOMAIN <<>> : FALSE
      /\ <<>> \in Seq(Lines)
  OBVIOUS
<1>4. CASE /\ In(queue, command.id) /\ inFlight.id = command.id
           /\ queue' = <<>> /\ inFlight' = NoCommand
           /\ told' = [told EXCEPT ![command.id] = "cancelled"]
  <2>1. \A id : ~In(queue', id)
    BY <1>3, <1>4 DEF In
  <2>2. /\ command.id \in CommandIds /\ fate[command.id] = "none"
        /\ ~In(toGame, command.id)
    BY <1>2, <1>4 DEF OnePlace, Types
  <2>3. NoCommand \in Attempts
    BY DEF NoCommand, Attempts, MaybeId, Verbs
  <2>4. told' \in [CommandIds -> {"nothing", "observed", "cancelled"}]
    BY <1>4 DEF Types
  <2>5. Types'
    BY <1>1, <1>2, <1>3, <1>4, <2>3, <2>4 DEF Types, game
  <2>6. OnlyAccepted'
    BY <1>1, <1>2, <1>3, <1>4, <2>1 DEF OnlyAccepted, Known, game, Types
  <2>7. OnePlace'
    BY <1>1, <2>1 DEF OnePlace, game
  <2>8. VerdictsStand'
    BY <1>1, <1>4, <2>1, <2>2 DEF VerdictsStand, game, Types
  <2>9. NamedAreAnswered'
    BY <1>1 DEF NamedAreAnswered, Names, game
  <2>10. QueuedHoldsBridge' /\ Idle'
    BY <1>1, <1>4 DEF QueuedHoldsBridge, Idle, game
  <2> QED BY <2>5, <2>6, <2>7, <2>8, <2>9, <2>10
<1>5. CASE queue' = queue /\ inFlight' = inFlight /\ told' = told
  <2>1. Types' /\ OnlyAccepted'
    BY <1>1, <1>2, <1>5 DEF Types, OnlyAccepted, Known, game
  <2>2. OnePlace' /\ VerdictsStand' /\ NamedAreAnswered'
    BY <1>1, <1>5 DEF OnePlace, VerdictsStand, NamedAreAnswered, Names, game
  <2>3. QueuedHoldsBridge' /\ Idle'
    BY <1>1, <1>5 DEF QueuedHoldsBridge, Idle, game
  <2> QED BY <2>1, <2>2, <2>3
<1> QED BY <1>4, <1>5, TimeoutFacts

\* Ownership changes, and the queue may be emptied with it.
LEMMA OwnershipKeeps ==
  ASSUME IInv, NEW c, Acquire(c) \/ TakeOver(c) \/ Release(c)
  PROVE  IInv'
<1> USE DEF IInv
<1>1. /\ queue' \in {queue, <<>>}
      /\ UNCHANGED <<polling, latest, inFlight, waiters, looping, seen, told,
                     former, toGame, toBridge, game, restarts>>
  BY DEF Acquire, TakeOver, Release
<1>2. /\ queue' \in Seq(Lines)
      /\ \A id : In(queue', id) => In(queue, id)
      /\ \A i \in DOMAIN queue' : queue' = queue
  <2>1. CASE queue' = queue
    BY <2>1 DEF Types
  <2>2. CASE queue' = <<>>
    <3>1. DOMAIN queue' = {} /\ queue' \in Seq(Lines)
      BY <2>2
    <3> QED BY <3>1 DEF In
  <2> QED BY <1>1, <2>1, <2>2
<1>3. Types'
  BY <1>1, <1>2 DEF Types, game
<1>4. OnlyAccepted'
  BY <1>1, <1>2 DEF OnlyAccepted, Known, game
<1>5. OnePlace' /\ VerdictsStand' /\ NamedAreAnswered'
  BY <1>1, <1>2 DEF OnePlace, VerdictsStand, NamedAreAnswered, Names, game
<1>6. QueuedHoldsBridge' /\ Idle'
  BY <1>1 DEF QueuedHoldsBridge, Idle, game
<1> QED BY <1>3, <1>4, <1>5, <1>6

LEMMA PassivePollKeeps == ASSUME IInv, PassivePoll PROVE IInv'
<1> USE DEF IInv
<1> DEFINE line == [id |-> NoId, verb |-> "state"]
<1>1. /\ looping' = FALSE /\ toGame' = Append(toGame, line)
      /\ UNCHANGED <<polling, latest, inFlight, waiters, queue, seen, owner, told,
                     former, toBridge, game, restarts>>
  BY DEF PassivePoll
<1>2. line \in Lines /\ line.id = NoId
  BY DEF Lines, MaybeId, Verbs
<1> HIDE DEF line
<1>3. toGame \in Seq(Lines) /\ Once(toGame)
  BY DEF Types, OnePlace
<1>4. /\ toGame' \in Seq(Lines) /\ Once(toGame')
      /\ \A id : In(toGame', id) <=> In(toGame, id) \/ NoId = id
  BY <1>1, <1>2, <1>3, AppendLine
<1>5. \A id \in CommandIds : In(toGame', id) <=> In(toGame, id)
  BY <1>4, NoIdAssumption
<1>6. Types'
  BY <1>1, <1>4 DEF Types, game
<1>7. OnlyAccepted' /\ OnePlace' /\ VerdictsStand' /\ NamedAreAnswered'
  BY <1>1, <1>4, <1>5
     DEF OnlyAccepted, OnePlace, VerdictsStand, NamedAreAnswered, Names, Known, game
<1>8. QueuedHoldsBridge' /\ Idle'
  BY <1>1 DEF QueuedHoldsBridge, Idle, game
<1> QED BY <1>6, <1>7, <1>8

LEMMA StirKeeps == ASSUME IInv, Stir PROVE IInv'
<1> USE DEF IInv
<1>1. /\ listener' \in Listeners /\ ~listener'.polled
      /\ listener'.active = listener.active
      /\ listener'.kind = listener.kind /\ listener'.id = listener.id
  BY StirredFields DEF Stir, Idle, Types
<1>2. UNCHANGED <<polling, bridge, former, toGame, toBridge, fate, restarts>>
  BY DEF Stir
<1>3. Types'
  BY <1>1, <1>2 DEF Types, bridge
<1>4. OnlyAccepted' /\ OnePlace' /\ VerdictsStand'
  BY <1>2 DEF OnlyAccepted, OnePlace, VerdictsStand, Known, bridge
<1>5. NamedAreAnswered'
  BY <1>1, <1>2 DEF NamedAreAnswered, Names
<1>6. QueuedHoldsBridge' /\ Idle'
  BY <1>1, <1>2 DEF QueuedHoldsBridge, Idle, bridge
<1> QED BY <1>3, <1>4, <1>5, <1>6

\* The lines a replaced bridge leaves behind are among those it had sent.
LEMMA RestartFacts ==
  ASSUME IInv, Restart
  PROVE  /\ toGame' \in Seq(Lines) /\ Once(toGame')
         /\ \A id \in CommandIds : In(toGame', id) => In(toGame, id)
         /\ listener' \in Listeners /\ listener'.polled = listener.polled
         /\ listener'.kind = listener.kind /\ listener'.id = listener.id
         /\ listener'.active = listener.active
         /\ listener'.waiting = listener.waiting
         /\ listener'.pending = listener.pending
         /\ listener'.stirred = listener.stirred
         /\ toBridge' = <<>> /\ former' = Known /\ seen' = {}
         /\ latest' = Unread /\ inFlight' = NoCommand /\ queue' = <<>>
         /\ looping' = FALSE /\ waiters' = {} /\ restarts' = restarts + 1
         /\ UNCHANGED <<polling, told, fate>>
<1> DEFINE ready == [id |-> NoId, verb |-> "ready"]
<1>1. ready \in Lines /\ ready.id = NoId
  BY DEF Lines, MaybeId, Verbs
<1>2. PICK taken \in 0..Len(toGame) :
        toGame' = IF taken = 0 THEN <<>> ELSE Append(SubSeq(toGame, 2, taken), ready)
  BY DEF Restart
<1> HIDE DEF ready
<1>3. toGame \in Seq(Lines) /\ Once(toGame) /\ listener \in Listeners
  BY DEF IInv, Types, OnePlace
<1>4. /\ toGame' \in Seq(Lines) /\ Once(toGame')
      /\ \A id \in CommandIds : In(toGame', id) => In(toGame, id)
  <2>1. CASE taken = 0
    BY <1>2, <2>1 DEF In, Once
  <2>2. CASE taken # 0
    <3> DEFINE kept == SubSeq(toGame, 2, taken)
    <3>1. /\ kept \in Seq(Lines) /\ Once(kept)
          /\ \A id : In(kept, id) => In(toGame, id)
      BY <1>3, <2>2, KeptLines
    <3>2. toGame' = Append(kept, ready)
      BY <1>2, <2>2
    <3> HIDE DEF kept
    <3> QED BY <1>1, <3>1, <3>2, AppendLine, NoIdAssumption
  <2> QED BY <2>1, <2>2
<1>5. LET l == [listener EXCEPT !.mustSend = @ \/ listener.waiting]
      IN /\ l \in Listeners /\ l.polled = listener.polled
         /\ l.kind = listener.kind /\ l.id = listener.id
         /\ l.active = listener.active
         /\ l.waiting = listener.waiting
         /\ l.pending = listener.pending
         /\ l.stirred = listener.stirred
  BY <1>3 DEF Listeners
<1>6. listener' = [listener EXCEPT !.mustSend = @ \/ listener.waiting]
  BY DEF Restart
<1> QED BY <1>4, <1>5, <1>6 DEF Restart, Known

LEMMA RestartKeeps == ASSUME IInv, Restart PROVE IInv'
<1> USE DEF IInv
<1>1. /\ toGame' \in Seq(Lines) /\ Once(toGame')
      /\ \A id \in CommandIds : In(toGame', id) => In(toGame, id)
      /\ listener' \in Listeners /\ ~listener'.polled
      /\ listener'.kind = listener.kind /\ listener'.id = listener.id
      /\ listener'.active = listener.active
      /\ toBridge' = <<>> /\ former' = Known /\ seen' = {}
      /\ latest' = Unread /\ inFlight' = NoCommand /\ queue' = <<>>
      /\ looping' = FALSE /\ waiters' = {} /\ restarts' = restarts + 1
      /\ UNCHANGED <<polling, told, fate>>
  BY RestartFacts DEF Idle
<1>2. /\ <<>> \in Seq(Lines) /\ <<>> \in Seq(Messages)
      /\ \A i \in DOMAIN <<>> : FALSE
  OBVIOUS
<1>3. NoCommand \in Attempts /\ Known \in SUBSET CommandIds
  BY DEF NoCommand, Attempts, MaybeId, Verbs, Known, Types
<1>4. \A id : ~In(queue', id)
  BY <1>1, <1>2 DEF In
<1>5. Types'
  <2>1. restarts' \in Nat /\ UNCHANGED <<told, fate>>
    BY <1>1 DEF Types
  <2>2. /\ queue' \in Seq(Lines) /\ toBridge' \in Seq(Messages)
        /\ looping' \in BOOLEAN
    BY <1>1, <1>2
  <2>3. /\ seen' \in SUBSET CommandIds /\ former' \in SUBSET CommandIds
        /\ waiters' \in SUBSET Attempts
    BY <1>1, <1>3
  <2> QED BY <1>1, <1>3, <2>1, <2>2, <2>3 DEF Types
<1>6. OnlyAccepted' /\ OnePlace' /\ VerdictsStand'
  BY <1>1, <1>2, <1>4 DEF OnlyAccepted, OnePlace, VerdictsStand, Known
<1>7. NamedAreAnswered'
  BY <1>1, <1>2 DEF NamedAreAnswered, Names
<1>8. QueuedHoldsBridge' /\ Idle'
  BY <1>1 DEF QueuedHoldsBridge, Idle
<1> QED BY <1>5, <1>6, <1>7, <1>8

LEMMA StutterKeeps == ASSUME IInv, UNCHANGED vars PROVE IInv'
BY DEF IInv, Types, OnlyAccepted, OnePlace, VerdictsStand, NamedAreAnswered,
       QueuedHoldsBridge, Idle, Known, Names, vars, bridge, game

THEOREM InvariantHolds == Spec => []IInv
<1>1. Init => IInv
  BY InitHolds
<1>2. IInv /\ [Next]_vars => IInv'
  BY ReceiveLineKeeps, PassivePollKeeps, SubmitKeeps, PreemptKeeps, OwnershipKeeps,
     TimeoutKeeps, ReadFrameKeeps, StableFrameKeeps, StirKeeps, RestartKeeps,
     StutterKeeps DEF Next
<1> QED BY <1>1, <1>2, PTL DEF Spec

\* A controller is told the truth about its command: observed only once the
\* game has answered it, cancelled only when the game will never see it.
THEOREM VerdictsTold == Spec => []VerdictsAreTrue
<1>1. IInv => VerdictsAreTrue
  BY DEF IInv, VerdictsStand, VerdictsAreTrue, Sent, In
<1> QED BY <1>1, InvariantHolds, PTL

\* What is queued is the command in flight.
THEOREM QueueHolds == Spec => []QueuedHoldsBridge
<1>1. IInv => QueuedHoldsBridge
  BY DEF IInv
<1> QED BY <1>1, InvariantHolds, PTL

\* The game says it is ready only between transactions, in a stable state.
THEOREM ReadyIsStable == Spec => []ReadyMeansStable
<1>1. Init => ReadyMeansStable
  BY DEF Init, Booted, ReadyMeansStable
<1>2. ASSUME IInv, ReadyMeansStable, [Next]_vars PROVE ReadyMeansStable'
  <2>1. CASE ReadFrame
    BY <1>2, <2>1, ReadFrameFacts DEF IInv, ReadOutcome
  <2>2. CASE StableFrame
    BY <1>2, <2>2, StableFrameFacts DEF IInv, StableOutcome
  <2>3. CASE Stir
    <3>1. ~listener'.waiting
      BY <1>2, <2>3, StirredFields DEF Stir, IInv, Types
    <3> QED BY <3>1 DEF ReadyMeansStable
  <2>4. CASE Restart
    BY <1>2, <2>4, RestartFacts DEF ReadyMeansStable
  <2>5. CASE UNCHANGED listener
    BY <1>2, <2>5 DEF ReadyMeansStable
  <2> QED BY <1>2, <2>1, <2>2, <2>3, <2>4, <2>5
       DEF Next, ReceiveLine, PassivePoll, Submit, Preempt, Acquire, TakeOver, Release,
           ObservationTimeout, vars, game
<1> QED BY <1>1, <1>2, InvariantHolds, PTL DEF Spec

------------------------------------------------------------------------------
(* The life of a command *)

StageOf(verdict, sent, queued, known) ==
  IF verdict # "none" THEN verdict
  ELSE IF sent THEN "sent" ELSE IF queued THEN "queued"
  ELSE IF known THEN "dropped" ELSE "new"

LEMMA StageFacts ==
  /\ Stage = [id \in CommandIds |-> StageOf(fate[id], In(toGame, id), In(queue, id),
                                           id \in seen \union former)]
  /\ Stage' = [id \in CommandIds |-> StageOf(fate'[id], In(toGame', id), In(queue', id),
                                            id \in seen' \union former')]
BY DEF Stage, StageOf, Sent, IsQueued, In

\* Nothing happens to a command that none of the four facts about it changes.
LEMMA SameStage ==
  ASSUME \A id \in CommandIds :
           /\ fate'[id] = fate[id]
           /\ In(toGame', id) <=> In(toGame, id)
           /\ In(queue', id) <=> In(queue, id)
           /\ id \in seen' \union former' <=> id \in seen \union former
  PROVE  Stage' = Stage
<1>1. \A id \in CommandIds :
        StageOf(fate'[id], In(toGame', id), In(queue', id), id \in seen' \union former')
        = StageOf(fate[id], In(toGame, id), In(queue, id), id \in seen \union former)
  BY DEF StageOf
<1> QED BY <1>1, StageFacts

LEMMA OneStage ==
  ASSUME NEW x \in CommandIds, NEW s, StageOf(fate'[x], In(toGame', x), In(queue', x),
                                           x \in seen' \union former') = s,
         \A id \in CommandIds \ {x} :
           /\ fate'[id] = fate[id]
           /\ In(toGame', id) <=> In(toGame, id)
           /\ In(queue', id) <=> In(queue, id)
           /\ id \in seen' \union former' <=> id \in seen \union former
  PROVE  Stage' = [Stage EXCEPT ![x] = s]
<1>1. \A id \in CommandIds \ {x} :
        StageOf(fate'[id], In(toGame', id), In(queue', id), id \in seen' \union former')
        = StageOf(fate[id], In(toGame, id), In(queue, id), id \in seen \union former)
  BY DEF StageOf
<1> QED BY <1>1, StageFacts

LEMMA HoldingFacts ==
  ASSUME IInv
  PROVE  /\ inFlight = NoCommand <=> inFlight.id = NoId
         /\ inFlight # NoCommand => inFlight.id \in seen /\ inFlight.id \in CommandIds
<1>1. inFlight = NoCommand \/ inFlight.id \in seen
  BY DEF IInv, OnlyAccepted
<1>2. seen \in SUBSET CommandIds
  BY DEF IInv, Types
<1>3. NoCommand.id = NoId
  BY DEF NoCommand
<1> QED BY <1>1, <1>2, <1>3, NoIdAssumption

LEMMA ReceiveLineRefines ==
  ASSUME IInv, ReceiveLine
  PROVE  Lifecycle!Complete \/ UNCHANGED <<Stage, inFlight.id, restarts>>
<1>1. /\ UNCHANGED <<queue, seen, former, toGame, fate, restarts>>
      /\ inFlight' \in {inFlight, NoCommand}
      /\ inFlight' # inFlight =>
           inFlight # NoCommand /\ Completes(inFlight, Head(toBridge)) /\ toBridge # <<>>
  BY DEF ReceiveLine, game
<1>2. Stage' = Stage
  BY <1>1, SameStage
<1>3. CASE inFlight' = inFlight
  BY <1>1, <1>2, <1>3
<1>4. CASE inFlight' # inFlight
  <2>1. /\ inFlight.id \in CommandIds /\ inFlight.id # NoId
        /\ fate[inFlight.id] = "answered" /\ inFlight'.id = NoId
    BY <1>1, <1>4, DoneIsAnswered, HoldingFacts DEF NoCommand
  <2>2. Stage[inFlight.id] = "answered"
    BY <2>1, StageFacts DEF StageOf
  <2> QED BY <1>1, <1>2, <2>1, <2>2 DEF Lifecycle!Complete
<1> QED BY <1>3, <1>4

LEMMA SubmitRefines ==
  ASSUME IInv, NEW c, NEW id \in CommandIds, NEW verb \in {"state", "play", "abandon"},
         Submit(c, id, verb)
  PROVE  Lifecycle!Accept(id)
<1> DEFINE command == Attempt(id, verb)
           line == Line(command)
<1>1. /\ id \notin Known /\ queue = <<>> /\ inFlight = NoCommand
      /\ seen' = seen \union {id} /\ inFlight' = command
      /\ \/ toGame' = Append(toGame, line) /\ queue' = queue
         \/ toGame' = toGame /\ queue' = Append(<<>>, line)
      /\ UNCHANGED <<former, fate, restarts>>
  BY SubmitFacts DEF game
<1>2. command.id = id /\ line \in Lines /\ line.id = id
  BY AttemptFields DEF IInv, Verbs
<1> HIDE DEF command, line
<1>3. /\ toGame \in Seq(Lines) /\ <<>> \in Seq(Lines)
      /\ ~In(toGame, id) /\ fate[id] = "none" /\ \A x : ~In(queue, x)
  BY <1>1 DEF IInv, Types, OnlyAccepted, In
<1>4. Stage[id] = "new" /\ inFlight.id = NoId /\ inFlight'.id = id
  BY <1>1, <1>2, <1>3, StageFacts DEF StageOf, Known, NoCommand
<1>5. CASE toGame' = Append(toGame, line) /\ queue' = queue
  <2>1. \A x : In(toGame', x) <=> In(toGame, x) \/ x = id
    BY <1>2, <1>3, <1>5, AppendLine
  <2>2. StageOf(fate'[id], In(toGame', id), In(queue', id), id \in seen' \union former')
        = "sent"
    BY <1>1, <1>3, <2>1 DEF StageOf
  <2>3. Stage' = [Stage EXCEPT ![id] = "sent"]
    BY <1>1, <1>5, <2>1, <2>2, OneStage
  <2> QED BY <1>1, <1>4, <2>3 DEF Lifecycle!Accept
<1>6. CASE toGame' = toGame /\ queue' = Append(<<>>, line)
  <2>1. \A x : In(queue', x) <=> x = id
    BY <1>1, <1>2, <1>3, <1>6, AppendLine
  <2>2. StageOf(fate'[id], In(toGame', id), In(queue', id), id \in seen' \union former')
        = "queued"
    BY <1>1, <1>3, <1>6, <2>1 DEF StageOf
  <2>3. Stage' = [Stage EXCEPT ![id] = "queued"]
    BY <1>1, <1>3, <1>6, <2>1, <2>2, OneStage
  <2> QED BY <1>1, <1>4, <2>3 DEF Lifecycle!Accept
<1> QED BY <1>1, <1>5, <1>6

LEMMA PreemptRefines ==
  ASSUME IInv, NEW c, NEW id \in CommandIds, Preempt(c, id)
  PROVE  Lifecycle!Preempt(id)
<1> DEFINE line == [id |-> id, verb |-> "abandon"]
<1>1. /\ id \notin Known /\ queue = <<>> /\ inFlight # NoCommand
      /\ inFlight' = Attempt(id, "abandon") /\ seen' = seen \union {inFlight'.id}
      /\ toGame' = Append(toGame, line)
      /\ UNCHANGED <<queue, former, fate, restarts>>
  BY DEF Preempt, Accept, Preemptable, Known, game
<1>2. inFlight'.id = id /\ line \in Lines /\ line.id = id
  BY <1>1, AttemptFields DEF IInv, Verbs, Lines, MaybeId
<1> HIDE DEF line
<1>3. /\ toGame \in Seq(Lines)
      /\ ~In(toGame, id) /\ fate[id] = "none" /\ \A x : ~In(queue, x)
  BY <1>1 DEF IInv, Types, OnlyAccepted, In
<1>4. Stage[id] = "new"
  BY <1>1, <1>3, StageFacts DEF StageOf, Known
<1>5. inFlight.id # NoId /\ inFlight.id \in CommandIds
  BY <1>1, HoldingFacts
<1>6. Stage[inFlight.id] # "queued"
  BY <1>3, <1>5, StageFacts DEF StageOf, IInv, Types
<1>7. \A x : In(toGame', x) <=> In(toGame, x) \/ x = id
  BY <1>1, <1>2, <1>3, AppendLine
<1>8. StageOf(fate'[id], In(toGame', id), In(queue', id), id \in seen' \union former')
      = "sent"
  BY <1>1, <1>3, <1>7 DEF StageOf
<1>9. Stage' = [Stage EXCEPT ![id] = "sent"]
  BY <1>1, <1>2, <1>7, <1>8, OneStage
<1> QED BY <1>1, <1>2, <1>4, <1>5, <1>6, <1>9 DEF Lifecycle!Preempt

\* The queued command leaves the queue unsent, by a timeout or with the owner.
LEMMA LeavingQueueRefines ==
  ASSUME IInv, queue # <<>>, queue' = <<>>, inFlight' \in {inFlight, NoCommand},
         UNCHANGED <<seen, former, toGame, fate, restarts>>
  PROVE  Lifecycle!Withdraw(inFlight.id)
<1> DEFINE id == inFlight.id
<1>1. id \in CommandIds /\ id \in seen /\ \A x : In(queue, x) <=> x = id
  BY QueuedIsReal, HoldingFacts DEF In
<1> HIDE DEF id
<1>2. fate[id] = "none" /\ ~In(toGame, id)
  BY <1>1 DEF IInv, OnePlace
<1>3. DOMAIN queue' = {}
  OBVIOUS
<1>4. \A x : ~In(queue', x)
  BY <1>3 DEF In
<1>5. Stage[id] = "queued"
  BY <1>1, <1>2, StageFacts DEF StageOf
<1>6. StageOf(fate'[id], In(toGame', id), In(queue', id), id \in seen' \union former')
      = "dropped"
  BY <1>1, <1>2, <1>4 DEF StageOf
<1>7. Stage' = [Stage EXCEPT ![id] = "dropped"]
  BY <1>1, <1>4, <1>6, OneStage
<1>8. inFlight'.id \in {inFlight.id, NoId}
  BY DEF NoCommand
<1> QED BY <1>5, <1>7, <1>8 DEF Lifecycle!Withdraw, id

LEMMA TimeoutRefines ==
  ASSUME IInv, NEW command \in waiters, ObservationTimeout(command)
  PROVE  \/ \E id \in CommandIds : Lifecycle!Withdraw(id)
         \/ UNCHANGED <<Stage, inFlight.id, restarts>>
<1>1. UNCHANGED <<seen, former, toGame, fate, restarts>>
  BY TimeoutFacts DEF game
<1>2. CASE In(queue, command.id) /\ queue' = <<>> /\ inFlight' = NoCommand
  <2>1. queue # <<>>
    BY <1>2 DEF In
  <2>2. inFlight.id \in CommandIds
    BY <2>1, QueuedIsReal, HoldingFacts
  <2> QED BY <1>1, <1>2, <2>1, <2>2, LeavingQueueRefines
<1>3. CASE queue' = queue /\ inFlight' = inFlight
  BY <1>1, <1>3, SameStage
<1> QED BY <1>2, <1>3, TimeoutFacts

LEMMA OwnershipRefines ==
  ASSUME IInv, NEW c, Acquire(c) \/ TakeOver(c) \/ Release(c)
  PROVE  \/ \E id \in CommandIds : Lifecycle!Withdraw(id)
         \/ UNCHANGED <<Stage, inFlight.id, restarts>>
<1>1. /\ queue' \in {queue, <<>>}
      /\ UNCHANGED <<inFlight, seen, former, toGame, fate, restarts>>
  BY DEF Acquire, TakeOver, Release, game
<1>2. CASE queue' = queue
  BY <1>1, <1>2, SameStage
<1>3. CASE queue' # queue
  <2>1. inFlight.id \in CommandIds /\ queue # <<>> /\ queue' = <<>>
    BY <1>1, <1>3, QueuedIsReal, HoldingFacts
  <2> QED BY <1>1, <2>1, LeavingQueueRefines
<1> QED BY <1>2, <1>3

LEMMA ReadFrameRefines ==
  ASSUME IInv, ReadFrame
  PROVE  \/ \E id \in CommandIds : Lifecycle!Execute(id)
         \/ UNCHANGED <<Stage, inFlight.id, restarts>>
<1> DEFINE command == Head(toGame)
           read == {command.id} \ {NoId}
<1>1. PICK messages : ReadOutcome(command, messages)
  BY ReadFrameFacts DEF IInv
<1>2. /\ toGame \in Seq(Lines) /\ toGame # <<>> /\ toGame' = Tail(toGame)
      /\ UNCHANGED <<inFlight, queue, seen, former, restarts>>
  BY DEF IInv, Types, ReadFrame, bridge
<1>3. /\ command \in Lines
      /\ \A id : In(toGame, id) <=> command.id = id \/ In(toGame', id)
      /\ command.id # NoId => ~In(toGame', command.id)
  BY <1>2, TailLine DEF IInv, OnePlace
<1> HIDE DEF command
<1>4. read \in SUBSET CommandIds
  BY <1>3 DEF Lines, MaybeId
<1>5. Delivered(read, messages)
  BY <1>1, <1>4, DeliveryFacts DEF IInv, ReadOutcome, FrameOutcome
<1>6. \A id \in CommandIds : id # command.id => fate'[id] = fate[id]
  <2>1. \A id \in CommandIds : id # command.id =>
          ~\E i \in DOMAIN messages : Names(messages[i], id)
    BY <1>1, NoIdAssumption DEF ReadOutcome, Names
  <2> QED BY <1>5, <2>1 DEF Delivered
<1>7. CASE command.id \in CommandIds
  <2> DEFINE id == command.id
             s == fate'[id]
  <2>1. fate[id] = "none" /\ In(toGame, id)
    BY <1>3, <1>7 DEF IInv, OnePlace
  <2>2. s \in {"executed", "answered"}
    BY <1>5, <1>7, NoIdAssumption DEF Delivered
  <2>3. Stage[id] = "sent"
    BY <1>7, <2>1, StageFacts DEF StageOf
  <2>4. StageOf(fate'[id], In(toGame', id), In(queue', id), id \in seen' \union former') = s
    BY <2>2 DEF StageOf
  <2> HIDE DEF id, s
  <2>5. Stage' = [Stage EXCEPT ![id] = s]
    <3>1. id \in CommandIds
      BY <1>7 DEF id
    <3>2. \A x \in CommandIds \ {id} :
            /\ fate'[x] = fate[x]
            /\ In(toGame', x) <=> In(toGame, x)
            /\ In(queue', x) <=> In(queue, x)
            /\ x \in seen' \union former' <=> x \in seen \union former
      BY <1>2, <1>3, <1>6 DEF id
    <3> QED BY <2>4, <3>1, <3>2, OneStage
  <2> QED BY <1>2, <1>7, <2>2, <2>3, <2>5 DEF Lifecycle!Execute, id
<1>8. CASE command.id \notin CommandIds
  <2>1. \A x \in CommandIds :
          /\ fate'[x] = fate[x]
          /\ In(toGame', x) <=> In(toGame, x)
          /\ In(queue', x) <=> In(queue, x)
          /\ x \in seen' \union former' <=> x \in seen \union former
    BY <1>2, <1>3, <1>6, <1>8
  <2> QED BY <1>2, <2>1, SameStage
<1> QED BY <1>7, <1>8

LEMMA StableFrameRefines ==
  ASSUME IInv, StableFrame
  PROVE  \/ \E id \in CommandIds : Lifecycle!Answer(id)
         \/ UNCHANGED <<Stage, inFlight.id, restarts>>
<1>1. PICK messages : StableOutcome(messages)
  BY StableFrameFacts DEF IInv
<1>2. UNCHANGED <<inFlight, queue, seen, former, toGame, restarts>>
  BY DEF StableFrame, bridge
<1>3. Delivered({}, messages)
  BY <1>1, DeliveryFacts DEF IInv, StableOutcome, FrameOutcome
<1>4. \A id \in CommandIds :
        \/ fate'[id] = fate[id]
        \/ fate[id] = "executed" /\ fate'[id] = "answered" /\ id = listener.active
  <2> SUFFICES ASSUME NEW id \in CommandIds, fate'[id] # fate[id]
               PROVE  /\ fate[id] = "executed" /\ fate'[id] = "answered"
                      /\ id = listener.active
    OBVIOUS
  <2>1. /\ fate[id] # "none" /\ fate'[id] = "answered"
        /\ \E i \in DOMAIN messages : Names(messages[i], id)
    BY <1>3 DEF Delivered
  <2>2. fate[id] \in {"none", "executed", "answered"}
    BY DEF IInv, Types
  <2>3. id = listener.active
    BY <1>1, <2>1 DEF StableOutcome, Names, IInv, NamedAreAnswered
  <2> QED BY <2>1, <2>2, <2>3
<1>5. CASE \A id \in CommandIds : fate'[id] = fate[id]
  BY <1>2, <1>5, SameStage
<1>6. ASSUME NEW id \in CommandIds, fate'[id] # fate[id]
      PROVE  Lifecycle!Answer(id)
  <2>1. fate[id] = "executed" /\ fate'[id] = "answered" /\ id = listener.active
    BY <1>4, <1>6
  <2>2. Stage[id] = "executed"
    BY <2>1, StageFacts DEF StageOf
  <2>3. StageOf(fate'[id], In(toGame', id), In(queue', id), id \in seen' \union former')
        = "answered"
    BY <2>1 DEF StageOf
  <2>4. Stage' = [Stage EXCEPT ![id] = "answered"]
    BY <1>2, <1>4, <2>1, <2>3, OneStage
  <2> QED BY <1>2, <2>2, <2>4 DEF Lifecycle!Answer
<1> QED BY <1>5, <1>6

LEMMA RestartRefines == ASSUME IInv, Restart PROVE Lifecycle!Replace
<1>1. /\ \A id \in CommandIds : In(toGame', id) => In(toGame, id)
      /\ former' = Known /\ seen' = {} /\ inFlight' = NoCommand /\ queue' = <<>>
      /\ restarts' = restarts + 1 /\ fate' = fate
  BY RestartFacts
<1>2. DOMAIN queue' = {}
  BY <1>1
<1>3. \A id : ~In(queue', id)
  BY <1>2 DEF In
<1>4. seen' \union former' = seen \union former
  BY <1>1 DEF Known
<1>5. ASSUME NEW id \in CommandIds
      PROVE  /\ Stage'[id] \in Lifecycle!Stages
             /\ \/ Stage'[id] = Stage[id] /\ Stage[id] # "queued"
                \/ Stage'[id] = "dropped" /\ Stage[id] \in {"queued", "sent"}
  <2>1. /\ Stage[id] = StageOf(fate[id], In(toGame, id), In(queue, id),
                               id \in seen \union former)
        /\ Stage'[id] = StageOf(fate[id], In(toGame', id), FALSE,
                                id \in seen \union former)
    BY <1>1, <1>3, <1>4, StageFacts DEF StageOf
  <2>2. /\ fate[id] \in {"none", "executed", "answered"}
        /\ In(toGame, id) \/ In(queue, id) => id \in seen \union former
        /\ ~(In(toGame, id) /\ In(queue, id))
    BY DEF IInv, Types, OnlyAccepted, OnePlace, Known
  <2> QED BY <1>1, <2>1, <2>2 DEF StageOf, Lifecycle!Stages
<1>6. Stage' \in [CommandIds -> Lifecycle!Stages]
  BY <1>5, StageFacts
<1> QED BY <1>1, <1>5, <1>6 DEF Lifecycle!Replace, NoCommand

\* The bridge and the game implement the life a command is promised: every
\* step of theirs is one step of the commands' life, or none.
THEOREM LifecycleImplemented == Spec => ImplementsLifecycle
<1>1. Init => Lifecycle!Init
  <2> SUFFICES ASSUME Init PROVE Lifecycle!Init
    OBVIOUS
  <2>1. DOMAIN toGame = {} /\ DOMAIN queue = {} /\ seen \union former = {}
    BY DEF Init
  <2>2. \A id \in CommandIds :
          fate[id] = "none" /\ ~In(toGame, id) /\ ~In(queue, id)
    BY <2>1 DEF Init, In
  <2>3. Stage = [id \in CommandIds |-> "new"]
    BY <2>1, <2>2, StageFacts DEF StageOf
  <2> QED BY <2>3 DEF Init, Lifecycle!Init, NoCommand
<1>2. IInv /\ [Next]_vars => [Lifecycle!Next]_(Lifecycle!commands)
  <2> SUFFICES ASSUME IInv, [Next]_vars
               PROVE  Lifecycle!Next \/ UNCHANGED <<Stage, inFlight.id, restarts>>
    BY DEF Lifecycle!commands
  <2>1. CASE ReceiveLine
    BY <2>1, ReceiveLineRefines DEF Lifecycle!Next
  <2>2. CASE PassivePoll
    <3>1. /\ UNCHANGED <<inFlight, queue, seen, former, fate, restarts>>
          /\ toGame' = Append(toGame, [id |-> NoId, verb |-> "state"])
      BY <2>2 DEF PassivePoll, game
    <3>2. \A id \in CommandIds : In(toGame', id) <=> In(toGame, id)
      <4> DEFINE line == [id |-> NoId, verb |-> "state"]
      <4>1. line \in Lines /\ line.id = NoId
        BY DEF Lines, MaybeId, Verbs
      <4>2. toGame \in Seq(Lines)
        BY DEF IInv, Types
      <4>3. toGame' = Append(toGame, line)
        BY <3>1
      <4> HIDE DEF line
      <4> QED BY <4>1, <4>2, <4>3, AppendLine, NoIdAssumption
    <3> QED BY <3>1, <3>2, SameStage
  <2>3. ASSUME NEW c, NEW id \in CommandIds, NEW verb \in {"state", "play", "abandon"},
               Submit(c, id, verb)
        PROVE  Lifecycle!Next
    BY <2>3, SubmitRefines DEF Lifecycle!Next
  <2>4. ASSUME NEW c, NEW id \in CommandIds, Preempt(c, id)
        PROVE  Lifecycle!Next
    BY <2>4, PreemptRefines DEF Lifecycle!Next
  <2>5. ASSUME NEW c, Acquire(c) \/ TakeOver(c) \/ Release(c)
        PROVE  Lifecycle!Next \/ UNCHANGED <<Stage, inFlight.id, restarts>>
    BY <2>5, OwnershipRefines DEF Lifecycle!Next
  <2>6. ASSUME NEW command \in waiters, ObservationTimeout(command)
        PROVE  Lifecycle!Next \/ UNCHANGED <<Stage, inFlight.id, restarts>>
    BY <2>6, TimeoutRefines DEF Lifecycle!Next
  <2>7. CASE ReadFrame
    BY <2>7, ReadFrameRefines DEF Lifecycle!Next
  <2>8. CASE StableFrame
    BY <2>8, StableFrameRefines DEF Lifecycle!Next
  <2>9. CASE Stir
    BY <2>9, SameStage DEF Stir, bridge
  <2>10. CASE Restart
    BY <2>10, RestartRefines DEF Lifecycle!Next
  <2>11. CASE UNCHANGED vars
    BY <2>11, SameStage DEF vars, bridge, game
  <2> QED BY <2>1, <2>2, <2>3, <2>4, <2>5, <2>6, <2>7, <2>8, <2>9, <2>10, <2>11 DEF Next
<1> QED BY <1>1, <1>2, InvariantHolds, PTL DEF Spec, ImplementsLifecycle, Lifecycle!Spec

------------------------------------------------------------------------------
(* The fences of the first bridge process *)

Level(report, l) == report.exec = l.exec /\ report.settle = l.settle

\* Gameplay lines close the pipe, and its last line is the command in flight.
PipeEndsInFlight ==
  /\ \A i \in DOMAIN toGame :
       /\ toGame[i].verb # "ready"
       /\ toGame[i].id = inFlight.id /\ inFlight # NoCommand =>
            toGame[i].verb = inFlight.verb
       /\ toGame[i].verb # "state" =>
            /\ toGame[Len(toGame)] = Line(inFlight) /\ inFlight.verb # "state"
            /\ inFlight.verb = "play" => toGame[i].id = inFlight.id
            /\ \A j \in DOMAIN toGame : i < j => toGame[j].verb # "state"
  /\ inFlight.verb # "state" /\ fate[inFlight.id] # "none" => toGame = <<>>

PendingIsInFlight ==
  listener.pending =>
    /\ inFlight.verb # "state" /\ fate[inFlight.id] # "answered"
    /\ inFlight.verb = "play" => fate[inFlight.id] = "executed"
    /\ queue = <<>>

\* No command that moves the game's counters is with the game.
Quiet ==
  \/ inFlight.verb = "state"
  \/ queue # <<>>
  \/ inFlight.verb = "play" /\ fate[inFlight.id] = "none"

QuietIsLevel ==
  Quiet =>
    /\ \A i \in DOMAIN toBridge : Level(toBridge[i], listener)
    /\ latest = Unread => listener.exec = 0 /\ listener.settle = 0
    /\ latest # Unread => Level(latest, listener)
    /\ inFlight.verb = "play" => Level(inFlight, listener)

ExecutedIsPending ==
  inFlight.verb = "play" /\ fate[inFlight.id] = "executed" =>
    /\ listener.pending /\ listener.active = inFlight.id
    /\ listener.exec = inFlight.exec + 1 /\ listener.settle = inFlight.settle

\* From the answer to the command in flight on, the game's counters stand still.
AnswerIsLast ==
  inFlight.verb # "state" /\ fate[inFlight.id] = "answered" =>
    \A i, j \in DOMAIN toBridge :
      Names(toBridge[i], inFlight.id) /\ i <= j => Level(toBridge[j], listener)

Fences ==
  /\ PipeEndsInFlight /\ PendingIsInFlight /\ QuietIsLevel
  /\ ExecutedIsPending /\ AnswerIsLast /\ AnswerFreesBridge

FencesHold == restarts = 0 => Fences

LEMMA TypedFacts ==
  ASSUME Types
  PROVE  /\ DOMAIN toGame = 1..Len(toGame) /\ Len(toGame) \in Nat
         /\ DOMAIN toBridge = 1..Len(toBridge) /\ Len(toBridge) \in Nat
         /\ \A i \in DOMAIN toGame : toGame[i] \in Lines
         /\ \A i \in DOMAIN toBridge : toBridge[i] \in Messages
BY LenProperties, ElementOfSeq DEF Types

\* While nobody drives the game, no gameplay line is on its way.
LEMMA GameplayIsSent ==
  ASSUME IInv, Fences, NEW i \in DOMAIN toGame, toGame[i].verb # "state"
  PROVE  /\ inFlight # NoCommand /\ inFlight.verb # "state"
         /\ In(toGame, inFlight.id) /\ fate[inFlight.id] = "none"
         /\ queue = <<>>
<1>1. toGame[Len(toGame)] = Line(inFlight) /\ inFlight.verb # "state"
  BY DEF Fences, PipeEndsInFlight
<1>2. Len(toGame) \in DOMAIN toGame
  BY TypedFacts DEF IInv
<1>3. Line(inFlight).id = inFlight.id
  BY DEF Line
<1>4. inFlight # NoCommand /\ In(toGame, inFlight.id)
  BY <1>1, <1>2, <1>3 DEF In, NoCommand
<1>5. inFlight.id \in CommandIds
  BY <1>4, HoldingFacts
<1>6. ~In(queue, inFlight.id) /\ fate[inFlight.id] = "none"
  BY <1>4, <1>5 DEF IInv, OnePlace
<1>7. queue # <<>> => In(queue, inFlight.id)
  BY QueuedIsReal DEF In
<1> QED BY <1>1, <1>4, <1>6, <1>7

\* The counters stand still and no transaction is open.
LEMMA QuietIsIdle ==
  ASSUME Fences, Quiet
  PROVE  ~listener.pending
BY DEF Fences, PendingIsInFlight, Quiet

LEMMA ReceiveLineFences ==
  ASSUME IInv, Fences, ReceiveLine
  PROVE  Fences'
<1> DEFINE msg == Head(toBridge)
           done == inFlight # NoCommand /\ Completes(inFlight, msg)
<1>1. /\ toBridge # <<>> /\ toBridge' = Tail(toBridge)
      /\ latest' = [error |-> msg.error, ready |-> msg.ready, offers |-> msg.offers,
                    exec |-> msg.exec, settle |-> msg.settle]
      /\ inFlight' = IF done THEN NoCommand ELSE inFlight
      /\ UNCHANGED <<queue, toGame, listener, fate, restarts>>
  BY DEF ReceiveLine, game
<1>2. toBridge \in Seq(Messages)
  BY DEF IInv, Types
<1>3. /\ msg \in Messages /\ msg = toBridge[1]
      /\ toBridge' \in Seq(Messages)
      /\ Len(toBridge') = Len(toBridge) - 1
      /\ \A i \in 1..Len(toBridge') : toBridge'[i] = toBridge[i + 1]
  BY <1>1, <1>2, HeadTailProperties
<1>4. /\ DOMAIN toBridge = 1..Len(toBridge) /\ DOMAIN toBridge' = 1..Len(toBridge')
      /\ Len(toBridge) \in Nat \ {0}
  BY <1>1, <1>2, <1>3, LenProperties, EmptySeq
<1>5. /\ 1 \in DOMAIN toBridge
      /\ \A i \in DOMAIN toBridge' :
           i \in Nat /\ i + 1 \in DOMAIN toBridge /\ toBridge'[i] = toBridge[i + 1]
      /\ \A i \in DOMAIN toBridge : i # 1 =>
           i - 1 \in DOMAIN toBridge' /\ toBridge'[i - 1] = toBridge[i]
  BY <1>3, <1>4
<1>6. latest' # Unread /\ latest'.exec = msg.exec /\ latest'.settle = msg.settle
  <2>1. latest' \in Summaries
    BY <1>1, <1>3 DEF Summaries, Messages
  <2> QED BY <1>1, <2>1, BridgeAssumption
<1>7. CASE done
  <2>1. /\ fate[inFlight.id] = "answered" /\ queue = <<>> /\ inFlight' = NoCommand
        /\ NoCommand.verb = "state" /\ inFlight # NoCommand
    BY <1>1, <1>7, DoneIsAnswered DEF NoCommand
  <2>2. \A i \in DOMAIN toGame : toGame[i].verb = "state"
    BY <2>1, GameplayIsSent
  <2>3. ~listener.pending
    BY <2>1 DEF Fences, PendingIsInFlight
  <2>4. /\ Level(msg, listener)
        /\ \A i \in DOMAIN toBridge' : Level(toBridge'[i], listener)
    <3>1. CASE inFlight.verb = "state"
      <4>1. \A i \in DOMAIN toBridge : Level(toBridge[i], listener)
        BY <3>1 DEF Fences, QuietIsLevel, Quiet
      <4> QED BY <1>3, <1>5, <4>1
    <3>2. CASE inFlight.verb # "state"
      <4>1. Names(toBridge[1], inFlight.id)
        BY <1>3, <1>7, CompletesNames
      <4>2. \A j \in DOMAIN toBridge : 1 <= j => Level(toBridge[j], listener)
        BY <1>5, <2>1, <3>2, <4>1 DEF Fences, AnswerIsLast
      <4> QED BY <1>3, <1>4, <1>5, <4>2
    <3> QED BY <3>1, <3>2
  <2>5. PipeEndsInFlight'
    BY <1>1, <2>1, <2>2 DEF PipeEndsInFlight
  <2>6. PendingIsInFlight'
    BY <1>1, <2>3 DEF PendingIsInFlight
  <2>7. QuietIsLevel'
    BY <1>1, <1>6, <2>1, <2>4 DEF QuietIsLevel, Level
  <2>8. ExecutedIsPending' /\ AnswerIsLast' /\ AnswerFreesBridge'
    BY <2>1 DEF ExecutedIsPending, AnswerIsLast, AnswerFreesBridge
  <2> QED BY <2>5, <2>6, <2>7, <2>8 DEF Fences
<1>8. CASE ~done
  <2>1. inFlight' = inFlight
    BY <1>1, <1>8
  <2>6. listener' = listener /\ fate' = fate /\ restarts' = restarts
    BY <1>1
  <2>2. PipeEndsInFlight' /\ PendingIsInFlight' /\ ExecutedIsPending'
    BY <1>1, <2>1 DEF Fences, PipeEndsInFlight, PendingIsInFlight, ExecutedIsPending
  <2>3. QuietIsLevel'
    <3>1. ASSUME Quiet
          PROVE  /\ \A i \in DOMAIN toBridge' : Level(toBridge'[i], listener)
                 /\ Level(msg, listener)
                 /\ inFlight.verb = "play" => Level(inFlight, listener)
      BY <1>3, <1>5, <3>1 DEF Fences, QuietIsLevel
    <3>2. Quiet' => Quiet
      BY <1>1, <2>1 DEF Quiet
    <3> QED BY <1>1, <1>6, <2>1, <3>1, <3>2 DEF QuietIsLevel, Level
  <2>4. AnswerIsLast'
    <3> SUFFICES ASSUME inFlight.verb # "state", fate[inFlight.id] = "answered",
                        NEW i \in DOMAIN toBridge', NEW j \in DOMAIN toBridge',
                        Names(toBridge'[i], inFlight.id), i <= j
                 PROVE  Level(toBridge'[j], listener)
      BY <2>1, <2>6 DEF AnswerIsLast, Names, Level
    <3>1. Names(toBridge[i + 1], inFlight.id) /\ i + 1 <= j + 1
      BY <1>5
    <3> QED BY <1>5, <3>1 DEF Fences, AnswerIsLast
  <2>5. AnswerFreesBridge'
    <3> SUFFICES ASSUME inFlight.verb = "play", fate[inFlight.id] = "answered", restarts = 0
                 PROVE  \E i \in DOMAIN toBridge' : Completes(inFlight, toBridge'[i])
      BY <2>1, <2>6 DEF AnswerFreesBridge, Completes
    <3>1. PICK i \in DOMAIN toBridge : Completes(inFlight, toBridge[i])
      BY DEF Fences, AnswerFreesBridge
    <3>2. i # 1
      BY <1>3, <1>8, <3>1 DEF NoCommand
    <3> QED BY <1>5, <3>1, <3>2
  <2> QED BY <2>2, <2>3, <2>4, <2>5 DEF Fences
<1> QED BY <1>7, <1>8

LEMMA PassivePollFences ==
  ASSUME IInv, Fences, PassivePoll
  PROVE  Fences'
<1> DEFINE line == [id |-> NoId, verb |-> "state"]
<1>1. /\ looping /\ toGame' = Append(toGame, line)
      /\ UNCHANGED <<latest, inFlight, queue, toBridge, listener, fate, restarts>>
  BY DEF PassivePoll, game
<1>2. inFlight = NoCommand /\ NoCommand.verb = "state"
  BY <1>1 DEF IInv, Idle, NoCommand
<1>3. \A i \in DOMAIN toGame : toGame[i].verb = "state"
  BY <1>2 DEF Fences, PipeEndsInFlight
<1>4. line \in Lines /\ line.verb = "state"
  BY DEF Lines, MaybeId, Verbs
<1> HIDE DEF line
<1>5. toGame \in Seq(Lines)
  BY DEF IInv, Types
<1>6. /\ toGame' \in Seq(Lines) /\ Len(toGame') = Len(toGame) + 1
      /\ \A i \in 1..Len(toGame) : toGame'[i] = toGame[i]
      /\ toGame'[Len(toGame) + 1] = line
  BY <1>1, <1>4, <1>5, AppendProperties
<1>7. DOMAIN toGame = 1..Len(toGame) /\ DOMAIN toGame' = 1..Len(toGame') /\ Len(toGame) \in Nat
  BY <1>5, <1>6, LenProperties
<1>8. \A i \in DOMAIN toGame' : toGame'[i].verb = "state"
  BY <1>3, <1>4, <1>6, <1>7
<1>9. PipeEndsInFlight'
  BY <1>1, <1>2, <1>8 DEF PipeEndsInFlight
<1>10. PendingIsInFlight' /\ QuietIsLevel' /\ ExecutedIsPending' /\ AnswerIsLast' /\ AnswerFreesBridge'
  BY <1>1, <1>2
     DEF Fences, PendingIsInFlight, QuietIsLevel, Quiet, Level, ExecutedIsPending,
         AnswerIsLast, AnswerFreesBridge
<1> QED BY <1>9, <1>10 DEF Fences

\* A line added to the pipe.
LEMMA AppendedLines ==
  ASSUME NEW q \in Seq(Lines), NEW line \in Lines
  PROVE  LET a == Append(q, line)
         IN /\ DOMAIN a = 1..Len(q) + 1 /\ Len(a) = Len(q) + 1
            /\ DOMAIN q = 1..Len(q) /\ Len(q) \in Nat
            /\ \A i \in DOMAIN q : a[i] = q[i]
            /\ a[Len(q) + 1] = line
<1> DEFINE a == Append(q, line)
<1>1. /\ a \in Seq(Lines) /\ Len(a) = Len(q) + 1 /\ a[Len(q) + 1] = line
      /\ \A i \in 1..Len(q) : a[i] = q[i]
  BY AppendProperties
<1>2. DOMAIN q = 1..Len(q) /\ DOMAIN a = 1..Len(a) /\ Len(q) \in Nat
  BY <1>1, LenProperties
<1> HIDE DEF a
<1> QED BY <1>1, <1>2 DEF a

LEMMA SubmitFences ==
  ASSUME IInv, Fences, NEW c, NEW id \in CommandIds,
         NEW verb \in {"state", "play", "abandon"}, Submit(c, id, verb)
  PROVE  Fences'
<1> DEFINE command == Attempt(id, verb)
           line == Line(command)
<1>1. /\ id \notin Known /\ queue = <<>> /\ inFlight = NoCommand
      /\ inFlight' = command
      /\ \/ toGame' = Append(toGame, line) /\ queue' = queue
         \/ toGame' = toGame /\ queue' = Append(<<>>, line)
      /\ UNCHANGED <<latest, toBridge, listener, fate, restarts>>
  BY SubmitFacts DEF game
<1>2. /\ command.id = id /\ command.verb = verb
      /\ command.exec = IF latest = Unread THEN 0 ELSE latest.exec
      /\ command.settle = IF latest = Unread THEN 0 ELSE latest.settle
      /\ line \in Lines /\ line.id = id /\ line.verb = verb
      /\ verb # "ready"
  BY AttemptFields DEF IInv, Verbs
<1>3. /\ Line(inFlight') = line
      /\ NoCommand.verb = "state"
  BY <1>1 DEF NoCommand
<1> HIDE DEF command, line
<1>4. toGame \in Seq(Lines) /\ ~In(toGame, id) /\ fate[id] = "none"
  BY <1>1 DEF IInv, Types, OnlyAccepted
<1>5. \A i \in DOMAIN toGame : toGame[i].verb = "state" /\ toGame[i].id # id
  BY <1>1, <1>3, <1>4 DEF Fences, PipeEndsInFlight, In
<1>6. \A i \in DOMAIN toBridge : Level(toBridge[i], listener)
  BY <1>1, <1>3 DEF Fences, QuietIsLevel, Quiet
<1>7. inFlight'.id = id /\ inFlight'.verb = verb /\ fate'[id] = "none"
  BY <1>1, <1>2, <1>4
<1>8. PipeEndsInFlight'
  <2>1. CASE toGame' = toGame
    BY <1>5, <1>7, <2>1 DEF PipeEndsInFlight
  <2>2. CASE toGame' = Append(toGame, line)
    <3>1. /\ DOMAIN toGame' = 1..Len(toGame) + 1 /\ Len(toGame') = Len(toGame) + 1
          /\ DOMAIN toGame = 1..Len(toGame) /\ Len(toGame) \in Nat
          /\ \A i \in DOMAIN toGame : toGame'[i] = toGame[i]
          /\ toGame'[Len(toGame) + 1] = line
      BY <1>2, <1>4, <2>2, AppendedLines
    <3>2. \A i \in DOMAIN toGame' :
            \/ i < Len(toGame') /\ toGame'[i].verb = "state" /\ toGame'[i].id # id
            \/ i = Len(toGame') /\ toGame'[i] = Line(inFlight')
      BY <1>3, <1>5, <3>1
    <3>3. \A i, j \in DOMAIN toGame' : i < j => i # Len(toGame')
      BY <3>1
    <3> QED BY <1>2, <1>3, <1>7, <3>2, <3>3 DEF PipeEndsInFlight
  <2> QED BY <1>1, <2>1, <2>2
<1>9. PendingIsInFlight'
  BY <1>1, <1>3 DEF Fences, PendingIsInFlight
<1>10. QuietIsLevel'
  <2>1. /\ latest = Unread => listener.exec = 0 /\ listener.settle = 0
        /\ latest # Unread => Level(latest, listener)
    BY <1>1, <1>3 DEF Fences, QuietIsLevel, Quiet
  <2> QED BY <1>1, <1>2, <1>6, <2>1 DEF QuietIsLevel, Level
<1>11. ExecutedIsPending' /\ AnswerIsLast' /\ AnswerFreesBridge'
  BY <1>7 DEF ExecutedIsPending, AnswerIsLast, AnswerFreesBridge
<1> QED BY <1>8, <1>9, <1>10, <1>11 DEF Fences

LEMMA PreemptFences ==
  ASSUME IInv, Fences, NEW c, NEW id \in CommandIds, Preempt(c, id)
  PROVE  Fences'
<1> DEFINE line == [id |-> id, verb |-> "abandon"]
<1>1. /\ id \notin Known /\ queue = <<>> /\ inFlight' = Attempt(id, "abandon")
      /\ toGame' = Append(toGame, line)
      /\ UNCHANGED <<latest, queue, toBridge, listener, fate, restarts>>
  BY DEF Preempt, Accept, Preemptable, Known, game
<1>2. /\ inFlight'.id = id /\ inFlight'.verb = "abandon" /\ Line(inFlight') = line
      /\ line \in Lines /\ line.id = id /\ line.verb = "abandon"
  BY <1>1, AttemptFields DEF IInv, Verbs, Lines, MaybeId, Line
<1> HIDE DEF line
<1>3. toGame \in Seq(Lines) /\ ~In(toGame, id) /\ fate'[id] = "none"
  BY <1>1 DEF IInv, Types, OnlyAccepted
<1>4. \A i \in DOMAIN toGame :
        /\ toGame[i].verb # "ready" /\ toGame[i].id # id
        /\ toGame[i].verb # "state" =>
             \A j \in DOMAIN toGame : i < j => toGame[j].verb # "state"
  BY <1>3 DEF Fences, PipeEndsInFlight, In
<1>5. PipeEndsInFlight'
  <2>1. /\ DOMAIN toGame' = 1..Len(toGame) + 1 /\ Len(toGame') = Len(toGame) + 1
        /\ DOMAIN toGame = 1..Len(toGame) /\ Len(toGame) \in Nat
        /\ \A i \in DOMAIN toGame : toGame'[i] = toGame[i]
        /\ toGame'[Len(toGame) + 1] = line
    BY <1>1, <1>2, <1>3, AppendedLines
  <2>2. \A i \in DOMAIN toGame' :
          \/ i \in DOMAIN toGame /\ toGame'[i] = toGame[i]
          \/ i = Len(toGame') /\ toGame'[i] = line
    BY <2>1
  <2>3. toGame'[Len(toGame')] = Line(inFlight')
    BY <1>2, <2>1
  <2>4. \A i, j \in DOMAIN toGame' : i < j => i # Len(toGame')
    BY <2>1
  <2>5. \A i \in DOMAIN toGame' :
          /\ toGame'[i].verb # "ready"
          /\ toGame'[i].id = id => toGame'[i].verb = "abandon"
          /\ toGame'[i].verb # "state" =>
               \A j \in DOMAIN toGame' : i < j => toGame'[j].verb # "state"
    BY <1>2, <1>4, <2>2, <2>4
  <2> QED BY <1>2, <1>3, <2>3, <2>5 DEF PipeEndsInFlight
<1>6. PendingIsInFlight'
  BY <1>1, <1>2, <1>3 DEF PendingIsInFlight
<1>7. ~Quiet'
  BY <1>1, <1>2 DEF Quiet
<1>8. QuietIsLevel' /\ ExecutedIsPending' /\ AnswerIsLast' /\ AnswerFreesBridge'
  BY <1>2, <1>3, <1>7 DEF QuietIsLevel, ExecutedIsPending, AnswerIsLast, AnswerFreesBridge
<1> QED BY <1>5, <1>6, <1>8 DEF Fences

LEMMA TimeoutFences ==
  ASSUME IInv, Fences, NEW command \in waiters, ObservationTimeout(command)
  PROVE  Fences'
<1>1. UNCHANGED <<latest, toGame, toBridge, listener, fate, restarts>>
  BY TimeoutFacts DEF game
<1>2. CASE In(queue, command.id) /\ queue' = <<>> /\ inFlight' = NoCommand
  <2>1. queue # <<>> /\ NoCommand.verb = "state"
    BY <1>2 DEF In, NoCommand
  <2>2. \A i \in DOMAIN toGame : toGame[i].verb = "state"
    BY <2>1, GameplayIsSent
  <2>3. ~listener.pending
    BY <2>1 DEF Fences, PendingIsInFlight
  <2>4. PipeEndsInFlight' /\ PendingIsInFlight'
    BY <1>1, <1>2, <2>1, <2>2, <2>3 DEF PipeEndsInFlight, PendingIsInFlight
  <2>5. QuietIsLevel'
    BY <1>1, <1>2, <2>1 DEF Fences, QuietIsLevel, Quiet, Level
  <2>6. ExecutedIsPending' /\ AnswerIsLast' /\ AnswerFreesBridge'
    BY <1>2, <2>1 DEF ExecutedIsPending, AnswerIsLast, AnswerFreesBridge
  <2> QED BY <2>4, <2>5, <2>6 DEF Fences
<1>3. CASE queue' = queue /\ inFlight' = inFlight
  BY <1>1, <1>3
     DEF Fences, PipeEndsInFlight, PendingIsInFlight, QuietIsLevel, Quiet, Level,
         ExecutedIsPending, AnswerIsLast, Names, AnswerFreesBridge, Completes
<1> QED BY <1>2, <1>3, TimeoutFacts

LEMMA OwnershipFences ==
  ASSUME IInv, Fences, NEW c, Acquire(c) \/ TakeOver(c) \/ Release(c)
  PROVE  Fences'
<1>1. /\ queue' \in {queue, <<>>}
      /\ UNCHANGED <<latest, inFlight, toGame, toBridge, listener, fate, restarts>>
  BY DEF Acquire, TakeOver, Release, game
<1>2. Quiet' => Quiet
  BY <1>1 DEF Quiet
<1>3. QuietIsLevel'
  BY <1>1, <1>2 DEF Fences, QuietIsLevel, Level
<1>4. PipeEndsInFlight' /\ PendingIsInFlight' /\ ExecutedIsPending'
  BY <1>1 DEF Fences, PipeEndsInFlight, PendingIsInFlight, ExecutedIsPending
<1>5. AnswerIsLast' /\ AnswerFreesBridge'
  BY <1>1 DEF Fences, AnswerIsLast, Names, Level, AnswerFreesBridge, Completes
<1> QED BY <1>3, <1>4, <1>5 DEF Fences

LEMMA StirFences ==
  ASSUME IInv, Fences, Stir
  PROVE  Fences'
<1>1. /\ listener'.exec = listener.exec /\ listener'.settle = listener.settle
      /\ listener'.pending = listener.pending /\ listener'.active = listener.active
  BY StirredFields DEF Stir, IInv, Types
<1>2. UNCHANGED <<latest, inFlight, queue, toGame, toBridge, fate, restarts>>
  BY DEF Stir, bridge
<1>3. PipeEndsInFlight' /\ PendingIsInFlight' /\ ExecutedIsPending'
  BY <1>1, <1>2 DEF Fences, PipeEndsInFlight, PendingIsInFlight, ExecutedIsPending
<1>4. QuietIsLevel'
  BY <1>1, <1>2 DEF Fences, QuietIsLevel, Quiet, Level
<1>5. AnswerIsLast' /\ AnswerFreesBridge'
  BY <1>1, <1>2 DEF Fences, AnswerIsLast, Names, Level, AnswerFreesBridge, Completes
<1> QED BY <1>3, <1>4, <1>5 DEF Fences

LEMMA StableFrameFences ==
  ASSUME IInv, Fences, StableFrame
  PROVE  Fences'
<1>1. PICK messages : StableOutcome(messages)
  BY StableFrameFacts DEF IInv
<1>2. UNCHANGED <<latest, inFlight, queue, toGame, restarts>>
  BY DEF StableFrame, bridge
<1>3. Delivered({}, messages)
  BY <1>1, DeliveryFacts DEF IInv, StableOutcome, FrameOutcome
<1>4. /\ listener'.exec = listener.exec
      /\ \A i \in DOMAIN messages : Level(messages[i], listener')
  BY <1>1 DEF StableOutcome, FrameOutcome, Level
<1>5. \A i \in DOMAIN toBridge' :
        \/ i \in DOMAIN toBridge /\ toBridge'[i] = toBridge[i]
        \/ i \notin DOMAIN toBridge /\ Level(toBridge'[i], listener')
  BY <1>3, <1>4 DEF Delivered
<1>6. inFlight.verb # "state" => inFlight.id \in CommandIds
  BY HoldingFacts DEF NoCommand
<1>7. CASE /\ listener'.active = listener.active
           /\ listener'.pending = listener.pending /\ listener'.settle = listener.settle
           /\ \A i \in DOMAIN messages :
                messages[i].kind # "unsolicited" => Names(listener, messages[i].id)
  <2>1. \A id \in CommandIds : fate'[id] = fate[id]
    BY <1>3, <1>7 DEF Delivered, Names, IInv, NamedAreAnswered
  <2>2. inFlight.verb # "state" => fate'[inFlight.id] = fate[inFlight.id]
    BY <1>6, <2>1
  <2>3. PipeEndsInFlight' /\ PendingIsInFlight' /\ ExecutedIsPending'
    BY <1>2, <1>4, <1>7, <2>2
       DEF Fences, PipeEndsInFlight, PendingIsInFlight, ExecutedIsPending
  <2>4. QuietIsLevel'
    <3>1. Quiet' => Quiet
      BY <1>2, <2>2 DEF Quiet
    <3>2. ASSUME Quiet PROVE \A i \in DOMAIN toBridge' : Level(toBridge'[i], listener')
      BY <1>4, <1>5, <1>7, <3>2 DEF Fences, QuietIsLevel, Level
    <3> QED BY <1>2, <1>4, <1>7, <3>1, <3>2 DEF Fences, QuietIsLevel, Level
  <2>5. AnswerIsLast'
    <3> SUFFICES ASSUME inFlight.verb # "state", fate[inFlight.id] = "answered",
                        NEW i \in DOMAIN toBridge', NEW j \in DOMAIN toBridge',
                        Names(toBridge'[i], inFlight.id), i <= j
                 PROVE  Level(toBridge'[j], listener')
      BY <1>2, <2>2 DEF AnswerIsLast, Names, Level
    <3>1. CASE j \notin DOMAIN toBridge
      BY <1>5, <3>1
    <3>2. CASE j \in DOMAIN toBridge
      <4>1. i \in DOMAIN toBridge
        <5>1. /\ DOMAIN toBridge = 1..Len(toBridge) /\ Len(toBridge) \in Nat
              /\ DOMAIN toBridge' = 1..Len(toBridge')
          BY <1>3, LenProperties DEF IInv, Types, Delivered
        <5> QED BY <3>2, <5>1
      <4>2. toBridge'[i] = toBridge[i] /\ toBridge'[j] = toBridge[j]
        BY <1>5, <3>2, <4>1
      <4>3. Level(toBridge[j], listener)
        BY <3>2, <4>1, <4>2 DEF Fences, AnswerIsLast
      <4> QED BY <1>4, <1>7, <4>2, <4>3 DEF Level
    <3> QED BY <3>1, <3>2
  <2>6. AnswerFreesBridge'
    BY <1>2, <1>3, <2>2 DEF Fences, AnswerFreesBridge, Completes, Delivered
  <2> QED BY <2>3, <2>4, <2>5, <2>6 DEF Fences
<1>8. CASE /\ listener.pending /\ ~listener'.pending
           /\ \E i \in DOMAIN messages : /\ Names(messages[i], listener.active)
                                         /\ Closes(listener, listener.active, messages[i])
  <2>1. PICK n \in DOMAIN messages : /\ Names(messages[n], listener.active)
                                     /\ Closes(listener, listener.active, messages[n])
    BY <1>8
  <2>2. /\ inFlight.verb # "state" /\ fate[inFlight.id] # "answered" /\ queue = <<>>
        /\ inFlight.id \in CommandIds
        /\ inFlight.verb = "play" => fate[inFlight.id] = "executed"
    BY <1>6, <1>8 DEF Fences, PendingIsInFlight
  <2>3. ASSUME inFlight.verb = "play"
        PROVE  /\ fate'[inFlight.id] = "answered"
               /\ \E i \in DOMAIN toBridge' : Completes(inFlight, toBridge'[i])
    <3>1. /\ listener.active = inFlight.id
          /\ listener.exec = inFlight.exec + 1 /\ listener.settle = inFlight.settle
      BY <2>2, <2>3 DEF Fences, ExecutedIsPending
    <3>2. fate'[inFlight.id] = "answered"
      BY <1>3, <2>1, <2>2, <2>3, <3>1 DEF Delivered
    <3>3. Completes(inFlight, messages[n])
      BY <1>4, <2>1, <2>3, <3>1 DEF Closes, Completes, Level
    <3>4. Len(toBridge) + n \in DOMAIN toBridge' /\ toBridge'[Len(toBridge) + n] = messages[n]
      BY <1>3, <2>1 DEF Delivered
    <3> QED BY <3>2, <3>3, <3>4
  <2>4. fate'[inFlight.id] # "none" => fate[inFlight.id] # "none"
    BY <1>3, <2>2 DEF Delivered
  <2>5. PipeEndsInFlight' /\ PendingIsInFlight' /\ ExecutedIsPending'
    BY <1>2, <1>8, <2>2, <2>3, <2>4
       DEF Fences, PipeEndsInFlight, PendingIsInFlight, ExecutedIsPending
  <2>6. QuietIsLevel'
    BY <1>2, <2>2, <2>3 DEF QuietIsLevel, Quiet
  <2>7. AnswerIsLast'
    <3> SUFFICES ASSUME NEW i \in DOMAIN toBridge', NEW j \in DOMAIN toBridge',
                        Names(toBridge'[i], inFlight.id), i <= j
                 PROVE  Level(toBridge'[j], listener')
      BY <1>2 DEF AnswerIsLast, Names, Level
    <3>1. i \notin DOMAIN toBridge
      BY <1>5, <2>2 DEF IInv, NamedAreAnswered
    <3>2. j \notin DOMAIN toBridge
      <4>1. /\ DOMAIN toBridge = 1..Len(toBridge) /\ Len(toBridge) \in Nat
            /\ DOMAIN toBridge' = 1..Len(toBridge')
        BY <1>3, LenProperties DEF IInv, Types, Delivered
      <4> QED BY <3>1, <4>1
    <3> QED BY <1>5, <3>2
  <2>8. AnswerFreesBridge'
    BY <1>2, <2>3 DEF AnswerFreesBridge, Completes
  <2> QED BY <2>5, <2>6, <2>7, <2>8 DEF Fences
<1> QED BY <1>1, <1>7, <1>8 DEF StableOutcome

LEMMA ReadFrameFences ==
  ASSUME IInv, Fences, ReadFrame
  PROVE  Fences'
<1> DEFINE command == Head(toGame)
           read == {command.id} \ {NoId}
<1>1. PICK messages : ReadOutcome(command, messages)
  BY ReadFrameFacts DEF IInv
<1>2. /\ toGame \in Seq(Lines) /\ toGame # <<>> /\ toGame' = Tail(toGame)
      /\ UNCHANGED <<latest, inFlight, queue, restarts>>
  BY DEF IInv, Types, ReadFrame, bridge
<1>3. /\ command \in Lines /\ command = toGame[1] /\ 1 \in DOMAIN toGame
      /\ DOMAIN toGame = 1..Len(toGame) /\ DOMAIN toGame' = 1..Len(toGame')
      /\ Len(toGame) \in Nat \ {0} /\ Len(toGame') = Len(toGame) - 1
      /\ \A i \in DOMAIN toGame' : toGame'[i] = toGame[i + 1] /\ i + 1 \in DOMAIN toGame
      /\ toGame' \in Seq(Lines)
  <2>1. /\ toGame' \in Seq(Lines) /\ Len(toGame') = Len(toGame) - 1
        /\ command \in Lines /\ command = toGame[1]
        /\ \A i \in 1..Len(toGame') : toGame'[i] = toGame[i + 1]
    BY <1>2, HeadTailProperties
  <2>2. /\ DOMAIN toGame = 1..Len(toGame) /\ DOMAIN toGame' = 1..Len(toGame')
        /\ Len(toGame) \in Nat \ {0}
    BY <1>2, <2>1, LenProperties, EmptySeq
  <2> QED BY <2>1, <2>2
<1>4. /\ \A id : In(toGame, id) <=> command.id = id \/ In(toGame', id)
      /\ command.id # NoId => ~In(toGame', command.id)
  BY <1>2, TailLine DEF IInv, OnePlace
<1> HIDE DEF command
<1>5. read \in SUBSET CommandIds
  BY <1>3 DEF Lines, MaybeId
<1>6. Delivered(read, messages)
  BY <1>1, <1>5, DeliveryFacts DEF IInv, ReadOutcome, FrameOutcome
<1>7. \A id \in CommandIds : id # command.id => fate'[id] = fate[id]
  <2>1. \A id \in CommandIds : id # command.id =>
          ~\E i \in DOMAIN messages : Names(messages[i], id)
    BY <1>1, NoIdAssumption DEF ReadOutcome, Names
  <2> QED BY <1>6, <2>1 DEF Delivered
<1>8. \A i \in DOMAIN messages : Level(messages[i], listener')
  BY <1>1 DEF ReadOutcome, FrameOutcome, Level
<1>9. /\ \A i \in DOMAIN toBridge' :
           \/ i \in DOMAIN toBridge /\ toBridge'[i] = toBridge[i]
           \/ i \notin DOMAIN toBridge /\ Level(toBridge'[i], listener')
      /\ DOMAIN toBridge = 1..Len(toBridge) /\ Len(toBridge) \in Nat
      /\ DOMAIN toBridge' = 1..Len(toBridge')
  BY <1>6, <1>8, LenProperties DEF Delivered, IInv, Types
<1>10. /\ inFlight.verb # "state" => /\ inFlight # NoCommand
                                     /\ inFlight.id \in CommandIds
                                     /\ fate[inFlight.id] = "none"
       /\ command.verb # "ready"
       /\ command.id = inFlight.id /\ inFlight # NoCommand => command.verb = inFlight.verb
  BY <1>2, <1>3, HoldingFacts DEF Fences, PipeEndsInFlight, NoCommand
\* What the lines left in the pipe keep.
<1>11. ASSUME inFlight.verb # "state" => fate'[inFlight.id] = "none" \/ toGame' = <<>>
       PROVE  PipeEndsInFlight'
  <2>1. ASSUME NEW i \in DOMAIN toGame'
        PROVE  /\ toGame'[i].verb # "ready"
               /\ toGame'[i].id = inFlight.id /\ inFlight # NoCommand =>
                    toGame'[i].verb = inFlight.verb
               /\ toGame'[i].verb # "state" =>
                    /\ toGame'[Len(toGame')] = Line(inFlight) /\ inFlight.verb # "state"
                    /\ inFlight.verb = "play" => toGame'[i].id = inFlight.id
                    /\ \A j \in DOMAIN toGame' : i < j => toGame'[j].verb # "state"
    <3>1. /\ i + 1 \in DOMAIN toGame /\ toGame'[i] = toGame[i + 1]
          /\ Len(toGame') \in DOMAIN toGame' /\ Len(toGame') + 1 = Len(toGame)
          /\ \A j \in DOMAIN toGame' : i < j => i + 1 < j + 1
      BY <1>3, <2>1
    <3>2. toGame'[Len(toGame')] = toGame[Len(toGame)]
      BY <1>3, <3>1
    <3> QED BY <1>3, <3>1, <3>2 DEF Fences, PipeEndsInFlight
  <2> QED BY <1>2, <1>11, <2>1 DEF PipeEndsInFlight
<1>12. CASE command.verb = "state"
  <2>1. /\ listener'.exec = listener.exec
        /\ ~listener.pending => ~listener'.pending /\ listener'.settle = listener.settle
    BY <1>1, <1>12 DEF ReadOutcome
  <2>2. inFlight.verb # "state" => command.id # inFlight.id /\ fate'[inFlight.id] = "none"
    BY <1>7, <1>10, <1>12
  <2>3. PipeEndsInFlight'
    BY <1>11, <2>2
  <2>4. PendingIsInFlight'
    BY <1>2, <1>10, <2>1, <2>2 DEF Fences, PendingIsInFlight
  <2>5. QuietIsLevel'
    <3>1. Quiet' => Quiet
      BY <1>2, <1>10 DEF Quiet
    <3>2. ASSUME Quiet PROVE listener'.settle = listener.settle
      BY <2>1, <3>2, QuietIsIdle
    <3>3. ASSUME Quiet PROVE \A i \in DOMAIN toBridge' : Level(toBridge'[i], listener')
      BY <1>9, <2>1, <3>2, <3>3 DEF Fences, QuietIsLevel, Level
    <3> QED BY <1>2, <2>1, <3>1, <3>2, <3>3 DEF Fences, QuietIsLevel, Level
  <2>6. ExecutedIsPending' /\ AnswerIsLast' /\ AnswerFreesBridge'
    BY <1>2, <2>2 DEF ExecutedIsPending, AnswerIsLast, AnswerFreesBridge
  <2> QED BY <2>3, <2>4, <2>5, <2>6 DEF Fences
<1>13. CASE command.verb # "state"
  <2>1. /\ toGame[Len(toGame)] = Line(inFlight) /\ inFlight.verb # "state"
        /\ inFlight.verb = "play" => command.id = inFlight.id
        /\ queue = <<>>
    BY <1>3, <1>13, GameplayIsSent DEF Fences, PipeEndsInFlight
  <2>2. inFlight.id \in CommandIds /\ fate[inFlight.id] = "none"
    BY <1>10, <2>1
  <2>3. CASE command.id # inFlight.id
    <3>1. fate'[inFlight.id] = "none" /\ inFlight.verb # "play"
      BY <1>7, <2>1, <2>2, <2>3
    <3>2. PipeEndsInFlight'
      BY <1>11, <3>1
    <3>3. PendingIsInFlight' /\ ~Quiet'
      BY <1>2, <2>1, <3>1 DEF PendingIsInFlight, Quiet
    <3> QED BY <1>2, <3>1, <3>2, <3>3
            DEF Fences, QuietIsLevel, ExecutedIsPending, AnswerIsLast, AnswerFreesBridge
  <2>4. CASE command.id = inFlight.id
    <3>1. toGame' = <<>>
      <4>1. Line(inFlight).id = inFlight.id
        BY DEF Line
      <4>2. Len(toGame) \in DOMAIN toGame /\ toGame[Len(toGame)].id = toGame[1].id
        BY <1>3, <2>1, <2>4, <4>1
      <4>3. Len(toGame) = 1
        BY <1>3, <2>2, <2>4, <4>2, NoIdAssumption DEF IInv, OnePlace, Once
      <4> QED BY <1>3, <4>3, EmptySeq
    <3>2. PipeEndsInFlight'
      BY <1>11, <3>1
    <3>3. /\ inFlight.id \in read
          /\ fate'[inFlight.id] \in {"executed", "answered"}
          /\ (\E i \in DOMAIN messages : Names(messages[i], inFlight.id)) =>
               fate'[inFlight.id] = "answered"
          /\ ~(\E i \in DOMAIN messages : Names(messages[i], inFlight.id)) =>
               fate'[inFlight.id] = "executed"
      <4>1. inFlight.id \in read
        BY <2>2, <2>4, NoIdAssumption
      <4> QED BY <1>6, <2>2, <4>1 DEF Delivered
    <3>4. ~Quiet'
      BY <1>2, <2>1, <3>3 DEF Quiet
    <3>5. ASSUME inFlight.verb = "play" PROVE Level(inFlight, listener)
      BY <2>2, <3>5 DEF Fences, QuietIsLevel, Quiet
    <3>6. listener'.exec = listener.exec + 1
      BY <1>1, <1>13 DEF ReadOutcome
    <3>7. CASE /\ listener'.pending /\ listener'.active = command.id
               /\ listener'.settle = listener.settle
               /\ \A i \in DOMAIN messages : messages[i].kind = "unsolicited"
      <4>1. fate'[inFlight.id] = "executed"
        BY <3>3, <3>7 DEF Names
      <4>2. PendingIsInFlight'
        BY <1>2, <2>1, <4>1 DEF PendingIsInFlight
      <4>3. ExecutedIsPending'
        BY <1>2, <2>4, <3>5, <3>6, <3>7 DEF ExecutedIsPending, Level
      <4> QED BY <1>2, <3>2, <3>4, <4>1, <4>2, <4>3
              DEF Fences, QuietIsLevel, AnswerIsLast, AnswerFreesBridge
    <3>8. CASE /\ ~listener'.pending
               /\ \E i \in DOMAIN messages : Closes(listener, command.id, messages[i])
      <4>1. PICK n \in DOMAIN messages : Closes(listener, command.id, messages[n])
        BY <3>8
      <4>2. fate'[inFlight.id] = "answered"
        BY <2>4, <3>3, <4>1 DEF Closes, Names
      <4>3. PendingIsInFlight' /\ ExecutedIsPending'
        BY <1>2, <3>8, <4>2 DEF PendingIsInFlight, ExecutedIsPending
      <4>4. AnswerIsLast'
        <5> SUFFICES ASSUME NEW i \in DOMAIN toBridge', NEW j \in DOMAIN toBridge',
                            Names(toBridge'[i], inFlight.id), i <= j
                     PROVE  Level(toBridge'[j], listener')
          BY <1>2 DEF AnswerIsLast, Names, Level
        <5>1. i \notin DOMAIN toBridge
          BY <1>9, <2>2 DEF IInv, NamedAreAnswered
        <5>2. j \notin DOMAIN toBridge
          BY <1>9, <5>1
        <5> QED BY <1>9, <5>2
      <4>5. AnswerFreesBridge'
        <5> SUFFICES ASSUME inFlight.verb = "play"
                     PROVE  \E i \in DOMAIN toBridge' : Completes(inFlight, toBridge'[i])
          BY <1>2 DEF AnswerFreesBridge, Completes
        <5>1. Completes(inFlight, messages[n])
          BY <1>8, <2>4, <3>5, <3>6, <4>1 DEF Closes, Completes, Level
        <5>2. Len(toBridge) + n \in DOMAIN toBridge' /\ toBridge'[Len(toBridge) + n] = messages[n]
          BY <1>6, <4>1 DEF Delivered
        <5> QED BY <5>1, <5>2
      <4> QED BY <3>2, <3>4, <4>3, <4>4, <4>5 DEF Fences, QuietIsLevel
    <3> QED BY <1>1, <1>13, <3>7, <3>8 DEF ReadOutcome
  <2> QED BY <2>3, <2>4
<1> QED BY <1>12, <1>13

LEMMA StutterFences == ASSUME Fences, UNCHANGED vars PROVE Fences'
<1>1. UNCHANGED <<latest, inFlight, queue, toGame, toBridge, listener, fate, restarts>>
  BY DEF vars, bridge, game
<1>2. PipeEndsInFlight' /\ PendingIsInFlight' /\ ExecutedIsPending'
  BY <1>1 DEF Fences, PipeEndsInFlight, PendingIsInFlight, ExecutedIsPending
<1>3. QuietIsLevel' /\ AnswerIsLast' /\ AnswerFreesBridge'
  BY <1>1 DEF Fences, QuietIsLevel, Quiet, Level, AnswerIsLast, Names, AnswerFreesBridge,
              Completes
<1> QED BY <1>2, <1>3 DEF Fences

LEMMA InitFences == ASSUME Init PROVE Fences
<1>1. /\ DOMAIN toGame = {} /\ DOMAIN toBridge = {} /\ inFlight.verb = "state"
      /\ queue = <<>> /\ latest = Unread
      /\ ~listener.pending /\ listener.exec = 0 /\ listener.settle = 0
  BY DEF Init, NoCommand, Booted
<1> QED BY <1>1 DEF Fences, PipeEndsInFlight, PendingIsInFlight, QuietIsLevel,
                    ExecutedIsPending, AnswerIsLast, AnswerFreesBridge

\* Once the game has answered the gameplay command in flight, an answer that
\* passes the completion fences is on its way, so the first bridge process is
\* never held by a command whose answer it cannot recognise.
THEOREM AnswerArrives == Spec => []AnswerFreesBridge
<1>1. Init => FencesHold
  BY InitFences DEF FencesHold
<1>2. ASSUME IInv, FencesHold, [Next]_vars PROVE FencesHold'
  <2> SUFFICES ASSUME restarts' = 0 PROVE Fences'
    BY DEF FencesHold
  <2>1. ~Restart
    <3>1. restarts \in Nat
      BY <1>2 DEF IInv, Types
    <3> QED BY <3>1 DEF Restart
  <2>2. restarts' = restarts
    BY <1>2, <2>1 DEF Next, ReceiveLine, PassivePoll, Submit, Preempt, Acquire, TakeOver,
                Release, ObservationTimeout, ReadFrame, StableFrame, Stir, vars
  <2>3. Fences
    BY <1>2, <2>2 DEF FencesHold
  <2> QED BY <1>2, <2>1, <2>3, ReceiveLineFences, PassivePollFences, SubmitFences,
             PreemptFences, OwnershipFences, TimeoutFences, ReadFrameFences,
             StableFrameFences, StirFences, StutterFences DEF Next
<1>3. FencesHold => AnswerFreesBridge
  BY DEF FencesHold, Fences, AnswerFreesBridge
<1> QED BY <1>1, <1>2, <1>3, InvariantHolds, PTL DEF Spec
==============================================================================
