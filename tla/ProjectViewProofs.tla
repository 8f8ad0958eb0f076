-------------------------- MODULE ProjectViewProofs --------------------------
(***************************************************************************)
(* The types and the safety of ProjectView, for any number of runs, PUTs    *)
(* and faults.                                                              *)
(***************************************************************************)
EXTENDS ProjectView, FiniteSetTheorems, TLAPS

Created == {r \in Runs : run[r] # "none"}
Messages == {row, msg} \cup BagToSet(puts)

\* The runs are created one after the other, the record of a run goes when it
\* is lost, and what waits to be created has a number left.
Numbered ==
    /\ NextRun \in Nat
    /\ \A r \in Runs : run[r] # "none" <=> r < NextRun
    /\ \A r \in kept : run[r] \in {"active"} \cup Outcomes
    /\ post.phase = "sent" => NextRun \in Runs

\* A message names, if anything, a run that was created, and what is saved or
\* on its way to be saved is no phantom.
Named ==
    /\ \A m \in Messages : m.run \in {None} \cup Created
    /\ \A m \in {row} \cup BagToSet(puts) : ~Phantom(m)

\* Who waits for an answer will get one, of a run that was created.  A Stop
\* that is pressed meanwhile is noted for the run to come, and for no other.
Awaited ==
    /\ post.phase = "answered" => post.run \in Created
    /\ call.phase = "reading" => call.run \in Created
    /\ call.phase = "posting" =>
           post.phase # "none" /\ post.client = "here" /\ ~post.stop
    /\ post.phase = "sent" /\ post.client = "gone" => ~post.stop
    /\ post.phase \in {"sent", "answered"} /\ post.stop => Attempt \in pressed
    /\ cancelled \subseteq pressed
    /\ \A r \in pressed \ cancelled :
           post.phase \in {"sent", "answered"} /\ post.stop /\ r = Attempt

\* A message that is what it says.
Sound(m) ==
    /\ m \in MessageType /\ m.run \in {None} \cup Created
    /\ m.status = "succeeded" => \E r \in Runs : run[r] = "succeeded"

IInv == TypeOK /\ Numbered /\ Named /\ SuccessIsReal /\ Awaited

-----------------------------------------------------------------------------
(* What the operators do                                                    *)

\* A PUT that is sent is on its way with those that were, one that arrives or
\* is lost leaves no new one behind.
LEMMA PutAdds ==
    ASSUME NEW m
    PROVE  BagToSet(Put(m)) = BagToSet(puts) \cup {m}
BY DEF Put, BagToSet, SetToBag, (+)

LEMMA TakeAddsNone ==
    ASSUME NEW m
    PROVE  BagToSet(puts (-) SetToBag({m})) \subseteq BagToSet(puts)
BY DEF BagToSet, SetToBag, (-)

\* A change of the message shows, if at all, and is saved unless a phantom.
LEMMA UpdateShows ==
    ASSUME NEW m, Update(m)
    PROVE  /\ msg' \in {msg, m}
           /\ \A p \in BagToSet(puts') : p \in BagToSet(puts) \/ (p = m /\ ~Phantom(m))
<1>1. CASE Phantom(m)
  BY <1>1 DEF Update, Saved
<1>2. CASE ~Phantom(m)
  BY <1>2, PutAdds DEF Update, Saved
<1>3. QED
  BY <1>1, <1>2

\* The number of the next run depends on which were created.
LEMMA SameNumber ==
    ASSUME \A r \in Runs : run'[r] # "none" <=> run[r] # "none"
    PROVE  Created' = Created /\ NextRun' = NextRun
<1>1. {r \in Runs : run'[r] # "none"} = {r \in Runs : run[r] # "none"}
  OBVIOUS
<1>2. QED
  BY <1>1 DEF Created, NextRun

LEMMA FirstNumber ==
    ASSUME \A r \in Runs : run[r] = "none"
    PROVE  NextRun = 1
<1>1. {r \in Runs : run[r] # "none"} = {}
  OBVIOUS
<1>2. QED
  BY <1>1, FS_EmptySet DEF NextRun

LEMMA FollowingNumber ==
    ASSUME TypeOK, Numbered, NextRun \in Runs,
           run' = [run EXCEPT ![NextRun] = "active"]
    PROVE  /\ NextRun' = NextRun + 1
           /\ Created' = Created \cup {NextRun}
           /\ NextRun \notin Created
<1>1. Created' = Created \cup {NextRun} /\ NextRun \notin Created
  BY DEF Created, TypeOK, Numbered, Runs
<1>2. IsFiniteSet(Runs)
  BY FS_Interval, ProjectViewAssumption DEF Runs
<1>3. IsFiniteSet(Created)
  BY <1>2, FS_Subset DEF Created
<1>4. Cardinality(Created \cup {NextRun}) = Cardinality(Created) + 1
  BY <1>1, <1>3, FS_AddElement
<1>5. NextRun = Cardinality(Created) + 1 /\ NextRun' = Cardinality(Created') + 1
  BY DEF NextRun, Created
<1>6. QED
  BY <1>1, <1>4, <1>5

-----------------------------------------------------------------------------
(* The invariant, part by part                                              *)

\* Runs are created and end; nothing takes that back.
GoesOn ==
    \A r \in Runs :
        /\ run[r] # "none" => run'[r] # "none"
        /\ run[r] = "succeeded" => run'[r] = "succeeded"

LEMMA SoundBefore ==
    ASSUME IInv
    PROVE  \A m \in Messages : Sound(m)
BY DEF IInv, TypeOK, Named, SuccessIsReal, Messages, Sound

\* The part of the invariant that is about the messages.
MessagesHold ==
    /\ row \in MessageType /\ msg \in MessageType
    /\ BagToSet(puts) \subseteq MessageType
    /\ Named /\ SuccessIsReal

\* The messages stay sound if those that are new are.
LEMMA MessagesKeep ==
    ASSUME IInv, GoesOn,
           \A m \in Messages' : m \in Messages \/ Sound(m)',
           \A m \in {row'} \cup BagToSet(puts') : ~Phantom(m)
    PROVE  MessagesHold'
<1>1. \A m \in Messages' : Sound(m)'
  BY SoundBefore DEF Sound, GoesOn, Created
<1>2. QED
  BY <1>1 DEF Sound, SuccessIsReal, Messages, MessagesHold, Named

LEMMA MessagesStay ==
    ASSUME IInv, GoesOn, UNCHANGED <<row, msg, puts>>
    PROVE  MessagesHold'
<1>1. Messages' = Messages
  BY DEF Messages
<1>2. QED
  BY <1>1, MessagesKeep DEF IInv, Named

\* A step of the page: the daemon and the row are left alone, and the message
\* shows m, if at all.
LEMMA PageKeeps ==
    ASSUME IInv, NEW m, Update(m), Sound(m), UNCHANGED daemonVars
    PROVE  MessagesHold'
<1>1. UNCHANGED <<run, kept, row>>
  BY DEF daemonVars
<1>2. /\ msg' \in {msg, m}
      /\ \A p \in BagToSet(puts') : p \in BagToSet(puts) \/ (p = m /\ ~Phantom(m))
  BY UpdateShows
<1>3. GoesOn /\ \A n : Sound(n)' <=> Sound(n)
  BY <1>1 DEF GoesOn, Sound, Created
<1>4. \A n \in Messages' : n \in Messages \/ Sound(n)'
  BY <1>1, <1>2, <1>3 DEF Messages
<1>5. \A n \in {row'} \cup BagToSet(puts') : ~Phantom(n)
  BY <1>1, <1>2 DEF IInv, Named
<1>6. QED
  BY <1>3, <1>4, <1>5, MessagesKeep

\* Where nothing is created, the numbers stay as they are.
LEMMA NumbersStay ==
    ASSUME IInv, UNCHANGED run
    PROVE  Created' = Created /\ NextRun' = NextRun /\ GoesOn
BY SameNumber DEF GoesOn

\* Whoever forgets the Stop that waits is left with those that were sent.
LEMMA OnlySentAreHeeded ==
    ASSUME IInv
    PROVE  Heedless = cancelled
BY DEF IInv, Awaited, Heedless

-----------------------------------------------------------------------------
(* Every step preserves the invariant: the daemon                           *)

LEMMA CreateKeeps ==
    ASSUME IInv, Create
    PROVE  IInv'
<1>1. /\ NextRun' = NextRun + 1 /\ Created' = Created \cup {NextRun}
      /\ NextRun \in Runs /\ NextRun \notin Created
  BY FollowingNumber DEF IInv, Create
<1>2. UNCHANGED <<puts, cancelled, faults, view, msg, call, done, listing, pressed>>
  BY DEF Create, pageVars
<1>3. GoesOn
  BY <1>1 DEF Create, GoesOn, Created, IInv, TypeOK
<1>4. row' = Pinned(NextRun) /\ row \in MessageType /\ Sound(row)
  BY SoundBefore DEF Create, Messages, Sound
<1>5. Sound(row)' /\ ~Phantom(row)'
  <2>1. /\ row' \in MessageType /\ row'.run = NextRun
        /\ row'.status = "succeeded" => row.status = "succeeded"
    BY <1>1, <1>4 DEF Pinned, MessageType, Outcomes
  <2>2. NextRun # None
    BY <1>1, ProjectViewAssumption DEF Runs, None
  <2>3. QED
    BY <1>1, <1>3, <1>4, <2>1, <2>2 DEF Sound, GoesOn, Phantom
<1>6. MessagesHold'
  <2>1. \A m \in Messages' : m \in Messages \/ Sound(m)'
    BY <1>2, <1>5 DEF Messages, Sound
  <2>2. \A m \in BagToSet(puts') : ~Phantom(m)
    BY <1>2 DEF IInv, Named
  <2>3. QED
    BY <1>3, <1>5, <2>1, <2>2, MessagesKeep
<1>7. TypeOK'
  BY <1>1, <1>2, <1>6 DEF Create, TypeOK, IInv, MessagesHold, PostType, NoPost, None
<1>8. Numbered'
  BY <1>1, <1>2 DEF Create, Numbered, IInv, TypeOK, Runs, Created, NoPost
<1>9. Awaited'
  BY <1>1, <1>2 DEF Create, Awaited, IInv, TypeOK, PostType, NoPost, Attempt
<1>10. QED
  BY <1>6, <1>7, <1>8, <1>9 DEF IInv, MessagesHold

LEMMA RefuseKeeps ==
    ASSUME IInv, Refuse
    PROVE  IInv'
<1>1. UNCHANGED <<run, kept, row, puts, cancelled, faults, view, msg, call, done, listing>>
  BY DEF Refuse, daemonVars, pageVars
<1>2. Created' = Created /\ NextRun' = NextRun /\ GoesOn /\ pressed' = cancelled
  BY <1>1, NumbersStay, OnlySentAreHeeded DEF Refuse
<1>3. MessagesHold'
  BY <1>1, <1>2, MessagesStay
<1>4. TypeOK'
  BY <1>1, <1>2 DEF Refuse, TypeOK, IInv, PostType, NoPost, None
<1>5. Numbered'
  BY <1>1, <1>2 DEF Refuse, Numbered, IInv, TypeOK, PostType, NoPost
<1>6. Awaited'
  BY <1>1, <1>2 DEF Refuse, Awaited, IInv, TypeOK, PostType, NoPost
<1>7. QED
  BY <1>3, <1>4, <1>5, <1>6 DEF IInv, MessagesHold

LEMMA EndsKeeps ==
    ASSUME IInv, NEW r \in Runs, Ends(r)
    PROVE  IInv'
<1>1. UNCHANGED <<kept, puts, post, cancelled, faults, view, msg, call, done, listing, pressed>>
  BY DEF Ends, wireVars, pageVars
<1>2. PICK s \in Outcomes : run' = [run EXCEPT ![r] = s] /\ row' = Reconciled(s)
  BY DEF Ends
<1>3. run[r] = "active" /\ run' \in [Runs -> {"none", "active", "lost"} \cup Outcomes]
  BY <1>2 DEF Ends, IInv, TypeOK
<1>4. Created' = Created /\ NextRun' = NextRun
  BY <1>2, <1>3, SameNumber DEF IInv, TypeOK, Outcomes
<1>5. GoesOn
  BY <1>2, <1>3 DEF GoesOn, IInv, TypeOK, Outcomes
<1>6. Sound(row) /\ ~Phantom(row)
  BY SoundBefore DEF Messages, IInv, Named
<1>7. Sound(row)' /\ ~Phantom(row)'
  BY <1>2, <1>3, <1>4, <1>5, <1>6
     DEF Reconciled, Sound, GoesOn, MessageType, Phantom, Active, Outcomes, IInv, TypeOK
<1>8. MessagesHold'
  <2>1. \A m \in Messages' : m \in Messages \/ Sound(m)'
    BY <1>1, <1>7 DEF Messages, Sound
  <2>2. \A m \in BagToSet(puts') : ~Phantom(m)
    BY <1>1 DEF IInv, Named
  <2>3. QED
    BY <1>5, <1>7, <2>1, <2>2, MessagesKeep
<1>9. TypeOK'
  BY <1>1, <1>3, <1>8 DEF TypeOK, IInv, MessagesHold
<1>10. Numbered'
  BY <1>1, <1>2, <1>3, <1>4 DEF Numbered, IInv, TypeOK, Outcomes
<1>11. Awaited'
  BY <1>1, <1>4 DEF Awaited, IInv, Attempt
<1>12. QED
  BY <1>8, <1>9, <1>10, <1>11 DEF IInv, MessagesHold

LEMMA ExpireKeeps ==
    ASSUME IInv, NEW r \in Runs, Expire(r)
    PROVE  IInv'
<1>1. UNCHANGED <<run, row, puts, post, cancelled, faults, view, msg, call, done, listing, pressed>>
  BY DEF Expire, wireVars, pageVars
<1>2. Created' = Created /\ NextRun' = NextRun /\ GoesOn
  BY <1>1, NumbersStay
<1>3. MessagesHold'
  BY <1>1, <1>2, MessagesStay
<1>4. TypeOK' /\ Numbered' /\ Awaited'
  BY <1>1, <1>2 DEF Expire, TypeOK, Numbered, Awaited, IInv, Attempt
<1>5. QED
  BY <1>3, <1>4 DEF IInv, MessagesHold

LEMMA RestartKeeps ==
    ASSUME IInv, Restart
    PROVE  IInv'
<1>1. UNCHANGED <<row, puts, cancelled, view, msg, call, done, listing>>
  BY DEF Restart, pageVars
<1>2. run' = [r \in Runs |-> IF run[r] = "active" THEN "lost" ELSE run[r]]
  BY DEF Restart
<1>3. Created' = Created /\ NextRun' = NextRun
  BY <1>2, SameNumber
<1>4. GoesOn
  BY <1>2 DEF GoesOn
<1>5. MessagesHold'
  BY <1>1, <1>4, MessagesStay
<1>6. TypeOK'
  <2>1. run' \in [Runs -> {"none", "active", "lost"} \cup Outcomes]
    BY <1>2 DEF IInv, TypeOK
  <2>2. pressed' \subseteq Runs
    BY OnlySentAreHeeded DEF Restart, IInv, TypeOK
  <2>3. post' \in PostType
    BY DEF Restart, IInv, TypeOK, PostType
  <2>4. faults' \in 0 .. MaxFaults
    BY ProjectViewAssumption DEF Restart, IInv, TypeOK
  <2>5. QED
    BY <1>1, <1>5, <2>1, <2>2, <2>3, <2>4 DEF Restart, IInv, TypeOK, MessagesHold
<1>7. Numbered'
  BY <1>2, <1>3 DEF Restart, Numbered, IInv, TypeOK, PostType
<1>8. Awaited'
  <2>1. CASE post.phase = "answered"
    BY <2>1, <1>1, <1>3, OnlySentAreHeeded DEF Restart, Awaited, IInv, TypeOK, PostType
  <2>2. CASE post.phase # "answered"
    BY <2>2, <1>1, <1>3 DEF Restart, Awaited, IInv, Attempt
  <2>3. QED
    BY <2>1, <2>2
<1>9. QED
  BY <1>5, <1>6, <1>7, <1>8 DEF IInv, MessagesHold

LEMMA ShutdownKeeps ==
    ASSUME IInv, Shutdown
    PROVE  IInv'
<1>1. UNCHANGED <<kept, puts, post, cancelled, view, msg, call, done, listing, pressed>>
  BY DEF Shutdown, pageVars
<1>2. /\ run' = [r \in Runs |-> IF run[r] = "active" THEN "canceled" ELSE run[r]]
      /\ row' = Reconciled("canceled")
  BY DEF Shutdown
<1>3. Created' = Created /\ NextRun' = NextRun /\ GoesOn
  BY <1>2, SameNumber DEF GoesOn
<1>4. Sound(row)' /\ ~Phantom(row)'
  <2>1. Sound(row) /\ ~Phantom(row)
    BY SoundBefore DEF Messages, IInv, Named
  <2>2. row' \in {row, [row EXCEPT !.status = "canceled"]}
    BY <1>2 DEF Reconciled
  <2>3. QED
    BY <1>3, <2>1, <2>2 DEF Sound, GoesOn, MessageType, Outcomes, Phantom, Active
<1>5. MessagesHold'
  <2>1. \A m \in Messages' : m \in Messages \/ Sound(m)'
    BY <1>1, <1>4 DEF Messages, Sound
  <2>2. \A m \in BagToSet(puts') : ~Phantom(m)
    BY <1>1 DEF IInv, Named
  <2>3. QED
    BY <1>3, <1>4, <2>1, <2>2, MessagesKeep
<1>6. TypeOK'
  <2>1. run' \in [Runs -> {"none", "active", "lost"} \cup Outcomes]
    BY <1>2 DEF IInv, TypeOK, Outcomes
  <2>2. faults' \in 0 .. MaxFaults
    BY ProjectViewAssumption DEF Shutdown, IInv, TypeOK
  <2>3. QED
    BY <1>1, <1>5, <2>1, <2>2 DEF TypeOK, IInv, MessagesHold
<1>7. Numbered'
  BY <1>1, <1>2, <1>3 DEF Numbered, IInv, TypeOK, Outcomes
<1>8. Awaited'
  BY <1>1, <1>3 DEF Awaited, IInv, Attempt
<1>9. QED
  BY <1>5, <1>6, <1>7, <1>8 DEF IInv, MessagesHold

LEMMA DeliverKeeps ==
    ASSUME IInv, Deliver
    PROVE  IInv'
<1>1. UNCHANGED <<run, kept, post, cancelled, faults, view, msg, call, done, listing, pressed>>
  BY DEF Deliver, pageVars
<1>2. PICK m \in BagToSet(puts) : row' = m /\ puts' = puts (-) SetToBag({m})
  BY DEF Deliver
<1>3. BagToSet(puts') \subseteq BagToSet(puts)
  BY <1>2, TakeAddsNone
<1>4. Created' = Created /\ NextRun' = NextRun /\ GoesOn
  BY <1>1, NumbersStay
<1>5. MessagesHold'
  BY <1>1, <1>2, <1>3, <1>4, MessagesKeep DEF Messages, IInv, Named
<1>6. TypeOK' /\ Numbered' /\ Awaited'
  BY <1>1, <1>4, <1>5 DEF MessagesHold, TypeOK, Numbered, Awaited, IInv, Attempt
<1>7. QED
  BY <1>5, <1>6 DEF IInv, MessagesHold

LEMMA LoseKeeps ==
    ASSUME IInv, Lose
    PROVE  IInv'
<1>1. UNCHANGED <<run, kept, row, cancelled, view, msg, call, done, listing>>
  BY DEF Lose, daemonVars, pageVars
<1>2. faults' \in 0 .. MaxFaults
  BY ProjectViewAssumption DEF Lose, IInv, TypeOK
<1>3. Created' = Created /\ NextRun' = NextRun /\ GoesOn
  BY <1>1, NumbersStay
<1>4. CASE \E m \in BagToSet(puts) : puts' = puts (-) SetToBag({m})
           /\ UNCHANGED <<post, pressed>>
  <2>1. BagToSet(puts') \subseteq BagToSet(puts)
    BY <1>4, TakeAddsNone
  <2>2. MessagesHold'
    BY <1>1, <1>3, <2>1, MessagesKeep DEF Messages, IInv, Named
  <2>3. TypeOK' /\ Numbered' /\ Awaited'
    BY <1>1, <1>2, <1>3, <1>4, <2>2
       DEF MessagesHold, TypeOK, Numbered, Awaited, IInv, Attempt
  <2>4. QED
    BY <2>2, <2>3 DEF IInv, MessagesHold
<1>5. CASE /\ post.phase = "answered" /\ post' = [post EXCEPT !.phase = "refused"]
           /\ pressed' = Heedless /\ UNCHANGED puts
  <2>1. MessagesHold'
    BY <1>1, <1>3, <1>5, MessagesStay
  <2>2. pressed' = cancelled
    BY <1>5, OnlySentAreHeeded
  <2>3. TypeOK' /\ Numbered' /\ Awaited'
    BY <1>1, <1>2, <1>3, <1>5, <2>1, <2>2
       DEF MessagesHold, TypeOK, Numbered, Awaited, IInv, PostType
  <2>4. QED
    BY <2>1, <2>3 DEF IInv, MessagesHold
<1>6. QED
  BY <1>4, <1>5 DEF Lose

-----------------------------------------------------------------------------
(* Every step preserves the invariant: the page                             *)

LEMMA AnswerKeeps ==
    ASSUME IInv, Answer
    PROVE  IInv'
<1>1. UNCHANGED <<run, kept, row, faults, view, done, listing, pressed>>
  BY DEF Answer, daemonVars
<1>2. Created' = Created /\ NextRun' = NextRun /\ GoesOn
  BY <1>1, NumbersStay
<1>3. post.phase = "answered" /\ post.run \in Created /\ Created \subseteq Runs
  BY DEF Answer, IInv, Awaited, Created
<1>4. /\ post' = NoPost /\ puts' = Put(Message("active", post.run))
      /\ msg' \in {msg, [msg EXCEPT !.run = post.run, !.status = "active"]}
  BY DEF Answer
<1>5. BagToSet(puts') = BagToSet(puts) \cup {Message("active", post.run)}
  BY <1>4, PutAdds
<1>6. None \notin Runs
  BY ProjectViewAssumption DEF Runs, None
<1>7. MessagesHold'
  <2>1. LET m == Message("active", post.run) IN Sound(m) /\ ~Phantom(m)
    BY <1>3, <1>6 DEF Message, Sound, MessageType, Phantom, Active
  <2>2. Sound([msg EXCEPT !.run = post.run, !.status = "active"])
    BY <1>3 DEF Sound, MessageType, IInv, TypeOK
  <2>3. \A m : Sound(m)' <=> Sound(m)
    BY <1>1, <1>2 DEF Sound
  <2>4. QED
    BY <1>1, <1>2, <1>4, <1>5, <2>1, <2>2, <2>3, MessagesKeep DEF Messages, IInv, Named
<1>8. /\ cancelled' \subseteq Runs /\ cancelled' \subseteq pressed'
      /\ call' \in CallType /\ (call'.phase = "reading" => call'.run \in Created)
      /\ call'.phase # "posting"
      /\ pressed' \subseteq cancelled'
  <2>1. CASE post.stop /\ cancelled' = cancelled \cup {post.run} /\ UNCHANGED call
    BY <1>1, <1>3, <2>1 DEF IInv, TypeOK, Awaited, Attempt
  <2>2. CASE /\ ~post.stop /\ call' = Reading(post.run, FALSE, TRUE)
             /\ UNCHANGED cancelled
    BY <1>1, <1>3, <2>2 DEF IInv, TypeOK, Awaited, Attempt, CallType, Reading
  <2>3. CASE ~post.stop /\ post.client = "left" /\ UNCHANGED <<call, cancelled>>
    BY <1>1, <1>3, <2>3 DEF IInv, TypeOK, Awaited, Attempt
  <2>4. QED
    BY <2>1, <2>2, <2>3 DEF Answer
<1>9. TypeOK'
  BY <1>1, <1>4, <1>7, <1>8
     DEF TypeOK, IInv, MessagesHold, PostType, NoPost, None
<1>10. Numbered'
  BY <1>1, <1>2, <1>4 DEF Numbered, IInv, NoPost
<1>11. Awaited'
  BY <1>1, <1>2, <1>4, <1>8 DEF Awaited, IInv, NoPost
<1>12. QED
  BY <1>7, <1>9, <1>10, <1>11 DEF IInv, MessagesHold

\* What Show leaves sound: a message with another status, if that is no
\* success, or one there was.
LEMMA SoundStatus ==
    ASSUME IInv, NEW s \in {"active"} \cup Outcomes, NEW w \in BOOLEAN,
           s = "succeeded" => \E r \in Runs : run[r] = "succeeded"
    PROVE  Sound([msg EXCEPT !.status = s]) /\ Sound([msg EXCEPT !.status = s, !.whole = w])
<1>1. Sound(msg)
  BY SoundBefore DEF Messages
<1>2. QED
  BY <1>1 DEF Sound, MessageType

LEMMA OffIsTyped ==
    /\ Off \in CallType
    /\ TypeOK => [call EXCEPT !.live = FALSE] \in CallType
<1>1. Off \in CallType
  BY DEF Off, CallType, None
<1>2. TypeOK => [call EXCEPT !.live = FALSE] \in CallType
  BY DEF TypeOK, CallType
<1>3. QED
  BY <1>1, <1>2

\* A page that reads no longer, or goes on reading, awaits what it awaited.
LEMMA ReadingEnds ==
    ASSUME IInv, UNCHANGED <<run, kept, row, post, cancelled, view, pressed>>,
           call' = Off \/ UNCHANGED call, done' \subseteq Runs,
           listing' \subseteq BOOLEAN, faults' \in 0 .. MaxFaults, MessagesHold'
    PROVE  IInv'
<1>1. Created' = Created /\ NextRun' = NextRun
  BY NumbersStay
<1>2. TypeOK'
  <2>1. call' \in CallType
    BY OffIsTyped DEF TypeOK, IInv
  <2>2. QED
    BY <2>1 DEF TypeOK, IInv, MessagesHold
<1>3. Numbered'
  BY <1>1 DEF Numbered, IInv
<1>4. Awaited'
  BY <1>1 DEF Awaited, IInv, Attempt, Off
<1>5. QED
  BY <1>2, <1>3, <1>4 DEF IInv, MessagesHold

LEMMA RefusedKeeps ==
    ASSUME IInv, Refused
    PROVE  IInv'
<1>1. UNCHANGED <<run, kept, row, cancelled, faults, view, done, listing, pressed>>
  BY DEF Refused, daemonVars
<1>2. Created' = Created /\ NextRun' = NextRun
  BY <1>1, NumbersStay
<1>3. MessagesHold'
  BY SoundStatus, PageKeeps DEF Refused, Show, Outcomes
<1>4. post.phase = "refused" /\ post' = NoPost
      /\ call' \in {Off, [call EXCEPT !.live = FALSE]}
      /\ call'.phase # "posting"
  BY DEF Refused, Off, IInv, TypeOK, CallType
<1>5. pressed \subseteq cancelled
  BY <1>4 DEF IInv, Awaited
<1>6. TypeOK'
  <2>1. call' \in CallType
    BY <1>4, OffIsTyped DEF IInv
  <2>2. post' \in PostType
    BY <1>4 DEF PostType, NoPost, None
  <2>3. QED
    BY <1>1, <1>3, <2>1, <2>2 DEF TypeOK, IInv, MessagesHold
<1>7. Numbered'
  BY <1>1, <1>2, <1>4 DEF Numbered, IInv, NoPost
<1>8. Awaited'
  BY <1>1, <1>2, <1>4, <1>5 DEF Awaited, IInv, NoPost, Off, TypeOK, CallType
<1>9. QED
  BY <1>3, <1>6, <1>7, <1>8 DEF IInv, MessagesHold

LEMMA SeesEventKeeps ==
    ASSUME IInv, SeesEvent
    PROVE  IInv'
<1>1. UNCHANGED <<run, kept, row, post, cancelled, faults, view, call, done, listing, pressed>>
  BY DEF SeesEvent, daemonVars
<1>2. MessagesHold'
  BY SoundStatus, PageKeeps DEF SeesEvent, Show, Outcomes
<1>3. QED
  BY <1>1, <1>2, ReadingEnds DEF IInv, TypeOK

\* The runs that completedReattachRunsRef gets are runs.
LEMMA CompletedAreRuns ==
    ASSUME IInv, call.phase = "reading"
    PROVE  Completed \subseteq Runs /\ call.run \in Runs
BY DEF Completed, IInv, TypeOK, Awaited, Created

LEMMA SeesEndKeeps ==
    ASSUME IInv, SeesEnd
    PROVE  IInv'
<1>1. UNCHANGED <<run, kept, row, post, cancelled, faults, view, pressed>>
  BY DEF SeesEnd, daemonVars
<1>2. call' = Off /\ done' \subseteq Runs /\ call.run \in Runs
  BY CompletedAreRuns DEF SeesEnd
<1>3. Update([msg EXCEPT !.status = run[call.run]])
  BY DEF SeesEnd, EndStatus, Show
<1>4. Sound([msg EXCEPT !.status = run[call.run]])
  BY <1>2, SoundStatus DEF SeesEnd
<1>5. MessagesHold'
  BY <1>1, <1>3, <1>4, PageKeeps DEF daemonVars
<1>6. listing' \subseteq BOOLEAN
  <2>1. call.back \in BOOLEAN
    BY DEF IInv, TypeOK, CallType
  <2>2. QED
    BY <2>1 DEF SeesEnd, IInv, TypeOK
<1>7. QED
  BY <1>1, <1>2, <1>5, <1>6, ReadingEnds DEF IInv, TypeOK

LEMMA ListedKeeps ==
    ASSUME IInv, NEW back \in BOOLEAN, Listed(back)
    PROVE  IInv'
<1>1. UNCHANGED <<run, kept, row, post, cancelled, faults, view, call, done, pressed>>
  BY DEF Listed, daemonVars
<1>2. MessagesHold'
  <2>1. CASE UNCHANGED <<msg, puts>>
    BY <1>1, <2>1, NumbersStay, MessagesStay
  <2>2. CASE \E w \in BOOLEAN : Update([msg EXCEPT !.whole = w])
    <3>1. PICK w \in BOOLEAN : Update([msg EXCEPT !.whole = w])
      BY <2>2
    <3>2. Sound(msg)
      BY SoundBefore DEF Messages
    <3>3. Sound([msg EXCEPT !.whole = w])
      BY <3>2 DEF Sound, MessageType
    <3>4. QED
      BY <1>1, <3>1, <3>3, PageKeeps DEF daemonVars
  <2>3. QED
    BY <2>1, <2>2 DEF Listed
<1>3. listing' \subseteq BOOLEAN
  BY DEF Listed, IInv, TypeOK
<1>4. QED
  BY <1>1, <1>2, <1>3, ReadingEnds DEF IInv, TypeOK

LEMMA DisconnectKeeps ==
    ASSUME IInv, Disconnect
    PROVE  IInv'
<1>1. UNCHANGED <<run, kept, row, post, cancelled, faults, view, listing, pressed>>
  BY DEF Disconnect, daemonVars
<1>2. MessagesHold'
  BY SoundStatus, PageKeeps DEF Disconnect, Show, Outcomes
<1>3. call' = Off /\ done' \subseteq Runs
  BY CompletedAreRuns DEF Disconnect
<1>4. QED
  BY <1>1, <1>2, <1>3, ReadingEnds DEF IInv, TypeOK

LEMMA RecoverUnknownKeeps ==
    ASSUME IInv, RecoverUnknown
    PROVE  IInv'
<1>1. UNCHANGED <<run, kept, row, post, cancelled, view, call, listing, pressed>>
  BY DEF RecoverUnknown, daemonVars
<1>2. MessagesHold'
  BY SoundStatus, PageKeeps DEF RecoverUnknown, Show, Outcomes
<1>3. done' \subseteq Runs
  BY DEF RecoverUnknown, Recoverable, IInv, TypeOK, MessageType
<1>4. faults' \in 0 .. MaxFaults
  BY ProjectViewAssumption DEF RecoverUnknown, IInv, TypeOK
<1>5. QED
  BY <1>1, <1>2, <1>3, <1>4, ReadingEnds DEF IInv, TypeOK

LEMMA RecoverKeptKeeps ==
    ASSUME IInv, RecoverKept
    PROVE  IInv'
<1>1. UNCHANGED <<run, kept, row, post, cancelled, faults, view, done, listing, pressed>>
  BY DEF RecoverKept, daemonVars
<1>2. Created' = Created /\ NextRun' = NextRun /\ GoesOn
  BY <1>1, NumbersStay
<1>3. DEFINE s == run[msg.run]
<1>4. /\ msg.run \in kept /\ msg.run # None /\ call.phase = "off"
      /\ puts' = Put([msg EXCEPT !.status = s])
      /\ msg' = [msg EXCEPT !.status = s, !.whole = FALSE]
      /\ call' = Reading(msg.run, TRUE, s \notin Outcomes)
  BY DEF RecoverKept, Recoverable
<1>5. s \in {"active"} \cup Outcomes /\ msg.run \in Runs /\ msg.run \in Created
  BY <1>4 DEF IInv, Numbered, TypeOK, Named, Messages
<1>6. Sound([msg EXCEPT !.status = s]) /\ Sound([msg EXCEPT !.status = s, !.whole = FALSE])
  BY <1>5, SoundStatus
<1>7. ~Phantom([msg EXCEPT !.status = s])
  BY <1>4 DEF Phantom, IInv, TypeOK, MessageType
<1>8. MessagesHold'
  <2>1. BagToSet(puts') = BagToSet(puts) \cup {[msg EXCEPT !.status = s]}
    BY <1>4, PutAdds
  <2>2. \A m : Sound(m)' <=> Sound(m)
    BY <1>1, <1>2 DEF Sound
  <2> HIDE DEF s
  <2>3. QED
    BY <1>1, <1>2, <1>4, <1>6, <1>7, <2>1, <2>2, MessagesKeep DEF Messages, IInv, Named
<1>9. call' \in CallType /\ call'.phase = "reading" /\ call'.run \in Created
  BY <1>4, <1>5 DEF Reading, CallType
<1>10. TypeOK' /\ Numbered' /\ Awaited'
  BY <1>1, <1>2, <1>8, <1>9 DEF TypeOK, Numbered, Awaited, IInv, MessagesHold, Attempt
<1>11. QED
  BY <1>8, <1>10 DEF IInv, MessagesHold

-----------------------------------------------------------------------------
(* Every step preserves the invariant: the user                             *)

\* The message that handleStop shows.
LEMMA StopShows ==
    ASSUME IInv, Stop
    PROVE  MessagesHold'
<1>1. UNCHANGED <<run, kept, row>>
  BY DEF Stop, daemonVars
<1>2. CASE Active(msg)
  BY <1>2, SoundStatus, PageKeeps DEF Stop, Show, Outcomes
<1>3. CASE ~Active(msg)
  BY <1>1, <1>3, NumbersStay, MessagesStay DEF Stop
<1>4. QED
  BY <1>2, <1>3

LEMMA StopKeeps ==
    ASSUME IInv, Stop
    PROVE  IInv'
<1>1. /\ UNCHANGED <<run, kept, row, faults, view, done, listing>>
      /\ call' = Off
  BY DEF Stop, daemonVars
<1>2. Created' = Created /\ NextRun' = NextRun
  BY <1>1, NumbersStay
<1>3. MessagesHold' /\ call' \in CallType
  BY <1>1, StopShows DEF Off, CallType, None
<1>4. CASE /\ call.phase = "posting" /\ post' = [post EXCEPT !.stop = TRUE]
           /\ pressed' = IF post.phase = "refused" THEN pressed
                         ELSE pressed \cup {Attempt}
           /\ UNCHANGED cancelled
  <2>1. post.phase \in {"sent", "answered", "refused"} /\ post.client = "here"
    BY <1>4 DEF IInv, Awaited, TypeOK, PostType
  <2>2. post' \in PostType /\ post'.phase = post.phase /\ post'.run = post.run
        /\ post'.client = "here" /\ post'.stop
    BY <1>4, <2>1 DEF IInv, TypeOK, PostType
  <2>3. post.phase # "refused" => Attempt \in Runs
    BY <2>1 DEF IInv, Awaited, Attempt, Numbered, Created
  <2>4. Attempt' = Attempt
    BY <1>2, <2>2 DEF Attempt
  <2>5. TypeOK'
    BY <1>1, <1>3, <1>4, <2>2, <2>3 DEF TypeOK, IInv, MessagesHold
  <2>6. Numbered' /\ Awaited'
    BY <1>1, <1>2, <1>4, <2>1, <2>2, <2>4 DEF Numbered, Awaited, IInv, Off
  <2>7. QED
    BY <1>3, <2>5, <2>6 DEF IInv, MessagesHold
<1>5. CASE /\ call.phase = "reading"
           /\ cancelled' = cancelled \cup {call.run}
           /\ pressed' = pressed \cup {call.run} /\ UNCHANGED post
  <2>1. call.run \in Runs
    BY <1>5, CompletedAreRuns
  <2>2. TypeOK' /\ Numbered' /\ Awaited'
    BY <1>1, <1>2, <1>3, <1>5, <2>1
       DEF TypeOK, Numbered, Awaited, IInv, MessagesHold, Attempt, Off
  <2>3. QED
    BY <1>3, <2>2 DEF IInv, MessagesHold
<1>6. QED
  BY <1>4, <1>5 DEF Stop

LEMMA RetryKeeps ==
    ASSUME IInv, Retry
    PROVE  IInv'
<1>1. UNCHANGED <<run, kept, row, cancelled, faults, view, done, listing, pressed>>
  BY DEF Retry, daemonVars
<1>2. Created' = Created /\ NextRun' = NextRun /\ GoesOn
  BY <1>1, NumbersStay
<1>3. /\ msg' = Message("active", None) /\ puts' = puts
      /\ post = NoPost /\ post' = Sent /\ call' = Posting /\ NextRun \in Runs
  BY DEF Retry, Saved, Phantom, Active, Message
<1>4. MessagesHold'
  <2>1. Sound(Message("active", None))
    BY DEF Sound, Message, MessageType
  <2>2. \A m : Sound(m)' <=> Sound(m)
    BY <1>1, <1>2 DEF Sound
  <2>3. QED
    BY <1>1, <1>2, <1>3, <2>1, <2>2, MessagesKeep DEF Messages, IInv, Named
<1>5. pressed \subseteq cancelled
  BY <1>3 DEF IInv, Awaited, NoPost
<1>6. post' \in PostType /\ call' \in CallType
  BY <1>3 DEF PostType, CallType, Sent, Posting, Off, None
<1>7. TypeOK' /\ Numbered'
  BY <1>1, <1>2, <1>3, <1>4, <1>6 DEF TypeOK, Numbered, IInv, MessagesHold
<1>8. Awaited'
  BY <1>1, <1>2, <1>3, <1>5 DEF Awaited, IInv, Sent, Posting, Off
<1>9. QED
  BY <1>4, <1>7, <1>8 DEF IInv, MessagesHold

\* No message is shown.
LEMMA LeaveKeeps ==
    ASSUME IInv, Leave
    PROVE  IInv'
<1>1. /\ UNCHANGED <<run, kept, row, puts, cancelled, faults, done, pressed>>
      /\ msg' = Absent /\ view' = "away" /\ call' = Off /\ listing' = {}
      /\ post' \in {post, [post EXCEPT !.client = "left"]}
  BY DEF Leave, daemonVars
<1>2. Created' = Created /\ NextRun' = NextRun /\ GoesOn
  BY <1>1, NumbersStay
<1>3. MessagesHold'
  <2>1. Sound(Absent)
    BY DEF Sound, Absent, Message, MessageType
  <2>2. \A m : Sound(m)' <=> Sound(m)
    BY <1>1, <1>2 DEF Sound
  <2>3. QED
    BY <1>1, <1>2, <2>1, <2>2, MessagesKeep DEF Messages, IInv, Named
<1>4. /\ post' \in PostType /\ call' \in CallType /\ post'.phase = post.phase
      /\ post'.run = post.run /\ post'.stop = post.stop
      /\ post'.client = "gone" => post.client = "gone"
  BY <1>1 DEF IInv, TypeOK, PostType, CallType, Off, None
<1>5. Attempt' = Attempt
  BY <1>2, <1>4 DEF Attempt
<1>6. TypeOK' /\ Numbered'
  BY <1>1, <1>2, <1>3, <1>4 DEF TypeOK, Numbered, IInv, MessagesHold
<1>7. Awaited'
  BY <1>1, <1>2, <1>4, <1>5 DEF Awaited, IInv, Off
<1>8. QED
  BY <1>3, <1>6, <1>7 DEF IInv, MessagesHold

\* The page shows the row.
LEMMA RowIsShown ==
    ASSUME IInv, UNCHANGED <<run, row, puts>>, msg' = row
    PROVE  MessagesHold'
<1>1. Messages' \subseteq Messages
  BY DEF Messages
<1>2. QED
  BY <1>1, NumbersStay, MessagesKeep DEF IInv, Named

LEMMA OpenKeeps ==
    ASSUME IInv, Open
    PROVE  IInv'
<1>1. /\ UNCHANGED <<run, kept, row, puts, post, cancelled, faults, call, done, listing, pressed>>
      /\ msg' = row /\ view' = "open"
  BY DEF Open, daemonVars, wireVars
<1>2. Created' = Created /\ NextRun' = NextRun /\ MessagesHold'
  BY <1>1, NumbersStay, RowIsShown
<1>3. TypeOK' /\ Numbered' /\ Awaited'
  BY <1>1, <1>2 DEF TypeOK, Numbered, Awaited, IInv, MessagesHold, Attempt
<1>4. QED
  BY <1>2, <1>3 DEF IInv, MessagesHold

LEMMA ReloadKeeps ==
    ASSUME IInv, Reload
    PROVE  IInv'
<1>1. /\ UNCHANGED <<run, kept, row, puts, cancelled, faults>>
      /\ msg' = row /\ view' = "open" /\ call' = Off /\ done' = {}
      /\ listing' = {}
  BY DEF Reload, daemonVars
<1>2. Created' = Created /\ NextRun' = NextRun /\ MessagesHold'
  BY <1>1, NumbersStay, RowIsShown
<1>3. pressed' = cancelled
  BY OnlySentAreHeeded DEF Reload
<1>4. /\ post' \in PostType /\ ~post'.stop /\ post'.phase # "answered"
      /\ post'.phase = "sent" => post.phase = "sent"
  <2>1. post' \in {[post EXCEPT !.client = "gone", !.stop = FALSE], NoPost}
        /\ (post.phase # "sent" => post' = NoPost)
    BY DEF Reload
  <2>2. NoPost \in PostType /\ ~NoPost.stop /\ NoPost.phase = "none"
    BY DEF NoPost, PostType, None
  <2>3. CASE post.phase = "sent"
    BY <2>1, <2>2, <2>3 DEF IInv, TypeOK, PostType
  <2>4. CASE post.phase # "sent"
    BY <2>1, <2>2, <2>4
  <2>5. QED
    BY <2>3, <2>4
<1>5. TypeOK' /\ Numbered'
  BY <1>1, <1>2, <1>3, <1>4, OffIsTyped DEF TypeOK, Numbered, IInv, MessagesHold
<1>6. Awaited'
  BY <1>1, <1>2, <1>3, <1>4 DEF Awaited, IInv, Off
<1>7. QED
  BY <1>2, <1>5, <1>6 DEF IInv, MessagesHold

-----------------------------------------------------------------------------
(* The theorems                                                             *)

LEMMA InitKeeps ==
    ASSUME Init
    PROVE  IInv
<1>1. NextRun = 1 /\ Created = {} /\ 1 \in Runs
  BY FirstNumber, ProjectViewAssumption DEF Init, Created, Runs
<1>2. BagToSet(puts) = {}
  BY DEF Init, BagToSet, EmptyBag, SetToBag
<1>3. row \in MessageType /\ msg \in MessageType
      /\ row.run = None /\ msg.run = None
      /\ row.status = "absent" /\ msg.status = "active"
  BY DEF Init, Absent, Message, MessageType
<1>4. post \in PostType /\ call \in CallType /\ ~post.stop
      /\ post.phase = "sent" /\ post.client = "here" /\ call.phase = "posting"
  BY DEF Init, Sent, Posting, Off, PostType, CallType, None
<1>5. TypeOK
  BY <1>2, <1>3, <1>4, ProjectViewAssumption DEF Init, TypeOK
<1>6. Numbered
  BY <1>1 DEF Numbered, Init, Runs
<1>7. Named /\ SuccessIsReal
  BY <1>2, <1>3 DEF Named, SuccessIsReal, Messages, Phantom, Active
<1>8. Awaited
  BY <1>4 DEF Awaited, Init
<1>9. QED
  BY <1>5, <1>6, <1>7, <1>8 DEF IInv

LEMMA StepKeeps ==
    ASSUME IInv, [Next]_vars
    PROVE  IInv'
<1>1. CASE Next
  BY <1>1, CreateKeeps, RefuseKeeps, RestartKeeps, ShutdownKeeps, DeliverKeeps, LoseKeeps, EndsKeeps,
     ExpireKeeps, AnswerKeeps, RefusedKeeps, SeesEventKeeps, SeesEndKeeps, ListedKeeps,
     DisconnectKeeps, RecoverUnknownKeeps, RecoverKeptKeeps, StopKeeps, RetryKeeps,
     LeaveKeeps, OpenKeeps, ReloadKeeps
     DEF Next
<1>2. CASE UNCHANGED vars
  <2>1. UNCHANGED <<run, kept, row, puts, post, cancelled, faults, view, msg, call,
                    done, listing, pressed>>
    BY <1>2 DEF vars, daemonVars, wireVars, pageVars
  <2>2. Created' = Created /\ NextRun' = NextRun /\ MessagesHold'
    BY <2>1, NumbersStay, MessagesStay
  <2>3. TypeOK' /\ Numbered' /\ Awaited'
    BY <2>1, <2>2 DEF TypeOK, Numbered, Awaited, IInv, Attempt
  <2>4. QED
    BY <2>2, <2>3 DEF IInv, MessagesHold
<1>3. QED
  BY <1>1, <1>2

\* The inductive invariant: types, the numbers of the runs, every message
\* sound and no saved one a phantom, and the Stops that wait for an answer.
THEOREM Invariance == Spec => []IInv
<1>1. Init => IInv
  BY InitKeeps
<1>2. IInv /\ [Next]_vars => IInv'
  BY StepKeeps
<1>3. QED
  BY <1>1, <1>2, PTL DEF Spec

\* The runs, the messages, the requests and the page are well typed.
THEOREM TypeCorrect == Spec => []TypeOK
<1>1. IInv => TypeOK
  BY DEF IInv
<1>2. QED
  BY <1>1, Invariance, PTL

\* pinAssistantMessageOnRunCreate and isPhantomDaemonRunMessage: a row that is
\* queued or running names a run that was created, however PUTs are overtaken.
THEOREM RowsCanBeAttached == Spec => []NoPhantomRow
<1>1. IInv => NoPhantomRow
  BY DEF IInv, Named, Messages, NoPhantomRow, Phantom, Created
<1>2. QED
  BY <1>1, Invariance, PTL

\* reconcileAssistantMessageOnRunEnd and streamViaDaemon: nobody claims a
\* success that no run of the message had.
THEOREM NoInventedSuccess == Spec => []SuccessIsReal
<1>1. IInv => SuccessIsReal
  BY DEF IInv
<1>2. QED
  BY <1>1, Invariance, PTL

\* handleStop: only what the user stopped is cancelled, and a Stop that is
\* pressed before the answer of the POST is kept for the run it creates.
THEOREM StopsAreHeeded == Spec => []StopIsSent
<1>1. IInv => StopIsSent
  <2>1. SUFFICES ASSUME IInv PROVE StopIsSent
    OBVIOUS
  <2>2. ASSUME NEW r \in Runs, r \in pressed \ cancelled, run[r] # "none"
        PROVE  post.phase = "answered" /\ post.run = r /\ post.stop
    <3>1. post.phase \in {"sent", "answered"} /\ post.stop /\ r = Attempt
      BY <2>1, <2>2 DEF IInv, Awaited
    <3>2. post.phase # "sent"
      BY <2>1, <2>2, <3>1 DEF IInv, Numbered, Attempt, Runs
    <3>3. QED
      BY <3>1, <3>2 DEF Attempt
  <2>3. QED
    BY <2>1, <2>2 DEF IInv, Awaited, StopIsSent
<1>2. QED
  BY <1>1, Invariance, PTL

=============================================================================
