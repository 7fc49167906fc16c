--------------------------- MODULE AccountProofs ---------------------------
(***************************************************************************)
(* Proofs about AccountSettings for every set of addresses, credentials    *)
(* and sessions, any number of operations in flight and any number of      *)
(* visits.  The tabs share no variable, so each has an inductive invariant *)
(* and a lemma of its own.                                                 *)
(***************************************************************************)
EXTENDS AccountSettings, TLAPS

-----------------------------------------------------------------------------
(* The email address *)

\* The dialog that is open awaits at most one request; one for a code was made with
\* the address that the field still holds, unless it was typed in or reset.
EmailAwaited ==
    /\ \A s \in Email!Mine : showEmailModal /\ emailLoading
    /\ \A s, t \in Email!Mine : s = t
    /\ \A s \in Email!Mine :
           emailCalls[s].kind = "request" =>
               step = "input" /\ (typed \/ emailCalls[s].address = newEmail)

EmailInv == Email!TypeOK /\ EmailAwaited /\ Email!CodeMatchesAddress

LEMMA EmailInit ==
  ASSUME Email!EmailAssumption, Email!Init
  PROVE  EmailInv
<1> QED
  BY DEF Email!Init, EmailInv, Email!TypeOK, EmailAwaited, Email!CodeMatchesAddress, Email!Mine,
         Email!InFlight

\* A slot takes a request, or the request in it another form.
LEMMA EmailSlot ==
  ASSUME Email!EmailAssumption, Email!TypeOK, NEW s \in Slots, NEW c \in Email!Call,
         emailCalls' = [emailCalls EXCEPT ![s] = c]
  PROVE  /\ emailCalls' \in [Slots -> Email!Call \cup {Free}]
         /\ emailCalls'[s] = c
         /\ \A t \in Slots \ {s} : emailCalls'[t] = emailCalls[t]
         /\ Email!Mine' = IF c.gone = "none" THEN Email!Mine \cup {s} ELSE Email!Mine \ {s}
<1>1. /\ emailCalls' \in [Slots -> Email!Call \cup {Free}]
      /\ emailCalls'[s] = c /\ c # Free
      /\ \A t \in Slots \ {s} : emailCalls'[t] = emailCalls[t]
  BY DEF Email!EmailAssumption, Email!TypeOK
<1> QED
  BY <1>1 DEF Email!Mine, Email!InFlight

LEMMA EmailFreed ==
  ASSUME Email!TypeOK, NEW s \in Slots, emailCalls' = [emailCalls EXCEPT ![s] = Free]
  PROVE  /\ emailCalls' \in [Slots -> Email!Call \cup {Free}]
         /\ \A t \in Slots \ {s} : emailCalls'[t] = emailCalls[t]
         /\ Email!Mine' = Email!Mine \ {s}
<1> QED
  BY DEF Email!TypeOK, Email!Mine, Email!InFlight

\* A dialog that closes leaves nothing that is still awaited by one.
LEMMA EmailAbandoned ==
  ASSUME Email!TypeOK
  PROVE  /\ Email!Abandoned \in [Slots -> Email!Call \cup {Free}]
         /\ \A s \in Slots : Email!Abandoned[s] # Free => Email!Abandoned[s].gone # "none"
<1>1. \A s \in Email!Mine : emailCalls[s] \in Email!Call
  BY DEF Email!Mine, Email!InFlight, Email!TypeOK
<1>2. \A s \in Email!Mine : /\ [emailCalls[s] EXCEPT !.gone = "dialog"] \in Email!Call
                            /\ [emailCalls[s] EXCEPT !.gone = "dialog"].gone = "dialog"
  BY <1>1 DEF Email!Call
<1> QED
  BY <1>2 DEF Email!Abandoned, Email!Mine, Email!InFlight, Email!TypeOK

LEMMA EmailStepInv ==
  ASSUME Email!EmailAssumption, EmailInv, Email!Next
  PROVE  EmailInv'
<1> USE DEF EmailInv
<1>1. ASSUME Email!StartEditEmail
      PROVE  EmailInv'
  <2>1. Email!Mine = {} /\ Email!Mine' = Email!Mine
    BY <1>1 DEF Email!StartEditEmail, EmailAwaited, Email!Mine, Email!InFlight
  <2> QED
    BY <1>1, <2>1 DEF Email!StartEditEmail, Email!TypeOK, EmailAwaited, Email!CodeMatchesAddress
<1>2. ASSUME Email!CloseDialog
      PROVE  EmailInv'
  <2>1. Email!Mine' = {} /\ emailCalls' \in [Slots -> Email!Call \cup {Free}]
    BY <1>2, EmailAbandoned DEF Email!CloseDialog, Email!Mine, Email!InFlight
  <2> QED
    BY <1>2, <2>1 DEF Email!CloseDialog, Email!TypeOK, EmailAwaited, Email!CodeMatchesAddress
<1>3. ASSUME NEW e \in Emails, Email!TypeAddress(e)
      PROVE  EmailInv'
  <2>1. Email!Mine' = Email!Mine
    BY <1>3 DEF Email!TypeAddress, Email!Mine, Email!InFlight
  <2> QED
    BY <1>3, <2>1 DEF Email!TypeAddress, Email!TypeOK, EmailAwaited, Email!CodeMatchesAddress
<1>4. ASSUME NEW s \in Slots, Email!requestVerificationCode(s)
      PROVE  EmailInv'
  <2> DEFINE new == Email!Ask("request", newEmail, newEmail)
  <2>1. new \in Email!Call /\ new.gone = "none" /\ new.address = newEmail
    BY DEF Email!Ask, Email!Call, Email!TypeOK
  <2>2. emailCalls' = [emailCalls EXCEPT ![s] = new]
    BY <1>4 DEF Email!requestVerificationCode
  <2> HIDE DEF new
  <2>3. /\ emailCalls' \in [Slots -> Email!Call \cup {Free}]
        /\ emailCalls'[s] = new
        /\ Email!Mine' = Email!Mine \cup {s}
    BY <2>1, <2>2, EmailSlot
  <2>4. Email!Mine = {}
    BY <1>4 DEF Email!requestVerificationCode, EmailAwaited
  <2> QED
    BY <1>4, <2>1, <2>3, <2>4
       DEF Email!requestVerificationCode, Email!TypeOK, EmailAwaited, Email!CodeMatchesAddress
<1>5. ASSUME Email!Back
      PROVE  EmailInv'
  <2>1. Email!Mine' = Email!Mine /\ Email!Mine = {}
    BY <1>5 DEF Email!Back, Email!Mine, Email!InFlight, EmailAwaited
  <2> QED
    BY <1>5, <2>1 DEF Email!Back, Email!TypeOK, EmailAwaited, Email!CodeMatchesAddress
<1>6. ASSUME NEW s \in Slots, NEW code \in Emails, Email!confirmEmailChange(s, code)
      PROVE  EmailInv'
  <2> DEFINE new == Email!Ask("confirm", newEmail, code)
  <2>1. new \in Email!Call /\ new.gone = "none" /\ new.kind = "confirm"
    BY DEF Email!Ask, Email!Call, Email!TypeOK
  <2>2. emailCalls' = [emailCalls EXCEPT ![s] = new]
    BY <1>6 DEF Email!confirmEmailChange
  <2> HIDE DEF new
  <2>3. /\ emailCalls' \in [Slots -> Email!Call \cup {Free}]
        /\ emailCalls'[s] = new
        /\ Email!Mine' = Email!Mine \cup {s}
    BY <2>1, <2>2, EmailSlot
  <2>4. Email!Mine = {}
    BY <1>6 DEF Email!confirmEmailChange, EmailAwaited
  <2> QED
    BY <1>6, <2>1, <2>3, <2>4
       DEF Email!confirmEmailChange, Email!TypeOK, EmailAwaited, Email!CodeMatchesAddress
<1>7. ASSUME NEW s \in Slots, Email!MailCode(s) \/ Email!AcceptCode(s)
      PROVE  EmailInv'
  <2> DEFINE new == [emailCalls[s] EXCEPT !.done = TRUE]
  <2>1. s \in Email!InFlight /\ emailCalls[s] \in Email!Call
    BY <1>7 DEF Email!MailCode, Email!AcceptCode, Email!InFlight, Email!TypeOK
  <2>2. /\ new \in Email!Call /\ new.kind = emailCalls[s].kind
        /\ new.address = emailCalls[s].address /\ new.gone = emailCalls[s].gone
    BY <2>1 DEF Email!Call
  <2>3. emailCalls' = [emailCalls EXCEPT ![s] = new]
    BY <1>7 DEF Email!MailCode, Email!AcceptCode
  <2>4. mailed' \in Emails \cup {NoEmail}
    BY <1>7, <2>1 DEF Email!MailCode, Email!AcceptCode, Email!Call
  <2> HIDE DEF new
  <2>5. /\ emailCalls' \in [Slots -> Email!Call \cup {Free}]
        /\ emailCalls'[s] = new
        /\ \A t \in Slots \ {s} : emailCalls'[t] = emailCalls[t]
        /\ Email!Mine' = IF new.gone = "none" THEN Email!Mine \cup {s} ELSE Email!Mine \ {s}
    BY <2>2, <2>3, EmailSlot
  <2>6. Email!Mine' = Email!Mine
    BY <2>1, <2>2, <2>5 DEF Email!Mine
  <2>7. UNCHANGED <<profile, showEmailModal, newEmail, step, emailLoading, sentTo, typed>>
    BY <1>7 DEF Email!MailCode, Email!AcceptCode
  <2>8. EmailAwaited'
    BY <2>2, <2>5, <2>6, <2>7 DEF EmailAwaited, Email!Mine, Email!InFlight
  <2> QED
    BY <2>4, <2>5, <2>7, <2>8 DEF Email!TypeOK, Email!CodeMatchesAddress
<1>8. ASSUME NEW s \in Slots, Email!RequestSucceeds(s)
      PROVE  EmailInv'
  <2>1. s \in Email!InFlight /\ emailCalls[s] \in Email!Call /\ emailCalls[s].kind = "request"
    BY <1>8 DEF Email!RequestSucceeds, Email!InFlight, Email!TypeOK
  <2>2. emailCalls[s].address \in Emails
    BY <2>1 DEF Email!Call
  <2>3. /\ emailCalls' \in [Slots -> Email!Call \cup {Free}]
        /\ \A t \in Slots \ {s} : emailCalls'[t] = emailCalls[t]
        /\ Email!Mine' = Email!Mine \ {s}
    BY <1>8, EmailFreed DEF Email!RequestSucceeds
  <2>4. CASE s \in Email!Mine
    <3>1. Email!Mine' = {} /\ (typed \/ emailCalls[s].address = newEmail)
      BY <2>1, <2>3, <2>4 DEF EmailAwaited
    <3> QED
      BY <1>8, <2>2, <2>3, <2>4, <3>1
         DEF Email!RequestSucceeds, Email!TypeOK, EmailAwaited, Email!CodeMatchesAddress
  <2>5. CASE s \notin Email!Mine
    <3>1. Email!Mine' = Email!Mine /\ Email!Mine \subseteq Slots
      BY <2>3, <2>5 DEF Email!Mine, Email!InFlight
    <3>2. UNCHANGED <<mailed, profile, showEmailModal, newEmail, step, emailLoading, sentTo, typed>>
      BY <1>8, <2>5 DEF Email!RequestSucceeds
    <3>3. EmailAwaited'
      BY <2>3, <2>5, <3>1, <3>2 DEF EmailAwaited
    <3> QED
      BY <2>3, <3>2, <3>3 DEF Email!TypeOK, Email!CodeMatchesAddress
  <2> QED
    BY <2>4, <2>5
<1>9. ASSUME NEW s \in Slots, Email!ConfirmSucceeds(s)
      PROVE  EmailInv'
  <2>1. emailCalls[s] \in Email!Call
    BY <1>9 DEF Email!ConfirmSucceeds, Email!InFlight, Email!TypeOK
  <2>2. emailCalls[s].address \in Emails
    BY <2>1 DEF Email!Call
  <2>3. emailCalls' = [Email!Abandoned EXCEPT ![s] = Free]
    BY <1>9 DEF Email!ConfirmSucceeds
  <2>4. /\ emailCalls' \in [Slots -> Email!Call \cup {Free}]
        /\ \A t \in Slots : emailCalls'[t] # Free => emailCalls'[t].gone # "none"
    BY <2>3, EmailAbandoned
  <2>5. Email!Mine' = {}
    BY <2>4 DEF Email!Mine, Email!InFlight
  <2> QED
    BY <1>9, <2>2, <2>4, <2>5
       DEF Email!ConfirmSucceeds, Email!TypeOK, EmailAwaited, Email!CodeMatchesAddress
<1>10. ASSUME NEW s \in Slots, Email!LeftConfirmSucceeds(s)
       PROVE  EmailInv'
  <2>1. emailCalls[s] \in Email!Call /\ emailCalls[s].gone = "panel"
    BY <1>10 DEF Email!LeftConfirmSucceeds, Email!InFlight, Email!TypeOK
  <2>2. emailCalls[s].address \in Emails
    BY <2>1 DEF Email!Call
  <2>3. /\ emailCalls' \in [Slots -> Email!Call \cup {Free}]
        /\ \A t \in Slots \ {s} : emailCalls'[t] = emailCalls[t]
        /\ Email!Mine' = Email!Mine \ {s}
    BY <1>10, EmailFreed DEF Email!LeftConfirmSucceeds
  <2>4. s \notin Email!Mine
    BY <2>1 DEF Email!Mine
  <2>5. EmailAwaited'
    <3>1. Email!Mine' = Email!Mine /\ \A t \in Email!Mine : emailCalls'[t] = emailCalls[t]
      BY <2>3, <2>4 DEF Email!Mine, Email!InFlight
    <3>2. UNCHANGED <<showEmailModal, emailLoading>>
      BY <1>10 DEF Email!LeftConfirmSucceeds
    <3>3. CASE showEmailModal /\ profile' # profile
      <4>1. step' = "input" /\ (emailLoading => typed')
        BY <1>10, <3>3 DEF Email!LeftConfirmSucceeds
      <4> QED
        BY <3>1, <3>2, <4>1 DEF EmailAwaited
    <3>4. CASE ~(showEmailModal /\ profile' # profile)
      <4>1. UNCHANGED <<newEmail, step, typed>>
        BY <1>10, <3>4 DEF Email!LeftConfirmSucceeds
      <4> QED
        BY <3>1, <3>2, <4>1 DEF EmailAwaited
    <3> QED
      BY <3>3, <3>4
  <2> QED
    BY <1>10, <2>2, <2>3, <2>5 DEF Email!LeftConfirmSucceeds, Email!TypeOK, Email!CodeMatchesAddress
<1>11. ASSUME NEW s \in Slots, Email!CallFails(s)
       PROVE  EmailInv'
  <2>1. /\ emailCalls' \in [Slots -> Email!Call \cup {Free}]
        /\ \A t \in Slots \ {s} : emailCalls'[t] = emailCalls[t]
        /\ Email!Mine' = Email!Mine \ {s}
    BY <1>11, EmailFreed DEF Email!CallFails
  <2>2. EmailAwaited'
    BY <1>11, <2>1 DEF Email!CallFails, EmailAwaited, Email!Mine, Email!InFlight
  <2> QED
    BY <1>11, <2>1, <2>2 DEF Email!CallFails, Email!TypeOK, Email!CodeMatchesAddress
<1>12. ASSUME Email!Remount
       PROVE  EmailInv'
  <2>1. \A s \in Email!InFlight : /\ [emailCalls[s] EXCEPT !.gone = "panel"] \in Email!Call
                                  /\ [emailCalls[s] EXCEPT !.gone = "panel"].gone = "panel"
    BY DEF Email!InFlight, Email!TypeOK, Email!Call
  <2>2. emailCalls' \in [Slots -> Email!Call \cup {Free}] /\ Email!Mine' = {}
    BY <1>12, <2>1 DEF Email!Remount, Email!Mine, Email!InFlight
  <2> QED
    BY <1>12, <2>2 DEF Email!Remount, Email!TypeOK, EmailAwaited, Email!CodeMatchesAddress
<1> QED
  BY <1>1, <1>2, <1>3, <1>4, <1>5, <1>6, <1>7, <1>8, <1>9, <1>10, <1>11, <1>12 DEF Email!Next

LEMMA EmailKept ==
  ASSUME EmailInv, UNCHANGED emailVars
  PROVE  EmailInv'
<1>1. Email!Mine' = Email!Mine
  BY DEF emailVars, Email!Mine, Email!InFlight
<1> QED
  BY <1>1 DEF emailVars, EmailInv, Email!TypeOK, EmailAwaited, Email!CodeMatchesAddress

-----------------------------------------------------------------------------
(* Two-factor authentication *)

\* What the panel offers needs a status that was read; only reading it goes without.
MfaKnown ==
    /\ mfaResolved => mfaKnown
    /\ ~mfaLoading /\ ~mfaError => mfaResolved
    /\ dialog # "none" => mfaKnown
    /\ \A s \in Mfa!Mine : mfaTasks[s].kind # "load" => mfaKnown

\* Nothing in flight that the server carried out may still change what is shown.
MfaUnchanged ==
    \A s \in Mfa!InFlight : mfaTasks[s].stage = "sent" \/ mfaTasks[s].kind \in {"load", "enroll"}

\* While the panel is calm it has one operation in flight at most, whose answer is
\* what the server has; until it is taken, what is shown is what the server had.
MfaCalm ==
    calm =>
        /\ Mfa!InFlight \subseteq Mfa!Mine
        /\ \A s, t \in Mfa!InFlight : s = t
        /\ \A s \in Mfa!InFlight :
               mfaTasks[s].stage = "done" =>
                   /\ mfaTasks[s].enabled = enabled /\ mfaTasks[s].codes = codes
                   /\ (mfaTasks[s].kind = "disable" => ~enabled)
        /\ ~mfaKnown => backupCodes = Mfa!NoCodes
        /\ mfaKnown /\ MfaUnchanged =>
               /\ status = enabled
               /\ (status /\ backupCodes # Mfa!NoCodes => backupCodes = codes)

MfaInv == Mfa!TypeOK /\ MfaKnown /\ MfaCalm

LEMMA NewMfaTask ==
  ASSUME Mfa!MfaAssumption, NEW kind \in {"load", "enroll", "activate", "disable", "regenerate"},
         NEW stage \in {"asked", "verifying", "sent", "done"}
  PROVE  /\ Mfa!New(kind, stage) \in Mfa!Task
         /\ Mfa!New(kind, stage).kind = kind
         /\ Mfa!New(kind, stage).stage = stage
         /\ Mfa!New(kind, stage).left = FALSE
<1>1. 0 \in 0..MaxIssues
  BY DEF Mfa!MfaAssumption
<1> QED
  BY <1>1 DEF Mfa!New, Mfa!Task, Mfa!NoCodes, Mfa!Issues

LEMMA MfaInit ==
  ASSUME Mfa!MfaAssumption, Mfa!Init
  PROVE  MfaInv
<1> DEFINE new == Mfa!New("load", "sent")
<1>1. new \in Mfa!Task /\ new.kind = "load" /\ new.stage = "sent" /\ new.left = FALSE
  BY NewMfaTask
<1>2. PICK s0 \in Slots : mfaTasks = [t \in Slots |-> IF t = s0 THEN new ELSE Free]
  BY DEF Mfa!Init
<1> HIDE DEF new
<1>3. /\ mfaTasks \in [Slots -> Mfa!Task \cup {Free}]
      /\ \A t \in Slots : mfaTasks[t] = IF t = s0 THEN new ELSE Free
  BY <1>1, <1>2
<1>4. 0 \in Mfa!Issues
  BY DEF Mfa!MfaAssumption, Mfa!Issues
<1>5. Mfa!TypeOK
  BY <1>3, <1>4 DEF Mfa!Init, Mfa!TypeOK, Mfa!NoCodes
<1>6. MfaKnown /\ MfaCalm
  BY <1>1, <1>3 DEF Mfa!Init, MfaKnown, MfaCalm, Mfa!InFlight, Mfa!Mine, Mfa!Used
<1> QED
  BY <1>5, <1>6 DEF MfaInv

\* A slot takes an operation, or the operation in it another form.
LEMMA MfaSlot ==
  ASSUME Mfa!MfaAssumption, Mfa!TypeOK, NEW s \in Slots, NEW task \in Mfa!Task,
         mfaTasks' = [mfaTasks EXCEPT ![s] = task]
  PROVE  /\ mfaTasks' \in [Slots -> Mfa!Task \cup {Free}]
         /\ mfaTasks'[s] = task
         /\ \A t \in Slots \ {s} : mfaTasks'[t] = mfaTasks[t]
         /\ Mfa!InFlight' = IF task.stage \in {"sent", "done"} THEN Mfa!InFlight \cup {s}
                              ELSE Mfa!InFlight \ {s}
         /\ Mfa!Mine' = IF task.left THEN Mfa!Mine \ {s} ELSE Mfa!Mine \cup {s}
<1>1. /\ mfaTasks' \in [Slots -> Mfa!Task \cup {Free}]
      /\ mfaTasks'[s] = task /\ task # Free
      /\ \A t \in Slots \ {s} : mfaTasks'[t] = mfaTasks[t]
  BY DEF Mfa!MfaAssumption, Mfa!TypeOK
<1> QED
  BY <1>1 DEF Mfa!InFlight, Mfa!Mine, Mfa!Used

LEMMA MfaFreed ==
  ASSUME Mfa!TypeOK, NEW s \in Slots, mfaTasks' = [mfaTasks EXCEPT ![s] = Free]
  PROVE  /\ mfaTasks' \in [Slots -> Mfa!Task \cup {Free}]
         /\ \A t \in Slots \ {s} : mfaTasks'[t] = mfaTasks[t]
         /\ Mfa!InFlight' = Mfa!InFlight \ {s}
         /\ Mfa!Mine' = Mfa!Mine \ {s}
<1> QED
  BY DEF Mfa!TypeOK, Mfa!InFlight, Mfa!Mine, Mfa!Used

LEMMA MfaMember ==
  ASSUME Mfa!TypeOK, NEW s \in Slots, s \in Mfa!Used
  PROVE  mfaTasks[s] \in Mfa!Task
<1> QED
  BY DEF Mfa!TypeOK, Mfa!Used

\* What is in flight, and what is shown, stays.
LEMMA MfaStays ==
  ASSUME MfaCalm, Mfa!InFlight' = Mfa!InFlight,
         \A t \in Mfa!InFlight : mfaTasks'[t] = mfaTasks[t],
         UNCHANGED <<enabled, codes, status, backupCodes, mfaKnown>>, calm' => calm
  PROVE  MfaCalm'
<1>1. MfaUnchanged' <=> MfaUnchanged
  BY DEF MfaUnchanged
<1>2. \A t \in Mfa!InFlight : t \in Mfa!Mine => t \in Mfa!Mine'
  BY DEF Mfa!InFlight, Mfa!Mine, Mfa!Used
<1> QED
  BY <1>1, <1>2 DEF MfaCalm, Mfa!NoCodes

\* The panel offers nothing before its status was read.
LEMMA MfaOffers ==
  ASSUME MfaInv, Mfa!ContentShown
  PROVE  mfaKnown
<1> QED
  BY DEF MfaInv, MfaKnown, Mfa!ContentShown, Mfa!fatalLoadError

\* An operation begins in a slot that was free.
LEMMA MfaBegins ==
  ASSUME Mfa!MfaAssumption, MfaInv, NEW s \in Slots,
         NEW kind \in {"load", "enroll", "activate", "disable", "regenerate"},
         Mfa!Send(s, kind), kind # "load" => mfaKnown, dialog' \in {dialog, "none"},
         UNCHANGED <<enabled, codes, issued, status, enrollment, backupCodes, mfaKnown>>
  PROVE  MfaInv'
<1> DEFINE new == Mfa!New(kind, "sent")
<1>1. new \in Mfa!Task /\ new.kind = kind /\ new.stage = "sent" /\ new.left = FALSE
  BY NewMfaTask
<1>2. /\ mfaTasks' = [mfaTasks EXCEPT ![s] = new]
      /\ mfaLoading' = TRUE /\ mfaError' = FALSE /\ mfaResolved' = mfaResolved
      /\ calm' = (calm /\ Mfa!InFlight = {})
  BY DEF Mfa!Send, Mfa!Begin, Mfa!Resolve, MfaInv, Mfa!TypeOK
<1> HIDE DEF new
<1>3. /\ mfaTasks' \in [Slots -> Mfa!Task \cup {Free}]
      /\ mfaTasks'[s] = new
      /\ \A t \in Slots \ {s} : mfaTasks'[t] = mfaTasks[t]
      /\ Mfa!InFlight' = Mfa!InFlight \cup {s}
      /\ Mfa!Mine' = Mfa!Mine \cup {s}
  BY <1>1, <1>2, MfaSlot DEF MfaInv
<1>4. Mfa!TypeOK'
  BY <1>2, <1>3 DEF MfaInv, Mfa!TypeOK
<1>5. MfaKnown'
  BY <1>1, <1>2, <1>3 DEF MfaInv, MfaKnown, Mfa!Mine, Mfa!Used
<1>6. MfaCalm'
  <2> SUFFICES ASSUME calm' PROVE MfaCalm'
    BY DEF MfaCalm
  <2>1. calm /\ Mfa!InFlight = {} /\ Mfa!InFlight' = {s}
    BY <1>2, <1>3
  <2>2. MfaUnchanged
    BY <2>1 DEF MfaUnchanged
  <2> QED
    BY <1>1, <1>3, <2>1, <2>2 DEF MfaInv, MfaCalm, Mfa!NoCodes
<1> QED
  BY <1>4, <1>5, <1>6 DEF MfaInv

\* An operation of the panel ends without changing what is asked for.
LEMMA MfaEnds ==
  ASSUME MfaKnown, NEW s \in Slots, NEW wrong \in BOOLEAN, Mfa!End(wrong),
         Mfa!Mine' = Mfa!Mine \ {s}, \A t \in Slots \ {s} : mfaTasks'[t] = mfaTasks[t],
         mfaKnown => mfaKnown', ~wrong => mfaKnown', dialog' \in {dialog, "none"},
         {mfaResolved, mfaKnown, mfaKnown'} \subseteq BOOLEAN
  PROVE  MfaKnown' /\ {mfaLoading', mfaError', mfaResolved'} \subseteq BOOLEAN
<1>1. /\ mfaLoading' = FALSE /\ mfaError' = wrong
      /\ mfaResolved' = (mfaResolved \/ (~FALSE /\ ~wrong))
  BY DEF Mfa!End, Mfa!Resolve
<1>2. \A t \in Mfa!Mine' : mfaTasks'[t].kind # "load" => mfaKnown'
  BY DEF MfaKnown, Mfa!Mine, Mfa!Used
<1> QED
  BY <1>1, <1>2 DEF MfaKnown

LEMMA MfaServed ==
  ASSUME Mfa!MfaAssumption, MfaInv, NEW s \in Slots, Mfa!Serve(s)
  PROVE  MfaInv'
<1> DEFINE new == Mfa!Served(mfaTasks[s], enabled', codes')
<1>1. s \in Mfa!Used /\ mfaTasks[s].stage = "sent" /\ mfaTasks[s] \in Mfa!Task
  BY MfaMember DEF Mfa!Serve, MfaInv
<1>2. /\ enabled' \in BOOLEAN /\ codes' \in Mfa!Issues /\ issued' \in Mfa!Issues
      /\ mfaTasks[s].kind \in {"load", "enroll"} => UNCHANGED <<enabled, codes>>
      /\ mfaTasks[s].kind = "disable" => ~enabled'
  <2>1. enabled \in BOOLEAN /\ codes \in Mfa!Issues /\ issued \in Mfa!Issues
    BY DEF MfaInv, Mfa!TypeOK
  <2>2. CASE mfaTasks[s].kind \in {"load", "enroll"}
    BY <2>1, <2>2 DEF Mfa!Serve, Mfa!serverVars
  <2>3. CASE mfaTasks[s].kind = "disable"
    <3>1. enabled' = FALSE /\ codes' = Mfa!NoCodes /\ issued' = issued
      BY <2>3 DEF Mfa!Serve
    <3>2. Mfa!NoCodes \in Mfa!Issues
      BY DEF Mfa!NoCodes, Mfa!Issues, Mfa!MfaAssumption
    <3> QED
      BY <2>1, <2>3, <3>1, <3>2
  <2>4. CASE mfaTasks[s].kind \notin {"load", "enroll", "disable"}
    <3>1. issued < MaxIssues /\ enabled' = TRUE /\ issued' = issued + 1 /\ codes' = issued'
      BY <2>4 DEF Mfa!Serve
    <3>2. issued + 1 \in Mfa!Issues
      BY <2>1, <3>1 DEF Mfa!Issues, Mfa!MfaAssumption
    <3> QED
      BY <2>4, <3>1, <3>2
  <2> QED
    BY <2>2, <2>3, <2>4
<1>3. /\ new \in Mfa!Task /\ new.kind = mfaTasks[s].kind /\ new.stage = "done"
      /\ new.left = mfaTasks[s].left /\ new.enabled = enabled' /\ new.codes = codes'
  BY <1>1, <1>2 DEF Mfa!Served, Mfa!Task
<1>4. /\ mfaTasks' = [mfaTasks EXCEPT ![s] = new]
      /\ UNCHANGED <<status, enrollment, backupCodes, mfaLoading, mfaError, mfaResolved, dialog,
                     mfaKnown, calm>>
  BY DEF Mfa!Serve
<1> HIDE DEF new
<1>5. /\ mfaTasks' \in [Slots -> Mfa!Task \cup {Free}]
      /\ mfaTasks'[s] = new
      /\ \A t \in Slots \ {s} : mfaTasks'[t] = mfaTasks[t]
      /\ Mfa!InFlight' = Mfa!InFlight \cup {s}
      /\ Mfa!Mine' = IF new.left THEN Mfa!Mine \ {s} ELSE Mfa!Mine \cup {s}
  BY <1>3, <1>4, MfaSlot DEF MfaInv
<1>6. /\ s \in Mfa!InFlight /\ Mfa!InFlight' = Mfa!InFlight
      /\ Mfa!Mine' = Mfa!Mine
  BY <1>1, <1>3, <1>5 DEF Mfa!InFlight, Mfa!Mine
<1>7. Mfa!TypeOK'
  BY <1>2, <1>4, <1>5 DEF MfaInv, Mfa!TypeOK
<1>8. MfaKnown'
  BY <1>3, <1>4, <1>5, <1>6 DEF MfaInv, MfaKnown, Mfa!Mine, Mfa!Used
<1>9. MfaCalm'
  <2> SUFFICES ASSUME calm' PROVE MfaCalm'
    BY DEF MfaCalm
  <2>1. /\ calm /\ Mfa!InFlight = {s} /\ s \in Mfa!Mine
        /\ ~mfaKnown => backupCodes = Mfa!NoCodes
    BY <1>4, <1>6 DEF MfaInv, MfaCalm
  <2>2. MfaUnchanged
    BY <1>1, <2>1 DEF MfaUnchanged
  <2>3. mfaKnown /\ MfaUnchanged' =>
            /\ status' = enabled'
            /\ (status' /\ backupCodes' # Mfa!NoCodes => backupCodes' = codes')
    <3> SUFFICES ASSUME mfaKnown, MfaUnchanged'
                 PROVE  /\ status' = enabled'
                        /\ (status' /\ backupCodes' # Mfa!NoCodes => backupCodes' = codes')
      OBVIOUS
    <3>1. mfaTasks[s].kind \in {"load", "enroll"}
      BY <1>3, <1>5, <1>6 DEF MfaUnchanged
    <3> QED
      BY <1>2, <1>4, <2>1, <2>2, <3>1 DEF MfaInv, MfaCalm
  <2> QED
    BY <1>2, <1>3, <1>4, <1>5, <1>6, <2>1, <2>3 DEF MfaCalm, Mfa!NoCodes
<1> QED
  BY <1>7, <1>8, <1>9 DEF MfaInv

LEMMA MfaSucceeds ==
  ASSUME Mfa!MfaAssumption, MfaInv, NEW s \in Slots, Mfa!Succeed(s)
  PROVE  MfaInv'
<1>1. /\ s \in Mfa!Mine /\ s \in Mfa!Used /\ mfaTasks[s] \in Mfa!Task
      /\ mfaTasks[s].stage = "done" /\ s \in Mfa!InFlight
  BY MfaMember DEF Mfa!Succeed, Mfa!Mine, Mfa!InFlight, Mfa!Asked, MfaInv
<1>2. /\ mfaTasks' \in [Slots -> Mfa!Task \cup {Free}]
      /\ \A t \in Slots \ {s} : mfaTasks'[t] = mfaTasks[t]
      /\ Mfa!InFlight' = Mfa!InFlight \ {s}
      /\ Mfa!Mine' = Mfa!Mine \ {s}
  BY MfaFreed DEF Mfa!Succeed, MfaInv
<1>3. mfaKnown' = TRUE
  BY <1>1 DEF Mfa!Succeed, MfaInv, MfaKnown
<1>4. /\ UNCHANGED <<enabled, codes, issued, calm>>
      /\ status' = mfaTasks[s].enabled
      /\ backupCodes' = IF mfaTasks[s].kind \in {"activate", "regenerate"}
                        THEN mfaTasks[s].codes ELSE backupCodes
      /\ dialog' \in {dialog, "none"}
      /\ enrollment' \in BOOLEAN
  BY DEF Mfa!Succeed, Mfa!serverVars, MfaInv, Mfa!TypeOK
<1>5. MfaKnown' /\ {mfaLoading', mfaError', mfaResolved'} \subseteq BOOLEAN
  BY <1>2, <1>3, <1>4, MfaEnds DEF Mfa!Succeed, MfaInv, Mfa!TypeOK
<1>6. mfaTasks[s].enabled \in BOOLEAN /\ mfaTasks[s].codes \in Mfa!Issues
      /\ mfaTasks[s].kind \in {"load", "enroll", "activate", "disable", "regenerate"}
  BY <1>1 DEF Mfa!Task
<1>7. Mfa!TypeOK'
  BY <1>2, <1>3, <1>4, <1>5, <1>6 DEF MfaInv, Mfa!TypeOK
<1>8. MfaCalm'
  <2> SUFFICES ASSUME calm PROVE MfaCalm'
    BY <1>4 DEF MfaCalm
  <2>1. /\ Mfa!InFlight' = {}
        /\ mfaTasks[s].enabled = enabled /\ mfaTasks[s].codes = codes
        /\ mfaTasks[s].kind = "disable" => ~enabled
    BY <1>1, <1>2 DEF MfaInv, MfaCalm
  <2>2. status' = enabled'
    BY <1>4, <2>1
  <2>3. status' /\ backupCodes' # Mfa!NoCodes => backupCodes' = codes'
    <3>1. CASE mfaTasks[s].kind \in {"activate", "regenerate"}
      BY <1>4, <2>1, <3>1
    <3>2. CASE mfaTasks[s].kind = "disable"
      BY <1>4, <2>1, <3>2
    <3>3. CASE mfaTasks[s].kind \in {"load", "enroll"}
      <4>1. MfaUnchanged
        BY <1>1, <3>3 DEF MfaInv, MfaCalm, MfaUnchanged
      <4> QED
        <5>1. mfaKnown => status = enabled /\ (status /\ backupCodes # Mfa!NoCodes => backupCodes = codes)
          BY <4>1 DEF MfaInv, MfaCalm
        <5>2. ~mfaKnown => backupCodes = Mfa!NoCodes
          BY DEF MfaInv, MfaCalm
        <5>3. backupCodes' = backupCodes
          BY <1>4, <3>3
        <5>4. codes' = codes /\ enabled' = enabled
          BY <1>4
        <5>5. ASSUME status', backupCodes' # Mfa!NoCodes
              PROVE  backupCodes' = codes'
          <6>1. mfaKnown
            BY <5>2, <5>3, <5>5
          <6>2. status' = status
            BY <2>2, <5>1, <5>4, <6>1
          <6> QED
            BY <5>1, <5>3, <5>4, <5>5, <6>1, <6>2
        <5> QED
          BY <5>5
    <3> QED
      BY <1>6, <3>1, <3>2, <3>3
  <2> QED
    BY <1>3, <2>1, <2>2, <2>3 DEF MfaCalm, Mfa!NoCodes
<1> QED
  BY <1>5, <1>7, <1>8 DEF MfaInv

LEMMA MfaStepInv ==
  ASSUME Mfa!MfaAssumption, MfaInv, Mfa!Next
  PROVE  MfaInv'
<1> USE DEF Mfa!serverVars
<1>1. ASSUME NEW s \in Slots, Mfa!reload(s)
      PROVE  MfaInv'
  BY <1>1, MfaBegins DEF Mfa!reload
<1>2. ASSUME NEW s \in Slots, Mfa!handleEnrollMFA(s)
      PROVE  MfaInv'
  BY <1>2, MfaBegins, MfaOffers DEF Mfa!handleEnrollMFA
<1>3. ASSUME NEW s \in Slots, Mfa!handleActivateMFA(s)
      PROVE  MfaInv'
  BY <1>3, MfaBegins, MfaOffers DEF Mfa!handleActivateMFA
<1>4. ASSUME NEW s \in Slots, Mfa!handleDisableMFA(s)
      PROVE  MfaInv'
  <2>1. mfaKnown
    BY <1>4 DEF Mfa!handleDisableMFA, MfaInv, MfaKnown
  <2> QED
    BY <1>4, <2>1, MfaBegins DEF Mfa!handleDisableMFA
<1>5. ASSUME NEW s \in Slots, Mfa!handleRegenerateBackupCodes(s)
      PROVE  MfaInv'
  <2>1. mfaKnown
    BY <1>5 DEF Mfa!handleRegenerateBackupCodes, MfaInv, MfaKnown
  <2>2. CASE Mfa!Send(s, "regenerate")
    BY <1>5, <2>1, <2>2, MfaBegins DEF Mfa!handleRegenerateBackupCodes
  <2>3. CASE ~Mfa!Send(s, "regenerate")
    <3> DEFINE new == Mfa!New("regenerate", "asked")
    <3>1. new \in Mfa!Task /\ new.kind = "regenerate" /\ new.stage = "asked" /\ new.left = FALSE
      BY NewMfaTask
    <3>2. /\ mfaTasks[s] = Free /\ mfaTasks' = [mfaTasks EXCEPT ![s] = new]
          /\ dialog' = "none"
          /\ UNCHANGED <<enabled, codes, issued, status, enrollment, backupCodes, mfaLoading, mfaError,
                         mfaResolved, mfaKnown, calm>>
      BY <1>5, <2>3 DEF Mfa!handleRegenerateBackupCodes
    <3> HIDE DEF new
    <3>3. /\ mfaTasks' \in [Slots -> Mfa!Task \cup {Free}]
          /\ mfaTasks'[s] = new
          /\ \A t \in Slots \ {s} : mfaTasks'[t] = mfaTasks[t]
          /\ Mfa!InFlight' = Mfa!InFlight \ {s}
          /\ Mfa!Mine' = Mfa!Mine \cup {s}
      BY <3>1, <3>2, MfaSlot DEF MfaInv
    <3>4. s \notin Mfa!InFlight /\ Mfa!InFlight \subseteq Slots
      BY <3>2 DEF Mfa!InFlight, Mfa!Used
    <3>5. MfaCalm'
      BY <3>2, <3>3, <3>4, MfaStays DEF MfaInv
    <3>6. MfaKnown'
      BY <2>1, <3>2 DEF MfaInv, MfaKnown
    <3> QED
      BY <3>2, <3>3, <3>5, <3>6 DEF MfaInv, Mfa!TypeOK
  <2> QED
    BY <2>2, <2>3
<1>6. ASSUME NEW s \in Slots, Mfa!SudoRuns(s)
      PROVE  MfaInv'
  <2> DEFINE new == [mfaTasks[s] EXCEPT !.stage = "sent"]
  <2>1. s \in Mfa!Used /\ s \notin Mfa!InFlight /\ mfaTasks[s] \in Mfa!Task
    BY <1>6, MfaMember DEF Mfa!SudoRuns, MfaInv
  <2>2. /\ new \in Mfa!Task /\ new.kind = mfaTasks[s].kind /\ new.stage = "sent"
        /\ new.left = mfaTasks[s].left /\ new # Free
    BY <2>1 DEF Mfa!Task, Mfa!MfaAssumption
  <2>3. /\ mfaTasks' = [t \in Slots |-> IF t = s THEN new
                                        ELSE IF t \in Mfa!Asked THEN Free ELSE mfaTasks[t]]
        /\ calm' = (calm /\ Mfa!InFlight = {} /\ s \in Mfa!Mine)
        /\ UNCHANGED <<enabled, codes, issued, status, enrollment, backupCodes, dialog, mfaKnown>>
    BY <1>6 DEF Mfa!SudoRuns
  <2> HIDE DEF new
  <2>4. /\ mfaTasks' \in [Slots -> Mfa!Task \cup {Free}]
        /\ mfaTasks'[s] = new
        /\ \A t \in Slots \ {s} : mfaTasks'[t] = IF t \in Mfa!Asked THEN Free ELSE mfaTasks[t]
    BY <2>2, <2>3 DEF MfaInv, Mfa!TypeOK
  <2>5. /\ Mfa!InFlight' = Mfa!InFlight \cup {s}
        /\ \A t \in Mfa!Mine' : t \in Mfa!Mine /\ mfaTasks'[t].kind = mfaTasks[t].kind
        /\ s \in Mfa!Mine => s \in Mfa!Mine'
    BY <2>1, <2>2, <2>4 DEF Mfa!InFlight, Mfa!Asked, Mfa!Mine, Mfa!Used
  <2>6. /\ {mfaLoading', mfaError', mfaResolved'} \subseteq BOOLEAN
        /\ mfaResolved' => mfaKnown
        /\ ~mfaLoading' /\ ~mfaError' => mfaResolved'
    <3>1. CASE s \in Mfa!Mine
      BY <1>6, <3>1 DEF Mfa!SudoRuns, Mfa!Begin, Mfa!Resolve, MfaInv, MfaKnown, Mfa!TypeOK
    <3>2. CASE s \notin Mfa!Mine
      BY <1>6, <3>2 DEF Mfa!SudoRuns, MfaInv, MfaKnown, Mfa!TypeOK
    <3> QED
      BY <3>1, <3>2
  <2>7. \A t \in Mfa!Mine' : mfaTasks'[t].kind # "load" => mfaKnown
    BY <2>5 DEF MfaInv, MfaKnown
  <2>8. MfaKnown'
    BY <2>3, <2>6, <2>7 DEF MfaInv, MfaKnown
  <2>9. MfaCalm'
    <3> SUFFICES ASSUME calm' PROVE MfaCalm'
      BY DEF MfaCalm
    <3>1. calm /\ Mfa!InFlight = {} /\ Mfa!InFlight' = {s} /\ s \in Mfa!Mine'
      BY <2>3, <2>5
    <3>2. MfaUnchanged
      BY <3>1 DEF MfaUnchanged
    <3> QED
      BY <2>2, <2>3, <2>4, <3>1, <3>2 DEF MfaInv, MfaCalm, Mfa!NoCodes
  <2>10. calm' \in BOOLEAN
    BY <2>3 DEF MfaInv, Mfa!TypeOK
  <2> QED
    BY <2>3, <2>4, <2>6, <2>8, <2>9, <2>10 DEF MfaInv, Mfa!TypeOK
<1>7. ASSUME NEW s \in Slots, Mfa!SudoDismissed(s)
      PROVE  MfaInv'
  <2> DEFINE held == [mfaTasks[s] EXCEPT !.stage = "verifying"]
  <2>1. s \notin Mfa!InFlight /\ s \in Mfa!Used /\ mfaTasks[s] \in Mfa!Task
    BY <1>7, MfaMember DEF Mfa!SudoDismissed, MfaInv
  <2>2. /\ held \in Mfa!Task /\ held.kind = mfaTasks[s].kind /\ held.stage = "verifying"
        /\ held.left = mfaTasks[s].left
    BY <2>1 DEF Mfa!Task
  <2>3. mfaTasks' = [mfaTasks EXCEPT ![s] = Free] \/ mfaTasks' = [mfaTasks EXCEPT ![s] = held]
    BY <1>7 DEF Mfa!SudoDismissed
  <2>4. UNCHANGED <<enabled, codes, issued, status, enrollment, backupCodes, mfaLoading,
                    mfaError, mfaResolved, dialog, mfaKnown, calm>>
    BY <1>7 DEF Mfa!SudoDismissed, Mfa!serverVars
  <2> HIDE DEF held
  <2>5. /\ mfaTasks' \in [Slots -> Mfa!Task \cup {Free}]
        /\ \A t \in Slots \ {s} : mfaTasks'[t] = mfaTasks[t]
        /\ Mfa!InFlight' = Mfa!InFlight \ {s}
        /\ \A t \in Mfa!Mine' : t \in Mfa!Mine /\ mfaTasks'[t].kind = mfaTasks[t].kind
    <3>1. CASE mfaTasks' = [mfaTasks EXCEPT ![s] = Free]
      BY <3>1, MfaFreed DEF MfaInv, Mfa!Mine, Mfa!Used
    <3>2. CASE mfaTasks' = [mfaTasks EXCEPT ![s] = held]
      <4>1. /\ mfaTasks' \in [Slots -> Mfa!Task \cup {Free}]
            /\ mfaTasks'[s] = held
            /\ \A t \in Slots \ {s} : mfaTasks'[t] = mfaTasks[t]
            /\ Mfa!InFlight' = Mfa!InFlight \ {s}
            /\ Mfa!Mine' = IF held.left THEN Mfa!Mine \ {s} ELSE Mfa!Mine \cup {s}
        BY <2>2, <3>2, MfaSlot DEF MfaInv
      <4> QED
        BY <2>1, <2>2, <4>1 DEF Mfa!Mine, Mfa!Used
    <3> QED
      BY <2>3, <3>1, <3>2
  <2>6. Mfa!InFlight \subseteq Slots
    BY DEF Mfa!InFlight, Mfa!Used
  <2>7. MfaCalm'
    BY <2>1, <2>4, <2>5, <2>6, MfaStays DEF MfaInv
  <2>8. MfaKnown'
    BY <2>4, <2>5 DEF MfaInv, MfaKnown
  <2> QED
    BY <2>4, <2>5, <2>7, <2>8 DEF MfaInv, Mfa!TypeOK
<1>8. ASSUME NEW s \in Slots, Mfa!Fail(s)
      PROVE  MfaInv'
  <2>1. /\ mfaTasks' \in [Slots -> Mfa!Task \cup {Free}]
        /\ \A t \in Slots \ {s} : mfaTasks'[t] = mfaTasks[t]
        /\ Mfa!Mine' = Mfa!Mine \ {s}
    BY <1>8, MfaFreed DEF Mfa!Fail, MfaInv
  <2>2. MfaKnown' /\ {mfaLoading', mfaError', mfaResolved'} \subseteq BOOLEAN
    BY <1>8, <2>1, MfaEnds DEF Mfa!Fail, MfaInv, Mfa!TypeOK
  <2>3. MfaCalm'
    BY <1>8 DEF Mfa!Fail, MfaCalm
  <2> QED
    BY <1>8, <2>1, <2>2, <2>3 DEF Mfa!Fail, MfaInv, Mfa!TypeOK
<1>9. ASSUME NEW s \in Slots, Mfa!LeftEnds(s)
      PROVE  MfaInv'
  <2>1. /\ mfaTasks' \in [Slots -> Mfa!Task \cup {Free}]
        /\ \A t \in Slots \ {s} : mfaTasks'[t] = mfaTasks[t]
        /\ Mfa!Mine' = Mfa!Mine \ {s}
    BY <1>9, MfaFreed DEF Mfa!LeftEnds, MfaInv
  <2>2. ~calm /\ calm' = calm
    BY <1>9 DEF Mfa!LeftEnds, MfaInv, MfaCalm
  <2>3. MfaKnown'
    BY <1>9, <2>1 DEF Mfa!LeftEnds, MfaInv, MfaKnown, Mfa!Mine, Mfa!Used
  <2> QED
    BY <1>9, <2>1, <2>2, <2>3 DEF Mfa!LeftEnds, MfaInv, Mfa!TypeOK, MfaCalm
<1>10. ASSUME NEW s \in Slots, Mfa!Remount(s)
       PROVE  MfaInv'
  <2> DEFINE new == Mfa!New("load", "sent")
  <2>1. new \in Mfa!Task /\ new.kind = "load" /\ new.stage = "sent" /\ new.left = FALSE
    BY NewMfaTask
  <2>2. \A t \in Mfa!Used : /\ [mfaTasks[t] EXCEPT !.left = TRUE] \in Mfa!Task
                            /\ [mfaTasks[t] EXCEPT !.left = TRUE].left = TRUE
                            /\ [mfaTasks[t] EXCEPT !.left = TRUE].stage = mfaTasks[t].stage
    BY DEF Mfa!Used, MfaInv, Mfa!TypeOK, Mfa!Task
  <2>3. mfaTasks' = [t \in Slots |->
                        IF t = s THEN new
                        ELSE IF t \in Mfa!Used /\ mfaTasks[t].kind # "load"
                             THEN [mfaTasks[t] EXCEPT !.left = TRUE] ELSE Free]
    BY <1>10 DEF Mfa!Remount
  <2> HIDE DEF new
  <2>4. mfaTasks' \in [Slots -> Mfa!Task \cup {Free}]
    BY <2>1, <2>2, <2>3
  <2>5. Mfa!Mine' = {s}
    BY <2>1, <2>2, <2>3 DEF Mfa!Mine, Mfa!Used, Mfa!MfaAssumption
  <2>6. calm' => Mfa!InFlight' = {s}
    <3> SUFFICES ASSUME calm' PROVE Mfa!InFlight' = {s}
      OBVIOUS
    <3>1. \A t \in Mfa!InFlight : mfaTasks[t].kind = "load"
      BY <1>10 DEF Mfa!Remount
    <3>2. \A t \in Slots \ {s} : t \notin Mfa!InFlight'
      BY <2>2, <2>3, <3>1 DEF Mfa!InFlight, Mfa!Used
    <3>3. s \in Mfa!InFlight'
      BY <2>1, <2>3 DEF Mfa!InFlight, Mfa!Used, Mfa!MfaAssumption
    <3> QED
      BY <3>2, <3>3 DEF Mfa!InFlight, Mfa!Used
  <2>7. MfaKnown'
    BY <1>10, <2>1, <2>3, <2>5 DEF Mfa!Remount, MfaKnown
  <2>8. MfaCalm'
    <3>1. mfaTasks'[s].stage # "done"
      BY <2>1, <2>3
    <3>2. mfaKnown' = FALSE /\ backupCodes' = Mfa!NoCodes
      BY <1>10 DEF Mfa!Remount
    <3> QED
      BY <2>5, <2>6, <3>1, <3>2 DEF MfaCalm, Mfa!NoCodes
  <2>9. Mfa!TypeOK'
    <3>1. /\ UNCHANGED <<enabled, codes, issued>>
          /\ status' = FALSE /\ enrollment' = FALSE /\ backupCodes' = Mfa!NoCodes
          /\ mfaLoading' = TRUE /\ mfaError' = FALSE /\ mfaResolved' = FALSE
          /\ dialog' = "none" /\ mfaKnown' = FALSE /\ calm' \in BOOLEAN
      BY <1>10 DEF Mfa!Remount
    <3>2. Mfa!NoCodes \in Mfa!Issues
      BY DEF Mfa!NoCodes, Mfa!Issues, Mfa!MfaAssumption
    <3> QED
      BY <2>4, <3>1, <3>2 DEF MfaInv, Mfa!TypeOK
  <2> QED
    BY <2>7, <2>8, <2>9 DEF MfaInv
<1>11. ASSUME NEW d \in {"regenerate", "disable"}, Mfa!OpenDialog(d)
       PROVE  MfaInv'
  <2>1. mfaKnown
    BY <1>11, MfaOffers DEF Mfa!OpenDialog
  <2>2. Mfa!InFlight' = Mfa!InFlight /\ Mfa!Mine' = Mfa!Mine
    BY <1>11 DEF Mfa!OpenDialog, Mfa!InFlight, Mfa!Mine, Mfa!Used
  <2>3. MfaCalm'
    BY <1>11, <2>2, MfaStays DEF Mfa!OpenDialog, MfaInv
  <2>4. MfaKnown'
    BY <1>11, <2>1, <2>2 DEF Mfa!OpenDialog, MfaInv, MfaKnown
  <2> QED
    BY <1>11, <2>3, <2>4 DEF Mfa!OpenDialog, MfaInv, Mfa!TypeOK
<1>12. ASSUME Mfa!CloseDialog \/ Mfa!cancelEnroll
       PROVE  MfaInv'
  <2>1. Mfa!InFlight' = Mfa!InFlight /\ Mfa!Mine' = Mfa!Mine
    BY <1>12 DEF Mfa!CloseDialog, Mfa!cancelEnroll, Mfa!InFlight, Mfa!Mine, Mfa!Used
  <2>2. MfaCalm'
    BY <1>12, <2>1, MfaStays DEF Mfa!CloseDialog, Mfa!cancelEnroll, MfaInv
  <2>3. MfaKnown'
    BY <1>12, <2>1 DEF Mfa!CloseDialog, Mfa!cancelEnroll, MfaInv, MfaKnown
  <2> QED
    BY <1>12, <2>2, <2>3 DEF Mfa!CloseDialog, Mfa!cancelEnroll, MfaInv, Mfa!TypeOK
<1> QED
  BY <1>1, <1>2, <1>3, <1>4, <1>5, <1>6, <1>7, <1>8, <1>9, <1>10, <1>11, <1>12, MfaServed, MfaSucceeds
     DEF Mfa!Next

LEMMA MfaKept ==
  ASSUME MfaInv, UNCHANGED mfaVars
  PROVE  MfaInv'
<1>1. Mfa!InFlight' = Mfa!InFlight /\ Mfa!Mine' = Mfa!Mine
  BY DEF mfaVars, Mfa!InFlight, Mfa!Mine, Mfa!Used
<1>2. MfaCalm'
  BY <1>1, MfaStays DEF mfaVars, MfaInv
<1> QED
  BY <1>1, <1>2 DEF mfaVars, MfaInv, Mfa!TypeOK, MfaKnown

-----------------------------------------------------------------------------
(* The passkeys *)

KeysRead ==
    /\ keysResolved => keysKnown
    /\ ~keysLoading /\ ~keysError => keysResolved

\* An operation registers nothing before the server has carried it out.
KeysMade ==
    \A s \in Passkeys!Used :
        /\ keyTasks[s].made <= 1
        /\ keyTasks[s].stage # "done" => keyTasks[s].made = 0

PasskeysInv == Passkeys!TypeOK /\ KeysRead /\ KeysMade

LEMMA NewKeyTask ==
  ASSUME Passkeys!PasskeysAssumption, NEW kind \in {"load", "open", "register", "remove"},
         NEW id \in Ids \cup {NoId}, NEW stage \in {"asked", "verifying", "sent", "done"}
  PROVE  /\ Passkeys!New(kind, id, stage) \in Passkeys!Task
         /\ Passkeys!New(kind, id, stage).made = 0
<1> QED
  BY DEF Passkeys!New, Passkeys!Task

LEMMA PasskeysInit ==
  ASSUME Passkeys!PasskeysAssumption, Passkeys!Init
  PROVE  PasskeysInv
<1>1. /\ Passkeys!New("load", NoId, "sent") \in Passkeys!Task
      /\ Passkeys!New("load", NoId, "sent").made = 0
  BY NewKeyTask
<1>2. PICK s0 \in Slots :
          keyTasks = [t \in Slots |-> IF t = s0 THEN Passkeys!New("load", NoId, "sent") ELSE Free]
  BY DEF Passkeys!Init
<1>3. keyTasks \in [Slots -> Passkeys!Task \cup {Free}] /\ KeysMade
  BY <1>1, <1>2 DEF KeysMade, Passkeys!Used
<1>4. keys \subseteq Ids /\ {strong, sudoActive} \subseteq BOOLEAN
  BY DEF Passkeys!Init
<1> QED
  BY <1>3, <1>4 DEF Passkeys!Init, PasskeysInv, Passkeys!TypeOK, KeysRead

\* Operations that the invariant allows in a slot.
KeyTask == {task \in Passkeys!Task : task.made <= 1 /\ (task.stage # "done" => task.made = 0)}

KeyTasks == keyTasks \in [Slots -> KeyTask \cup {Free}]

LEMMA KeyTasksInv ==
  ASSUME PasskeysInv
  PROVE  KeyTasks
<1> QED
  BY DEF PasskeysInv, Passkeys!TypeOK, KeysMade, Passkeys!Used, KeyTasks, KeyTask

\* An operation of the hook ends: the list counts as read only if it did not fail.
LEMMA KeysEnd ==
  ASSUME KeysRead, NEW s \in Slots, NEW failed \in BOOLEAN, Passkeys!EndMine(s, failed),
         {keysLoading, keysError, keysResolved, keysKnown, keysKnown'} \subseteq BOOLEAN,
         keysKnown => keysKnown', ~failed /\ s \in Passkeys!Mine => keysKnown'
  PROVE  KeysRead' /\ {keysLoading', keysError', keysResolved'} \subseteq BOOLEAN
<1>1. CASE s \in Passkeys!Mine
  BY <1>1 DEF Passkeys!EndMine, Passkeys!End, Passkeys!Resolve, KeysRead
<1>2. CASE s \notin Passkeys!Mine
  BY <1>2 DEF Passkeys!EndMine, KeysRead
<1> QED
  BY <1>1, <1>2

\* What there is to show for a step: the operations, the list's flags and the rest.
LEMMA PasskeysParts ==
  ASSUME KeyTasks', KeysRead',
         keys' \subseteq Ids /\ passkeys' \subseteq Ids,
         {strong', sudoActive', keysLoading', keysError', keysResolved', showPasskeyModal',
          named', keysKnown'} \subseteq BOOLEAN,
         pendingRemoval' \in Ids \cup {NoId}
  PROVE  PasskeysInv'
<1> QED
  BY DEF PasskeysInv, Passkeys!TypeOK, KeysMade, Passkeys!Used, KeyTasks, KeyTask

\* The dialog of Sudo Mode is closed, or is open for another operation than before.
LEMMA KeysReplaced ==
  ASSUME KeyTasks, NEW s \in Slots, NEW task \in KeyTask \cup {Free},
         keyTasks' = Passkeys!Replace(s, task)
  PROVE  KeyTasks'
<1> QED
  BY DEF KeyTasks, Passkeys!Replace

LEMMA KeysSudo ==
  ASSUME Passkeys!PasskeysAssumption, PasskeysInv, NEW s \in Slots,
         NEW kind \in {"register", "remove"}, NEW id \in Ids \cup {NoId},
         Passkeys!requireSudo(s, kind, id), UNCHANGED keysKnown
  PROVE  KeyTasks' /\ KeysRead' /\ {keysLoading', keysError', keysResolved'} \subseteq BOOLEAN
<1>1. KeyTasks
  BY KeyTasksInv
<1>2. CASE sudoActive
  <2> DEFINE new == Passkeys!New(kind, id, "sent")
  <2>1. keyTasks' = [keyTasks EXCEPT ![s] = new] /\ Passkeys!Begin
    BY <1>2 DEF Passkeys!requireSudo
  <2>2. new \in KeyTask
    BY NewKeyTask DEF KeyTask
  <2> HIDE DEF new
  <2> QED
    BY <1>1, <2>1, <2>2 DEF KeyTasks, Passkeys!Begin, Passkeys!Resolve, PasskeysInv, KeysRead, Passkeys!TypeOK
<1>3. CASE ~sudoActive
  <2> DEFINE new == Passkeys!New(kind, id, "asked")
  <2>1. /\ keyTasks' = Passkeys!Replace(s, new)
        /\ UNCHANGED <<keysLoading, keysError, keysResolved>>
    BY <1>3 DEF Passkeys!requireSudo
  <2>2. new \in KeyTask
    BY NewKeyTask DEF KeyTask
  <2> HIDE DEF new
  <2>3. KeyTasks'
    BY <1>1, <2>1, <2>2, KeysReplaced
  <2> QED
    BY <2>1, <2>3 DEF PasskeysInv, KeysRead, Passkeys!TypeOK
<1> QED
  BY <1>2, <1>3

LEMMA PasskeysStepInv ==
  ASSUME Passkeys!PasskeysAssumption, PasskeysInv, Passkeys!Next
  PROVE  PasskeysInv'
<1> USE DEF Passkeys!hookVars, Passkeys!formVars
<1>0. KeyTasks /\ KeysRead /\ Passkeys!TypeOK
  BY KeyTasksInv DEF PasskeysInv
<1>1. ASSUME NEW s \in Slots, Passkeys!reload(s)
      PROVE  PasskeysInv'
  <2> DEFINE new == Passkeys!New("load", NoId, "sent")
  <2>1. new \in KeyTask
    BY NewKeyTask DEF KeyTask
  <2>2. keyTasks' = [keyTasks EXCEPT ![s] = new] /\ Passkeys!Begin
    BY <1>1 DEF Passkeys!reload
  <2> HIDE DEF new
  <2>3. KeyTasks' /\ KeysRead'
    BY <1>0, <1>1, <2>1, <2>2 DEF Passkeys!reload, KeyTasks, KeysRead, Passkeys!Begin, Passkeys!Resolve
  <2> QED
    BY <1>0, <1>1, <2>2, <2>3, PasskeysParts
       DEF Passkeys!reload, Passkeys!TypeOK, Passkeys!Begin, Passkeys!Resolve
<1>2. ASSUME NEW s \in Slots, Passkeys!handleOpenAddPasskey(s)
      PROVE  PasskeysInv'
  <2> DEFINE new == Passkeys!New("open", NoId, "asked")
  <2>1. new \in KeyTask
    BY NewKeyTask DEF KeyTask
  <2>2. UNCHANGED keyTasks \/ keyTasks' = [keyTasks EXCEPT ![s] = new]
    BY <1>2 DEF Passkeys!handleOpenAddPasskey
  <2> HIDE DEF new
  <2>3. KeyTasks' /\ KeysRead'
    BY <1>0, <1>2, <2>1, <2>2 DEF Passkeys!handleOpenAddPasskey, KeyTasks, KeysRead
  <2>4. showPasskeyModal' \in BOOLEAN
    BY <1>0, <1>2 DEF Passkeys!handleOpenAddPasskey, Passkeys!TypeOK
  <2> QED
    BY <1>0, <1>2, <2>3, <2>4, PasskeysParts DEF Passkeys!handleOpenAddPasskey, Passkeys!TypeOK
<1>3. ASSUME NEW s \in Slots, Passkeys!handleRegisterPasskey(s)
      PROVE  PasskeysInv'
  <2>1. KeyTasks' /\ KeysRead' /\ {keysLoading', keysError', keysResolved'} \subseteq BOOLEAN
    BY <1>3, KeysSudo DEF Passkeys!handleRegisterPasskey
  <2> QED
    BY <1>0, <1>3, <2>1, PasskeysParts DEF Passkeys!handleRegisterPasskey, Passkeys!TypeOK
<1>4. ASSUME NEW s \in Slots, Passkeys!handleDeletePasskey(s)
      PROVE  PasskeysInv'
  <2>1. pendingRemoval \in Ids \cup {NoId}
    BY <1>0 DEF Passkeys!TypeOK
  <2>2. KeyTasks' /\ KeysRead' /\ {keysLoading', keysError', keysResolved'} \subseteq BOOLEAN
    BY <1>4, <2>1, KeysSudo DEF Passkeys!handleDeletePasskey
  <2> QED
    BY <1>0, <1>4, <2>2, PasskeysParts DEF Passkeys!handleDeletePasskey, Passkeys!TypeOK
<1>5. ASSUME NEW s \in Slots, Passkeys!SudoRuns(s)
      PROVE  PasskeysInv'
  <2>1. /\ s \in Passkeys!Used /\ keyTasks[s].stage # "done" /\ keyTasks[s] \in KeyTask
        /\ UNCHANGED <<keys, named, pendingRemoval>> /\ sudoActive' = TRUE /\ strong' = TRUE
    BY <1>0, <1>5 DEF Passkeys!SudoRuns, Passkeys!Held, Passkeys!Used, KeyTasks
  <2>2. CASE keyTasks[s].kind = "open"
    <3>1. /\ keyTasks' = Passkeys!Replace(s, Free)
          /\ showPasskeyModal' = (showPasskeyModal \/ s \in Passkeys!Mine)
          /\ UNCHANGED <<passkeys, keysLoading, keysError, keysResolved, keysKnown>>
      BY <1>5, <2>2 DEF Passkeys!SudoRuns
    <3>2. KeyTasks' /\ KeysRead'
      BY <1>0, <3>1, KeysReplaced DEF KeysRead
    <3> QED
      BY <1>0, <2>1, <3>1, <3>2, PasskeysParts DEF Passkeys!TypeOK
  <2>3. CASE keyTasks[s].kind # "open"
    <3> DEFINE new == [keyTasks[s] EXCEPT !.stage = "sent"]
    <3>1. new \in KeyTask
      BY <2>1 DEF KeyTask, Passkeys!Task
    <3>2. /\ keyTasks' = Passkeys!Replace(s, new)
          /\ UNCHANGED <<passkeys, keysKnown, showPasskeyModal>>
          /\ Passkeys!Begin \/ UNCHANGED <<keysLoading, keysError, keysResolved>>
      BY <1>5, <2>3 DEF Passkeys!SudoRuns
    <3> HIDE DEF new
    <3>3. KeyTasks'
      BY <1>0, <3>1, <3>2, KeysReplaced
    <3>4. KeysRead' /\ {keysLoading', keysError', keysResolved'} \subseteq BOOLEAN
      <4>1. CASE Passkeys!Begin
        BY <1>0, <3>2, <4>1 DEF KeysRead, Passkeys!Begin, Passkeys!Resolve, Passkeys!TypeOK
      <4>2. CASE UNCHANGED <<keysLoading, keysError, keysResolved>>
        BY <1>0, <3>2, <4>2 DEF KeysRead, Passkeys!TypeOK
      <4> QED
        BY <3>2, <4>1, <4>2
    <3> QED
      BY <1>0, <2>1, <3>2, <3>3, <3>4, PasskeysParts DEF Passkeys!TypeOK
  <2> QED
    BY <2>2, <2>3
<1>6. ASSUME NEW s \in Slots, Passkeys!SudoDismissed(s)
      PROVE  PasskeysInv'
  <2> DEFINE held == [keyTasks[s] EXCEPT !.stage = "verifying"]
  <2>1. keyTasks[s] \in KeyTask /\ keyTasks[s].stage # "done"
    BY <1>0, <1>6 DEF Passkeys!SudoDismissed, Passkeys!Held, Passkeys!Used, KeyTasks
  <2>2. held \in KeyTask
    BY <2>1 DEF KeyTask, Passkeys!Task
  <2>3. keyTasks' = [keyTasks EXCEPT ![s] = Free] \/ keyTasks' = [keyTasks EXCEPT ![s] = held]
    BY <1>6 DEF Passkeys!SudoDismissed
  <2> HIDE DEF held
  <2>4. KeyTasks'
    BY <1>0, <2>2, <2>3 DEF KeyTasks
  <2>5. KeysRead'
    BY <1>0, <1>6 DEF Passkeys!SudoDismissed, KeysRead
  <2> QED
    BY <1>0, <1>6, <2>4, <2>5, PasskeysParts DEF Passkeys!SudoDismissed, Passkeys!TypeOK
<1>7. ASSUME NEW s \in Slots, Passkeys!Serve(s)
      PROVE  PasskeysInv'
  <2> DEFINE new == Passkeys!Served(keyTasks[s])
  <2>1. keyTasks[s] \in KeyTask /\ keyTasks[s].stage = "sent"
    BY <1>0, <1>7 DEF Passkeys!Serve, Passkeys!Sent, Passkeys!Used, KeyTasks
  <2>2. keyTasks[s].made = 0
    BY <2>1 DEF KeyTask
  <2>3. new \in Passkeys!Task /\ new.made \in {0, 1} /\ new.stage = "done"
    BY <2>1, <2>2 DEF Passkeys!Served, KeyTask, Passkeys!Task
  <2>4. new \in KeyTask
    BY <2>3 DEF KeyTask
  <2>5. keyTasks' = [keyTasks EXCEPT ![s] = new]
    BY <1>7 DEF Passkeys!Serve
  <2> HIDE DEF new
  <2>6. KeyTasks' /\ KeysRead'
    BY <1>0, <1>7, <2>4, <2>5 DEF Passkeys!Serve, KeyTasks, KeysRead
  <2>7. keys' \subseteq Ids
    BY <1>0, <1>7 DEF Passkeys!Serve, Passkeys!TypeOK
  <2> QED
    BY <1>0, <1>7, <2>6, <2>7, PasskeysParts DEF Passkeys!Serve, Passkeys!TypeOK
<1>8. ASSUME NEW s \in Slots, Passkeys!Succeed(s)
      PROVE  PasskeysInv'
  <2>1. KeyTasks'
    BY <1>0, <1>8 DEF Passkeys!Succeed, KeyTasks
  <2>2. keysKnown' = (keysKnown \/ s \in Passkeys!Mine) /\ Passkeys!EndMine(s, FALSE)
    BY <1>8 DEF Passkeys!Succeed
  <2>3. KeysRead' /\ {keysLoading', keysError', keysResolved'} \subseteq BOOLEAN
    BY <1>0, <2>2, KeysEnd DEF Passkeys!TypeOK
  <2>4. passkeys' \subseteq Ids /\ {showPasskeyModal', named'} \subseteq BOOLEAN
    BY <1>0, <1>8 DEF Passkeys!Succeed, Passkeys!TypeOK
  <2> QED
    BY <1>0, <1>8, <2>1, <2>2, <2>3, <2>4, PasskeysParts DEF Passkeys!Succeed, Passkeys!TypeOK
<1>9. ASSUME NEW s \in Slots, Passkeys!RegisterRefused(s)
      PROVE  PasskeysInv'
  <2> DEFINE new == [keyTasks[s] EXCEPT !.stage = "asked"]
  <2>1. keyTasks[s] \in KeyTask /\ keyTasks[s].stage = "sent"
    BY <1>0, <1>9 DEF Passkeys!RegisterRefused, Passkeys!Sent, Passkeys!Used, KeyTasks
  <2>2. new \in KeyTask
    BY <2>1 DEF KeyTask, Passkeys!Task
  <2>3. /\ keyTasks' = Passkeys!Replace(s, new)
        /\ sudoActive' = FALSE /\ Passkeys!EndMine(s, TRUE)
        /\ UNCHANGED <<keys, strong, passkeys, keysKnown, showPasskeyModal, named, pendingRemoval>>
    BY <1>9 DEF Passkeys!RegisterRefused, Passkeys!AskAgain
  <2> HIDE DEF new
  <2>4. KeyTasks'
    BY <1>0, <2>2, <2>3, KeysReplaced
  <2>5. KeysRead' /\ {keysLoading', keysError', keysResolved'} \subseteq BOOLEAN
    BY <1>0, <2>3, KeysEnd DEF Passkeys!TypeOK
  <2> QED
    BY <1>0, <2>3, <2>4, <2>5, PasskeysParts DEF Passkeys!TypeOK
<1>10. ASSUME NEW s \in Slots, Passkeys!Fail(s)
       PROVE  PasskeysInv'
  <2>1. KeyTasks'
    BY <1>0, <1>10 DEF Passkeys!Fail, KeyTasks
  <2>2. KeysRead' /\ {keysLoading', keysError', keysResolved'} \subseteq BOOLEAN
    BY <1>0, <1>10, KeysEnd DEF Passkeys!Fail, Passkeys!TypeOK
  <2> QED
    BY <1>0, <1>10, <2>1, <2>2, PasskeysParts DEF Passkeys!Fail, Passkeys!TypeOK
<1>11. ASSUME NEW s \in Slots, Passkeys!Remount(s)
       PROVE  PasskeysInv'
  <2> DEFINE new == Passkeys!New("load", NoId, "sent")
  <2>1. new \in KeyTask
    BY NewKeyTask DEF KeyTask
  <2>2. \A t \in Passkeys!Used : [keyTasks[t] EXCEPT !.left = TRUE] \in KeyTask
    BY <1>0 DEF Passkeys!Used, KeyTasks, KeyTask, Passkeys!Task
  <2>3. keyTasks' = [t \in Slots |->
                        IF t = s THEN new
                        ELSE IF t \in Passkeys!Used \ Passkeys!Doing("load")
                             THEN [keyTasks[t] EXCEPT !.left = TRUE] ELSE Free]
    BY <1>11 DEF Passkeys!Remount
  <2> HIDE DEF new
  <2>4. KeyTasks' /\ KeysRead'
    BY <1>0, <1>11, <2>1, <2>2, <2>3 DEF Passkeys!Remount, KeyTasks, KeysRead
  <2> QED
    BY <1>0, <1>11, <2>4, PasskeysParts DEF Passkeys!Remount, Passkeys!TypeOK
<1>12. ASSUME NEW i \in Ids, Passkeys!AskRemoval(i)
       PROVE  PasskeysInv'
  BY <1>0, <1>12, PasskeysParts DEF Passkeys!AskRemoval, Passkeys!TypeOK, KeyTasks, KeysRead
<1>13. ASSUME NEW blank \in BOOLEAN, Passkeys!TypeName(blank)
       PROVE  PasskeysInv'
  <2>1. KeyTasks' /\ KeysRead'
    BY <1>0, <1>13 DEF Passkeys!TypeName, KeyTasks, KeysRead
  <2> QED
    BY <1>0, <1>13, <2>1, PasskeysParts DEF Passkeys!TypeName, Passkeys!TypeOK
<1>14. ASSUME Passkeys!CloseModal \/ Passkeys!CancelRemoval
       PROVE  PasskeysInv'
  <2>1. KeyTasks' /\ KeysRead'
    BY <1>0, <1>14 DEF Passkeys!CloseModal, Passkeys!CancelRemoval, KeyTasks, KeysRead
  <2> QED
    BY <1>0, <1>14, <2>1, PasskeysParts
       DEF Passkeys!CloseModal, Passkeys!CancelRemoval, Passkeys!TypeOK
<1>15. ASSUME Passkeys!WindowEnds \/ Passkeys!AuthenticationAges
       PROVE  PasskeysInv'
  <2>1. KeyTasks' /\ KeysRead'
    BY <1>0, <1>15 DEF Passkeys!WindowEnds, Passkeys!AuthenticationAges, KeyTasks, KeysRead
  <2> QED
    BY <1>0, <1>15, <2>1, PasskeysParts
       DEF Passkeys!WindowEnds, Passkeys!AuthenticationAges, Passkeys!TypeOK
<1> QED
  BY <1>1, <1>2, <1>3, <1>4, <1>5, <1>6, <1>7, <1>8, <1>9, <1>10, <1>11, <1>12, <1>13, <1>14, <1>15
     DEF Passkeys!Next, Passkeys!Answer

LEMMA PasskeysKept ==
  ASSUME PasskeysInv, UNCHANGED passkeysVars
  PROVE  PasskeysInv'
<1>1. KeyTasks'
  BY KeyTasksInv DEF KeyTasks, passkeysVars
<1> QED
  BY <1>1, PasskeysParts DEF passkeysVars, PasskeysInv, Passkeys!TypeOK, KeysRead

-----------------------------------------------------------------------------
(* The sessions *)

SessionsRead ==
    /\ sessionsResolved => sessionsKnown
    /\ ~sessionsLoading /\ ~sessionsError => sessionsResolved

DevicesInv == Devices!TypeOK /\ SessionsRead

LEMMA DevicesInit ==
  ASSUME Devices!SessionsAssumption, Devices!Init
  PROVE  DevicesInv
<1>1. Devices!New("load", NoSession) \in Devices!Task
  BY DEF Devices!New, Devices!Task
<1> QED
  BY <1>1 DEF Devices!Init, DevicesInv, Devices!TypeOK, SessionsRead

\* A slot takes an operation, or the operation in it another form.
LEMMA DevicesSlot ==
  ASSUME Devices!TypeOK, NEW s \in Slots, NEW task \in Devices!Task \cup {Free},
         sessionTasks' = [sessionTasks EXCEPT ![s] = task]
  PROVE  sessionTasks' \in [Slots -> Devices!Task \cup {Free}]
<1> QED
  BY DEF Devices!TypeOK

LEMMA DevicesStepInv ==
  ASSUME Devices!SessionsAssumption, DevicesInv, Devices!Next
  PROVE  DevicesInv'
<1> USE DEF DevicesInv, Devices!TypeOK, SessionsRead
<1>1. ASSUME NEW s \in Slots, Devices!reload(s)
      PROVE  DevicesInv'
  <2>1. Devices!New("load", NoSession) \in Devices!Task
    BY DEF Devices!New, Devices!Task
  <2> QED
    BY <1>1, <2>1, DevicesSlot DEF Devices!reload, Devices!Begin
<1>2. ASSUME NEW s \in Slots, Devices!handleRevokeSession(s)
      PROVE  DevicesInv'
  <2>1. Devices!New("revoke", pendingSessionId) \in Devices!Task
    BY DEF Devices!New, Devices!Task
  <2> QED
    BY <1>2, <2>1, DevicesSlot DEF Devices!handleRevokeSession, Devices!Begin
<1>3. ASSUME NEW s \in Slots, Devices!Serve(s)
      PROVE  DevicesInv'
  <2> DEFINE new == [sessionTasks[s] EXCEPT !.done = TRUE]
  <2>1. sessionTasks[s] \in Devices!Task
    BY <1>3 DEF Devices!Serve, Devices!Used
  <2>2. new \in Devices!Task
    BY <2>1 DEF Devices!Task
  <2>3. sessionTasks' = [sessionTasks EXCEPT ![s] = new]
    BY <1>3 DEF Devices!Serve
  <2> HIDE DEF new
  <2> QED
    BY <1>3, <2>2, <2>3, DevicesSlot DEF Devices!Serve
<1>4. ASSUME NEW s \in Slots, Devices!Succeed(s)
      PROVE  DevicesInv'
  <2>1. sessionTasks' \in [Slots -> Devices!Task \cup {Free}]
    BY <1>4, DevicesSlot DEF Devices!Succeed
  <2>2. CASE s \in Devices!Mine
    BY <1>4, <2>1, <2>2 DEF Devices!Succeed, Devices!End
  <2>3. CASE s \notin Devices!Mine
    BY <1>4, <2>1, <2>3 DEF Devices!Succeed
  <2> QED
    BY <2>2, <2>3
<1>5. ASSUME NEW s \in Slots, Devices!Fail(s)
      PROVE  DevicesInv'
  <2>1. sessionTasks' \in [Slots -> Devices!Task \cup {Free}]
    BY <1>5, DevicesSlot DEF Devices!Fail
  <2>2. CASE s \in Devices!Mine
    BY <1>5, <2>1, <2>2 DEF Devices!Fail, Devices!End
  <2>3. CASE s \notin Devices!Mine
    BY <1>5, <2>1, <2>3 DEF Devices!Fail
  <2> QED
    BY <2>2, <2>3
<1>6. ASSUME NEW s \in Slots, Devices!Remount(s)
      PROVE  DevicesInv'
  <2>1. Devices!New("load", NoSession) \in Devices!Task
    BY DEF Devices!New, Devices!Task
  <2>2. \A t \in Devices!Used : [sessionTasks[t] EXCEPT !.left = TRUE] \in Devices!Task
    BY DEF Devices!Used, Devices!Task
  <2>3. sessionTasks' \in [Slots -> Devices!Task \cup {Free}]
    BY <1>6, <2>1, <2>2 DEF Devices!Remount
  <2> QED
    BY <1>6, <2>3 DEF Devices!Remount
<1>7. ASSUME NEW i \in Sessions, Devices!AskRevocation(i) \/ Devices!SignInElsewhere(i)
      PROVE  DevicesInv'
  BY <1>7 DEF Devices!AskRevocation, Devices!SignInElsewhere
<1>8. ASSUME Devices!SignOut
      PROVE  DevicesInv'
  BY <1>8 DEF Devices!SignOut
<1>9. ASSUME Devices!CancelRevocation
      PROVE  DevicesInv'
  BY <1>9 DEF Devices!CancelRevocation
<1> QED
  BY <1>1, <1>2, <1>3, <1>4, <1>5, <1>6, <1>7, <1>8, <1>9 DEF Devices!Next

LEMMA DevicesKept ==
  ASSUME DevicesInv, UNCHANGED devicesVars
  PROVE  DevicesInv'
<1> QED
  BY DEF devicesVars, DevicesInv, Devices!TypeOK, SessionsRead

-----------------------------------------------------------------------------

IInv == activeTab \in Tabs /\ EmailInv /\ MfaInv /\ PasskeysInv /\ DevicesInv

LEMMA InitInv == Init => IInv
<1> QED
  BY AccountAssumption, EmailInit, MfaInit, PasskeysInit, DevicesInit DEF Init, IInv

LEMMA StepInv == IInv /\ [Next]_vars => IInv'
<1> SUFFICES ASSUME IInv, [Next]_vars PROVE IInv'
  OBVIOUS
<1> USE AccountAssumption DEF IInv
<1>1. CASE ProfileStep
  BY <1>1, EmailStepInv, MfaKept, PasskeysKept, DevicesKept DEF ProfileStep
<1>2. CASE MfaStep
  BY <1>2, MfaStepInv, EmailKept, PasskeysKept, DevicesKept DEF MfaStep
<1>3. CASE PasskeysStep
  BY <1>3, PasskeysStepInv, EmailKept, MfaKept, DevicesKept DEF PasskeysStep
<1>4. CASE SessionsStep
  BY <1>4, DevicesStepInv, EmailKept, MfaKept, PasskeysKept DEF SessionsStep
<1>5. CASE UNCHANGED vars
  BY <1>5, EmailKept, MfaKept, PasskeysKept, DevicesKept DEF vars
<1> QED
  BY <1>1, <1>2, <1>3, <1>4, <1>5 DEF Next

\* The inductive invariant holds, whatever the tabs do and however they are left.
THEOREM Invariance == Spec => []IInv
<1> QED
  BY InitInv, StepInv, PTL DEF Spec

\* Every variable of every tab has its type.
THEOREM TypeCorrect == Spec => []TypeOK
<1>1. IInv => TypeOK
  BY DEF IInv, TypeOK, EmailInv, MfaInv, PasskeysInv, DevicesInv
<1> QED
  BY Invariance, <1>1, PTL

\* EmailChangeModal confirms a code with the address it was mailed to.
THEOREM ConfirmsMailedAddress == Spec => []CodeMatchesAddress
<1>1. IInv => CodeMatchesAddress
  BY DEF IInv, CodeMatchesAddress, EmailInv
<1> QED
  BY Invariance, <1>1, PTL

\* MFAPanel, PasskeysPanel and SessionsPanel show no default for what was not read.
THEOREM ShowsOnlyWhatWasRead == Spec => []NothingUnreadIsShown
<1>1. IInv => Mfa!StatusIsKnown
  BY MfaOffers DEF IInv, Mfa!StatusIsKnown
<1>2. IInv => Passkeys!ListIsKnown
  BY DEF IInv, PasskeysInv, KeysRead, Passkeys!ListIsKnown, Passkeys!ContentShown,
         Passkeys!fatalLoadError
<1>3. IInv => Devices!SessionsAreKnown
  BY DEF IInv, DevicesInv, SessionsRead, Devices!SessionsAreKnown, Devices!ContentShown,
         Devices!fatalLoadError
<1>4. IInv => NothingUnreadIsShown
  BY <1>1, <1>2, <1>3 DEF NothingUnreadIsShown
<1> QED
  BY Invariance, <1>4, PTL

\* MFAPanel shows backup codes that work.
THEOREM ShowsWorkingCodes == Spec => []ShownCodesWork
<1>1. ASSUME IInv, Mfa!ContentShown, calm, Mfa!InFlight = {}
      PROVE  status = enabled /\ (status /\ backupCodes # Mfa!NoCodes => backupCodes = codes)
  <2>1. mfaKnown /\ MfaUnchanged
    BY <1>1, MfaOffers DEF IInv, MfaUnchanged
  <2> QED
    BY <1>1, <2>1 DEF IInv, MfaInv, MfaCalm
<1>2. IInv => ShownCodesWork
  BY <1>1 DEF ShownCodesWork, Mfa!ShownCodesWork
<1> QED
  BY Invariance, <1>2, PTL

\* A submission of PasskeysPanel registers one credential at most.
THEOREM RegistersOneCredential == Spec => []RegistersOnce
<1>1. IInv => RegistersOnce
  BY DEF IInv, PasskeysInv, KeysMade, RegistersOnce, Passkeys!RegistersOnce
<1> QED
  BY Invariance, <1>1, PTL

=============================================================================
