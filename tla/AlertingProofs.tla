---------------------------- MODULE AlertingProofs ----------------------------
(***************************************************************************)
(* Theorems about Alerting, for any number of workers, admins and clients  *)
(* and whatever the settings.                                              *)
(***************************************************************************)
EXTENDS Alerting, FiniteSetTheorems, TLAPS

(* A row of alerted_ips is written by a call that has sent its mail.       *)
MailedBefore(ip, at) == \E m \in mails : m.ip = ip /\ m.at <= at
RecordsFollowMails ==
    \A w \in Workers :
        /\ alr[w].step = "record" => MailedBefore(alr[w].ip, now)
        /\ alr[w].step = "write" => MailedBefore(alr[w].ip, alr[w].stamp)

(* What is about to be recorded is no older than the first mail of its     *)
(* batch, nor is a row that appeared since a call found none.              *)
BatchesOK ==
    /\ \A ip \in IPs : batch[ip] <= now
    /\ \A w \in Workers : alr[w].step = "write" =>
          /\ alr[w].stamp >= batch[alr[w].ip]
          /\ ~alr[w].found /\ alr[w].ip \in DOMAIN alerted =>
                alerted[alr[w].ip] >= batch[alr[w].ip]

(* As long as no write of the token file went wrong or overlapped another, *)
(* the file is empty while its one writer is about to write it, and can be *)
(* read otherwise.                                                         *)
OnlyWriter(w) ==
    /\ console # "saving"
    /\ \A v \in Workers : alr[v].step = "saving" => v = w
Undisturbed ==
    /\ token # "garbled"
    /\ token = "empty" <=> (console = "saving" \/ \E w \in Workers : alr[w].step = "saving")
    /\ \A w \in Workers : alr[w].step = "saving" => OnlyWriter(w)
TokenOK == torn \/ Undisturbed

(* A save that nobody overlapped still sees the settings it read.          *)
SaveType == [step : {"idle", "write"}, values : Values, was : Values \union {NoRows},
             alone : BOOLEAN]
SavesOK ==
    /\ form \in [Admins -> SaveType]
    /\ saved \in Values \union {NoRows}
    /\ \A a \in Admins : form[a].step = "write" =>
          /\ form[a].was # NoRows => settings # NoRows
          /\ form[a].alone => form[a].was = settings

AlertingInv ==
    /\ AlertingTypeOK /\ IsFiniteSet(mails)
    /\ RecordsFollowMails /\ SilencedOnlyAfterMail
    /\ BatchesOK /\ CooldownStarts
    /\ TokenOK
    /\ SavesOK /\ LoneSaveTakesEffect
    /\ DisabledMeansQuiet

-----------------------------------------------------------------------------
CallType == [step : Steps, ip : IPs \union {NoIP}, found : BOOLEAN, stamp : Nat]

\* What a worker's step, after which its call is c, does to the token file.
TokenStep(w, c) ==
    \/ alr[w].step # "saving" /\ c.step # "saving" /\ UNCHANGED file
    \/ alr[w].step # "saving" /\ c.step = "saving" /\ Truncate
    \/ alr[w].step = "saving" /\ c.step # "saving" /\ Overwrite /\ torn' = torn
    \/ alr[w].step = "saving" /\ c.step # "saving" /\ CutShort

(* No such step leaves the file unreadable that did not meet another.      *)
LEMMA TokenKept ==
    ASSUME AlertingTypeOK, TokenOK, NEW w \in Workers, NEW c, TokenStep(w, c),
           alr' = [alr EXCEPT ![w] = c], console' = console
    PROVE  TokenOK'
<1>1. alr'[w] = c /\ \A v \in Workers : v # w => alr'[v] = alr[v]
  BY DEF AlertingTypeOK
<1>2. SUFFICES ASSUME ~torn' PROVE Undisturbed'
  BY DEF TokenOK
<1>3. Undisturbed
  BY <1>2 DEF TokenOK, TokenStep, file, Truncate, CutShort
<1>4. CASE alr[w].step # "saving" /\ c.step # "saving" /\ UNCHANGED file
  BY <1>1, <1>3, <1>4 DEF Undisturbed, OnlyWriter, file
<1>5. CASE alr[w].step # "saving" /\ c.step = "saving" /\ Truncate
  <2>1. token' = "empty" /\ console # "saving" /\ \A v \in Workers : alr[v].step # "saving"
    BY <1>2, <1>5 DEF Truncate, SomeoneWrites, Writers, At
  <2> QED BY <1>1, <1>5, <2>1 DEF Undisturbed, OnlyWriter
<1>6. CASE alr[w].step = "saving" /\ c.step # "saving" /\ Overwrite
  <2>1. token = "empty" /\ OnlyWriter(w)
    BY <1>3, <1>6 DEF Undisturbed
  <2>2. token' = "valid" /\ console' # "saving" /\ \A v \in Workers : alr'[v].step # "saving"
    BY <1>1, <1>6, <2>1 DEF Overwrite, OnlyWriter
  <2> QED BY <2>2 DEF Undisturbed, OnlyWriter
<1> QED BY <1>2, <1>4, <1>5, <1>6 DEF TokenStep, CutShort

(* What a call does, as far as mails, alerted_ips and token are concerned: *)
(* it goes on, in the same phase or the next one before the mail, or ends. *)
BeforeMail == {"check", "cooldown", "address"} \union Sending
Walks(w, c) ==
    /\ c \in CallType /\ alr' = [alr EXCEPT ![w] = c]
    /\ UNCHANGED <<now, alerted, mails, batch, unrecorded, console, page, late>>
    /\ alr[w].step \in BeforeMail \/ (alr[w].step = "idle" /\ (Enabled \/ c.step = "idle"))
    /\ \/ c.step = "idle"
       \/ c.step \in BeforeMail /\ c.ip \in IPs
    /\ TokenStep(w, c)

(* No call in progress is a well-formed call.                              *)
LEMMA IdleCall == Idle \in CallType /\ Idle.step = "idle"
BY DEF Idle, Call, CallType, Steps

(* The actions of a call up to its mail are such steps.                    *)
LEMMA WalkKinds ==
    ASSUME AlertingTypeOK, NEW w \in Workers,
           \/ \E ip \in IPs : AlertCheck(w, ip)
           \/ ReadRow(w) \/ ReadCooldown(w) \/ ReadAddress(w)
           \/ ExpiredToken(w) \/ RenewToken(w) \/ AwaitSignIn(w) \/ SignedIn(w)
           \/ SaveToken(w) \/ SendFails(w)
    PROVE  \E c \in CallType : Walks(w, c)
<1>1. /\ alr[w] \in CallType
      /\ alr[w].step # "idle" => alr[w].ip \in IPs
      /\ \A ip \in DOMAIN alerted : alerted[ip] \in Nat
  BY DEF AlertingTypeOK, CallType
<1>2. ASSUME NEW step \in Steps
      PROVE  LET c == [alr[w] EXCEPT !.step = step]
             IN  c \in CallType /\ c.step = step /\ c.ip = alr[w].ip
  BY <1>1 DEF CallType
<1> USE DEF At, Go, To, Walks, BeforeMail, Sending, Steps, TokenStep
<1>3. ASSUME NEW ip \in IPs, AlertCheck(w, ip) PROVE \E c \in CallType : Walks(w, c)
  <2> DEFINE c == Call("check", ip, FALSE, 0)
  <2>1. c \in CallType /\ c.step = "check" /\ c.ip = ip
    BY DEF Call, CallType
  <2>2. /\ alr[w].step = "idle"
        /\ (alr' = [alr EXCEPT ![w] = c] /\ Enabled) \/ alr' = [alr EXCEPT ![w] = Idle]
        /\ UNCHANGED <<now, alerted, mails, batch, unrecorded, file, console, page, late>>
    BY <1>3 DEF AlertCheck, record
  <2> HIDE DEF c
  <2> QED BY <2>1, <2>2, IdleCall
<1>4. CASE ReadRow(w)
  <2> DEFINE ip == alr[w].ip
             c == IF ip \in DOMAIN alerted THEN Call("cooldown", ip, FALSE, alerted[ip])
                  ELSE Call("address", ip, FALSE, 0)
  <2>1. /\ alr' = [alr EXCEPT ![w] = c] /\ alr[w].step = "check"
        /\ UNCHANGED <<now, alerted, mails, batch, unrecorded, file, console, page, late>>
    BY <1>4 DEF ReadRow, record
  <2>2. ip \in IPs
    BY <1>1, <2>1
  <2> HIDE DEF ip
  <2>3. c \in CallType /\ c.step \in {"cooldown", "address"} /\ c.ip = ip
    BY <1>1, <2>2 DEF Call, CallType
  <2> HIDE DEF c
  <2> QED BY <2>1, <2>2, <2>3
<1>5. CASE ReadCooldown(w) \/ ReadAddress(w)
  <2>1. PICK c \in {Call("address", alr[w].ip, FALSE, 0), Call("send", alr[w].ip, FALSE, 0), Idle} :
           alr' = [alr EXCEPT ![w] = c]
    BY <1>5 DEF ReadCooldown, ReadAddress
  <2>2. /\ alr[w].step \in {"cooldown", "address"}
        /\ UNCHANGED <<now, alerted, mails, batch, unrecorded, file, console, page, late>>
    BY <1>5 DEF ReadCooldown, ReadAddress, record
  <2>3. c \in CallType /\ c.step \in {"address", "send", "idle"}
        /\ (c.step # "idle" => c.ip \in IPs)
    <3>1. alr[w].ip \in IPs
      BY <1>1, <2>2
    <3>2. CASE c = Call("address", alr[w].ip, FALSE, 0)
      BY <3>1, <3>2 DEF Call, CallType
    <3>3. CASE c = Call("send", alr[w].ip, FALSE, 0)
      BY <3>1, <3>3 DEF Call, CallType
    <3> QED BY <3>2, <3>3, IdleCall
  <2> QED BY <2>1, <2>2, <2>3
<1>6. CASE ExpiredToken(w) \/ AwaitSignIn(w)
  <2>1. PICK step \in {"renew", "signin"} : alr' = [alr EXCEPT ![w] = [alr[w] EXCEPT !.step = step]]
    BY <1>6 DEF ExpiredToken, AwaitSignIn
  <2>2. /\ alr[w].step = "send"
        /\ UNCHANGED <<now, alerted, mails, batch, unrecorded, file, console, page, late>>
    BY <1>6 DEF ExpiredToken, AwaitSignIn, record
  <2> DEFINE c == [alr[w] EXCEPT !.step = step]
  <2>3. c \in CallType /\ c.step = step /\ c.ip \in IPs
    BY <1>1, <1>2, <2>2
  <2>4. alr' = [alr EXCEPT ![w] = c]
    BY <2>1
  <2> HIDE DEF c
  <2> QED BY <2>2, <2>3, <2>4
<1>7. CASE RenewToken(w) \/ SignedIn(w) \/ SaveToken(w)
  <2>1. PICK step \in {"saving", "mail"} :
           /\ alr' = [alr EXCEPT ![w] = [alr[w] EXCEPT !.step = step]]
           /\ \/ step = "saving" /\ Truncate /\ alr[w].step # "saving"
              \/ step = "mail" /\ Overwrite /\ torn' = torn /\ alr[w].step = "saving"
    BY <1>7 DEF RenewToken, SignedIn, SaveToken
  <2>2. /\ alr[w].step \in {"renew", "signin", "saving"}
        /\ UNCHANGED <<now, alerted, mails, batch, unrecorded, console, page, late>>
    BY <1>7 DEF RenewToken, SignedIn, SaveToken, record
  <2> DEFINE c == [alr[w] EXCEPT !.step = step]
  <2>3. c \in CallType /\ c.step = step /\ c.ip \in IPs
    BY <1>1, <1>2, <2>2
  <2>4. alr' = [alr EXCEPT ![w] = c]
    BY <2>1
  <2> HIDE DEF c
  <2> QED BY <2>1, <2>2, <2>3, <2>4
<1>8. CASE SendFails(w)
  BY <1>8, IdleCall DEF SendFails, LeaveToken, record
<1> QED BY <1>3, <1>4, <1>5, <1>6, <1>7, <1>8

(* A call that goes on towards its mail, or gives up before it.            *)
LEMMA WalkInv ==
    ASSUME AlertingInv, NEW w \in Workers, NEW c, Walks(w, c)
    PROVE  AlertingInv'
<1> USE DEF AlertingInv
<1>1. /\ alr'[w] = c /\ \A v \in Workers : v # w => alr'[v] = alr[v]
      /\ alr' \in [Workers -> CallType]
      /\ UNCHANGED <<now, alerted, mails, batch, unrecorded, console, settings, form, saved, late>>
  BY DEF Walks, AlertingTypeOK, CallType, page
<1>2. AlertingTypeOK' /\ IsFiniteSet(mails)'
  <2>1. /\ token' \in {"absent", "empty", "garbled", "valid", "expired", "revoked"}
        /\ torn' \in BOOLEAN
    BY DEF Walks, TokenStep, file, Truncate, Overwrite, CutShort, SomeoneWrites, AlertingTypeOK
  <2>2. \A v \in Workers : alr'[v].step # "idle" => alr'[v].ip \in IPs
    BY <1>1 DEF Walks, AlertingTypeOK
  <2> QED BY <1>1, <2>1, <2>2 DEF AlertingTypeOK, CallType
<1>3. RecordsFollowMails'
  BY <1>1 DEF Walks, RecordsFollowMails, MailedBefore, BeforeMail, Sending
<1>4. SilencedOnlyAfterMail' /\ BatchesOK' /\ CooldownStarts'
  BY <1>1
  DEF Walks, SilencedOnlyAfterMail, BatchesOK, CooldownStarts, Recording, BeforeMail, Sending
<1>5. TokenOK'
  BY <1>1, TokenKept DEF Walks
<1>6. SavesOK' /\ LoneSaveTakesEffect'
  BY <1>1 DEF SavesOK, LoneSaveTakesEffect
<1>7. DisabledMeansQuiet'
  <2>1. Enabled' <=> Enabled
    BY <1>1 DEF Enabled, InEffect
  <2>2. SUFFICES ASSUME ~Enabled
                 PROVE  late + Cardinality(PastSwitch)' <= Cardinality(Workers)
    BY <1>1, <2>1 DEF DisabledMeansQuiet
  <2>3. PastSwitch' \subseteq PastSwitch
    BY <1>1, <2>2 DEF Walks, PastSwitch, BeforeMail, Sending
  <2>4. IsFiniteSet(PastSwitch)
    BY WorkersFinite, FS_Subset DEF PastSwitch
  <2>5. IsFiniteSet(PastSwitch') /\ Cardinality(PastSwitch') <= Cardinality(PastSwitch)
    BY <2>3, <2>4, FS_Subset
  <2>6. late + Cardinality(PastSwitch) <= Cardinality(Workers)
    BY <2>2 DEF DisabledMeansQuiet
  <2> QED
    BY <2>4, <2>5, <2>6, WorkersFinite, FS_CardinalityType DEF AlertingTypeOK
<1> QED BY <1>2, <1>3, <1>4, <1>5, <1>6, <1>7

(* The mail itself: one more is counted while alerts are disabled, and one *)
(* worker fewer is on its way to send one.                                 *)
LEMMA SendInv ==
    ASSUME AlertingInv, NEW w \in Workers, SendMail(w)
    PROVE  AlertingInv'
<1> USE DEF AlertingInv
<1> DEFINE c == Call("record", alr[w].ip, FALSE, 0)
           m == [id |-> Cardinality(mails) + 1, ip |-> alr[w].ip, at |-> now]
<1>1. /\ alr[w].step \in {"send", "mail"} /\ alr[w].ip \in IPs
      /\ c.step = "record" /\ c.ip = alr[w].ip /\ c \in CallType
  BY DEF SendMail, Authorized, At, AlertingTypeOK, Call, CallType, Steps
<1>2. /\ alr'[w] = c /\ \A v \in Workers : v # w => alr'[v] = alr[v]
      /\ alr' \in [Workers -> CallType]
      /\ mails' = mails \union {m} /\ late' = IF Enabled THEN late ELSE late + 1
      /\ UNCHANGED <<now, alerted, token, torn, console, settings, form, saved>>
  BY <1>1 DEF SendMail, Go, MailOut, NoteLate, AlertingTypeOK, CallType, page, file
<1>3. m.ip = alr[w].ip /\ m.at = now
  OBVIOUS
<1> DEFINE ip == alr[w].ip
<1>4. /\ batch' \in [IPs -> Nat] /\ unrecorded' \subseteq IPs
      /\ \A x \in IPs : x # ip => batch'[x] = batch[x] /\ (x \in unrecorded => x \in unrecorded')
      /\ \/ Recording(ip) /\ batch' = batch /\ unrecorded' = unrecorded
         \/ ~Recording(ip) /\ batch'[ip] = now
  <2>1. /\ NoteBatch(ip) /\ ip \in IPs
        /\ now \in Nat /\ batch \in [IPs -> Nat] /\ unrecorded \subseteq IPs
    BY <1>1 DEF SendMail, AlertingTypeOK
  <2> HIDE DEF ip
  <2> QED BY <2>1 DEF NoteBatch
<1>5. AlertingTypeOK' /\ IsFiniteSet(mails)'
  <2>1. mails' \subseteq [id : Nat, ip : IPs, at : Nat]
    <3>1. Cardinality(mails) + 1 \in Nat
      BY FS_CardinalityType
    <3> QED BY <1>1, <1>2, <3>1 DEF AlertingTypeOK
  <2> HIDE DEF c, m
  <2>2. late' \in Nat
    BY <1>2 DEF AlertingTypeOK
  <2>3. IsFiniteSet(mails')
    <3>1. IsFiniteSet(mails \cup {m})
      BY FS_AddElement, Zenon
    <3> QED BY <1>2, <3>1
  <2> QED BY <1>1, <1>2, <1>4, <2>1, <2>2, <2>3 DEF AlertingTypeOK, CallType
<1> HIDE DEF c, m, ip
<1>6. RecordsFollowMails'
  <2>1. \E n \in mails' : n.ip = alr[w].ip /\ n.at <= now
    <3>1. m \in mails' /\ now <= now
      BY <1>2 DEF AlertingTypeOK
    <3> QED BY <1>3, <3>1
  <2>2. \A v \in Workers : v # w =>
           /\ alr[v].step = "record" =>
                 \E n \in mails' : n.ip = alr[v].ip /\ n.at <= now
           /\ alr[v].step = "write" =>
                 \E n \in mails' : n.ip = alr[v].ip /\ n.at <= alr[v].stamp
    BY <1>2 DEF RecordsFollowMails, MailedBefore
  <2> QED BY <1>1, <1>2, <2>1, <2>2 DEF RecordsFollowMails, MailedBefore
<1>7. SilencedOnlyAfterMail'
  BY <1>1, <1>2, <1>3 DEF SilencedOnlyAfterMail
<1>8. \A v \in Workers : alr'[v].step = "write" =>
           v # w /\ alr[v].step = "write" /\ alr'[v] = alr[v] /\ alr[v].ip \in IPs
  BY <1>1, <1>2 DEF AlertingTypeOK
<1>9. BatchesOK'
  <2>1. \A x \in IPs : batch'[x] <= now
    <3>1. now <= now
      BY DEF AlertingTypeOK
    <3> QED BY <1>1, <1>4, <3>1 DEF BatchesOK
  <2>2. ASSUME NEW v \in Workers, alr'[v].step = "write"
        PROVE  batch'[alr[v].ip] = batch[alr[v].ip]
    <3>1. CASE alr[v].ip = ip
      BY <1>4, <1>8, <2>2, <3>1 DEF Recording
    <3>2. CASE alr[v].ip # ip
      BY <1>4, <1>8, <2>2, <3>2
    <3> QED BY <3>1, <3>2
  <2> QED BY <1>2, <1>8, <2>1, <2>2 DEF BatchesOK
<1>10. CooldownStarts'
  <2>1. \A x : Recording(x) \/ x = ip => Recording(x)'
    <3>1. alr'[w].ip = ip /\ alr'[w].step = "record" /\ alr[w].step \notin {"record", "write"}
      BY <1>1, <1>2 DEF ip
    <3> QED BY <1>2, <3>1 DEF Recording
  <2>2. ASSUME NEW n \in mails'
        PROVE  \/ Recording(n.ip)' \/ n.ip \in unrecorded'
               \/ n.ip \in DOMAIN alerted' /\ alerted'[n.ip] >= batch'[n.ip]
    <3>1. m.ip = ip
      BY DEF m, ip
    <3>2. CASE n.ip = ip
      BY <2>1, <3>2
    <3>3. CASE n.ip # ip
      <4>1. n \in mails /\ n.ip \in IPs
        BY <1>2, <2>2, <3>3, <3>1 DEF AlertingTypeOK
      <4> QED BY <1>2, <1>4, <2>1, <3>3, <4>1 DEF CooldownStarts
    <3> QED BY <3>2, <3>3
  <2> QED BY <2>2 DEF CooldownStarts
<1>11. TokenOK' /\ SavesOK' /\ LoneSaveTakesEffect'
  <2>1. TokenStep(w, c)
    BY <1>1, <1>2 DEF TokenStep, file
  <2>2. TokenOK'
    BY <1>2, <2>1, TokenKept DEF SendMail, Go, c
  <2> QED BY <1>1, <1>2, <2>2 DEF SavesOK, LoneSaveTakesEffect
<1>12. DisabledMeansQuiet'
  <2>1. Enabled' <=> Enabled
    BY <1>2 DEF Enabled, InEffect
  <2>2. SUFFICES ASSUME ~Enabled
                 PROVE  late' + Cardinality(PastSwitch') <= Cardinality(Workers)
    BY <2>1 DEF DisabledMeansQuiet
  <2>3. w \in PastSwitch /\ PastSwitch' \subseteq PastSwitch \ {w}
    BY <1>1, <1>2 DEF PastSwitch, Sending
  <2>4. IsFiniteSet(PastSwitch)
    BY WorkersFinite, FS_Subset DEF PastSwitch
  <2>5. IsFiniteSet(PastSwitch \ {w}) /\ Cardinality(PastSwitch \ {w}) = Cardinality(PastSwitch) - 1
    BY <2>3, <2>4, FS_RemoveElement
  <2>6. IsFiniteSet(PastSwitch') /\ Cardinality(PastSwitch') <= Cardinality(PastSwitch) - 1
    BY <2>3, <2>5, FS_Subset
  <2>7. late + Cardinality(PastSwitch) <= Cardinality(Workers) /\ late' = late + 1
    BY <1>2, <2>2 DEF DisabledMeansQuiet
  <2> QED
    BY <2>4, <2>6, <2>7, WorkersFinite, FS_CardinalityType DEF AlertingTypeOK
<1> QED BY <1>5, <1>6, <1>7, <1>11, <1>12, <1>9, <1>10

(* After the mail.  The call keeps the moment it stamps, which is no       *)
(* earlier than the mail; a row it cannot write is there already.          *)
LEMMA RecordInv ==
    ASSUME AlertingInv, NEW w \in Workers,
           RecordSelect(w) \/ RecordCommit(w) \/ RecordFails(w) \/ Abandon(w)
    PROVE  AlertingInv'
<1> USE DEF AlertingInv
<1>1. /\ alr[w] \in CallType /\ alr[w].step # "idle" /\ alr[w].ip \in IPs
      /\ UNCHANGED <<now, mails, batch, console, settings, form, saved, late>>
  BY DEF RecordSelect, RecordCommit, RecordFails, Abandon, At, AlertingTypeOK, CallType, page,
         record
<1>2. PICK c \in CallType :
         /\ alr' = [alr EXCEPT ![w] = c]
         /\ c.step \in {"idle", "write", "error"}
         /\ c.step # "idle" => c.ip = alr[w].ip
         /\ c.step = "write" => /\ alr[w].step = "record" /\ c.stamp = now
                                 /\ c.found = (alr[w].ip \in DOMAIN alerted)
                                 /\ alerted' = alerted
         /\ TokenStep(w, c)
  <2>1. CASE RecordSelect(w)
    <3> DEFINE c == Call("write", alr[w].ip, alr[w].ip \in DOMAIN alerted, now)
    <3>1. /\ c \in CallType /\ c.step = "write" /\ c.ip = alr[w].ip /\ c.stamp = now
          /\ c.found = (alr[w].ip \in DOMAIN alerted)
      BY <1>1 DEF Call, CallType, Steps, AlertingTypeOK
    <3>2. /\ alr[w].step = "record" /\ alr' = [alr EXCEPT ![w] = c]
          /\ alerted' = alerted /\ UNCHANGED file
      BY <2>1 DEF RecordSelect, At, Go, record
    <3> HIDE DEF c
    <3> QED BY <3>1, <3>2 DEF TokenStep
  <2>2. CASE RecordFails(w)
    <3> DEFINE c == Call("error", alr[w].ip, FALSE, 0)
    <3>1. c \in CallType /\ c.step = "error" /\ c.ip = alr[w].ip
      BY <1>1 DEF Call, CallType, Steps
    <3>2. alr[w].step = "write" /\ alr' = [alr EXCEPT ![w] = c] /\ UNCHANGED file
      BY <2>2 DEF RecordFails, At, Go
    <3> HIDE DEF c
    <3> QED BY <3>1, <3>2 DEF TokenStep
  <2>3. CASE RecordCommit(w) \/ Abandon(w)
    BY <2>3, IdleCall DEF RecordCommit, Abandon, At, Go, TokenStep, LeaveToken
  <2> QED BY <2>1, <2>2, <2>3
<1>3. /\ alr'[w] = c /\ \A v \in Workers : v # w => alr'[v] = alr[v]
      /\ alr' \in [Workers -> CallType]
  BY <1>2 DEF AlertingTypeOK, CallType
<1>4. /\ unrecorded \subseteq unrecorded' /\ unrecorded' \subseteq IPs
      /\ token' \in {"absent", "empty", "garbled", "valid", "expired", "revoked"}
      /\ torn' \in BOOLEAN
  BY <1>1
  DEF RecordSelect, RecordCommit, RecordFails, Abandon, At, LeaveToken, CutShort, record, file,
      AlertingTypeOK
<1>5. \/ alerted' = alerted
      \/ RecordCommit(w) /\ alerted' = SetAlerted(alr[w].ip, alr[w].stamp)
         /\ alr[w].step = "write"
  BY DEF RecordSelect, RecordCommit, RecordFails, Abandon, At, record
<1>6. /\ DOMAIN alerted' \subseteq IPs /\ DOMAIN alerted \subseteq DOMAIN alerted'
      /\ \A ip \in DOMAIN alerted' : \/ ip \in DOMAIN alerted /\ alerted'[ip] = alerted[ip]
                                    \/ /\ ip = alr[w].ip /\ alerted'[ip] = alr[w].stamp
                                       /\ alr[w].step = "write"
  <2> DEFINE ip == alr[w].ip
             at == alr[w].stamp
  <2>1. DOMAIN alerted \subseteq IPs /\ ip \in IPs
    BY <1>1 DEF AlertingTypeOK
  <2>2. alerted' = alerted \/ (alerted' = SetAlerted(ip, at) /\ alr[w].step = "write")
    BY <1>5
  <2> HIDE DEF ip, at
  <2>3. /\ DOMAIN alerted' \subseteq IPs /\ DOMAIN alerted \subseteq DOMAIN alerted'
        /\ \A x \in DOMAIN alerted' : \/ x \in DOMAIN alerted /\ alerted'[x] = alerted[x]
                                     \/ /\ x = ip /\ alerted'[x] = at
                                        /\ alr[w].step = "write"
    BY <2>1, <2>2 DEF SetAlerted
  <2> QED BY <2>3 DEF ip, at
<1>7. AlertingTypeOK' /\ IsFiniteSet(mails)'
  <2>1. \A ip \in DOMAIN alerted' : alerted'[ip] \in Nat
    BY <1>1, <1>6 DEF AlertingTypeOK, CallType
  <2>2. \A v \in Workers : alr'[v].step # "idle" => alr'[v].ip \in IPs
    BY <1>1, <1>2, <1>3 DEF AlertingTypeOK
  <2> QED BY <1>1, <1>3, <1>4, <1>6, <2>1, <2>2 DEF AlertingTypeOK, CallType
<1>8. RecordsFollowMails'
  BY <1>1, <1>2, <1>3 DEF RecordsFollowMails, MailedBefore
<1>9. SilencedOnlyAfterMail'
  BY <1>1, <1>6 DEF SilencedOnlyAfterMail, RecordsFollowMails, MailedBefore
<1>10. BatchesOK'
  <2>1. \A x \in IPs : batch'[x] <= now'
    BY <1>1 DEF BatchesOK
  <2>2. \A x \in DOMAIN alerted' : \/ x \in DOMAIN alerted /\ alerted'[x] = alerted[x]
                                   \/ alerted'[x] >= batch[x]
    BY <1>6 DEF BatchesOK
  <2>3. ASSUME NEW v \in Workers, alr'[v].step = "write"
        PROVE  /\ alr'[v].stamp >= batch[alr'[v].ip]
               /\ ~alr'[v].found /\ alr'[v].ip \in DOMAIN alerted' =>
                     alerted'[alr'[v].ip] >= batch[alr'[v].ip]
    <3>1. CASE v = w
      BY <1>1, <1>2, <1>3, <2>3, <3>1 DEF BatchesOK
    <3>2. CASE v # w
      BY <1>3, <2>2, <2>3, <3>2 DEF BatchesOK
    <3> QED BY <3>1, <3>2
  <2> QED BY <1>1, <2>1, <2>3 DEF BatchesOK
<1>11. CooldownStarts'
  <2>1. alr[w].step \in {"record", "write"} =>
           \/ alr[w].ip \in unrecorded'
           \/ alr[w].ip \in DOMAIN alerted' /\ alerted'[alr[w].ip] >= batch[alr[w].ip]
           \/ c.step = "write" /\ c.ip = alr[w].ip
    <3>1. CASE RecordSelect(w)
      BY <1>1, <1>3, <3>1 DEF RecordSelect, Go, Call, AlertingTypeOK
    <3>2. CASE RecordCommit(w)
      <4>1. alr[w].step = "write" /\ alr[w].stamp >= batch[alr[w].ip]
        BY <3>2 DEF RecordCommit, At, BatchesOK
      <4> QED BY <3>2, <4>1 DEF RecordCommit, SetAlerted
    <3>3. CASE RecordFails(w)
      BY <3>3 DEF RecordFails, At, BatchesOK, record
    <3>4. CASE Abandon(w)
      BY <3>4 DEF Abandon
    <3> QED BY <3>1, <3>2, <3>3, <3>4
  <2>2. ASSUME NEW x, Recording(x)
        PROVE  Recording(x)' \/ (alr[w].ip = x /\ alr[w].step \in {"record", "write"})
    BY <1>3, <2>2 DEF Recording
  <2>3. c.step = "write" => Recording(c.ip)'
    BY <1>3 DEF Recording
  <2>4. \A x \in DOMAIN alerted : /\ x \in DOMAIN alerted'
                                  /\ alerted[x] >= batch[x] => alerted'[x] >= batch[x]
    BY <1>6 DEF BatchesOK
  <2> QED BY <1>1, <1>4, <2>1, <2>2, <2>3, <2>4 DEF CooldownStarts
<1>12. TokenOK' /\ SavesOK' /\ LoneSaveTakesEffect'
  BY <1>1, <1>2, TokenKept DEF SavesOK, LoneSaveTakesEffect
<1>13. DisabledMeansQuiet'
  <2>1. Enabled' <=> Enabled
    BY <1>1 DEF Enabled, InEffect
  <2>2. PastSwitch' \subseteq PastSwitch
    BY <1>2, <1>3 DEF PastSwitch, Sending
  <2>3. IsFiniteSet(PastSwitch)
    BY WorkersFinite, FS_Subset DEF PastSwitch
  <2>4. IsFiniteSet(PastSwitch') /\ Cardinality(PastSwitch') <= Cardinality(PastSwitch)
    BY <2>2, <2>3, FS_Subset
  <2>5. /\ Cardinality(PastSwitch') \in Nat /\ Cardinality(PastSwitch) \in Nat
        /\ Cardinality(Workers) \in Nat /\ late \in Nat
    BY <2>3, <2>4, WorkersFinite, FS_CardinalityType DEF AlertingTypeOK
  <2> QED BY <1>1, <2>1, <2>4, <2>5 DEF DisabledMeansQuiet
<1> QED BY <1>7, <1>8, <1>9, <1>11, <1>12, <1>13, <1>10

(* Time, and what else happens to the token.                               *)
LEMMA OutsideInv ==
    ASSUME AlertingInv,
           \/ Tick \/ TokenExpires \/ UNCHANGED vars
           \/ Authorize \/ AuthorizeSignedIn \/ AuthorizeSaves \/ AuthorizeFails
    PROVE  AlertingInv'
<1> USE DEF AlertingInv
<1>1. /\ UNCHANGED <<alerted, mails, batch, alr, unrecorded, settings, form, saved, late>>
      /\ now' \in {now, now + 1}
  BY DEF Tick, TokenExpires, Authorize, AuthorizeSignedIn, AuthorizeSaves, AuthorizeFails, vars,
         record, page
<1>2. /\ token' \in {"absent", "empty", "garbled", "valid", "expired", "revoked"}
      /\ console' \in {"idle", "signin", "saving"} /\ torn' \in BOOLEAN
  BY DEF Tick, TokenExpires, Authorize, AuthorizeSignedIn, AuthorizeSaves, AuthorizeFails, vars,
         file, Truncate, Overwrite, CutShort, SomeoneWrites, AlertingTypeOK
<1>3. TokenOK'
  <2> SUFFICES ASSUME ~torn' PROVE Undisturbed'
    BY DEF TokenOK
  <2> USE DEF Undisturbed, OnlyWriter
  <2>1. Undisturbed
    BY DEF TokenOK, Tick, TokenExpires, Authorize, AuthorizeSignedIn, AuthorizeSaves,
           AuthorizeFails, vars, file, Truncate, CutShort
  <2>2. CASE Tick \/ Authorize \/ UNCHANGED vars
    BY <1>1, <2>1, <2>2 DEF Tick, Authorize, vars, file
  <2>3. CASE TokenExpires
    BY <1>1, <2>1, <2>3 DEF TokenExpires
  <2>4. CASE AuthorizeSignedIn
    <3>1. token' = "empty" /\ console' = "saving" /\ \A v \in Workers : alr[v].step # "saving"
      BY <2>4 DEF AuthorizeSignedIn, Truncate, SomeoneWrites, Writers, At
    <3> QED BY <1>1, <3>1
  <2>5. CASE AuthorizeSaves
    <3>1. token' = "valid" /\ console' = "idle" /\ \A v \in Workers : alr[v].step # "saving"
      BY <2>1, <2>5 DEF AuthorizeSaves, Overwrite
    <3> QED BY <1>1, <3>1
  <2>6. CASE AuthorizeFails
    BY <1>1, <2>1, <2>6 DEF AuthorizeFails, CutShort, file
  <2> QED BY <2>2, <2>3, <2>4, <2>5, <2>6
<1>4. AlertingTypeOK' /\ IsFiniteSet(mails)'
  BY <1>1, <1>2 DEF AlertingTypeOK
<1>5. RecordsFollowMails'
  <2>1. \A m \in mails : m.at <= now => m.at <= now'
    BY <1>1 DEF AlertingTypeOK
  <2> QED BY <1>1, <2>1 DEF RecordsFollowMails, MailedBefore
<1>6. SilencedOnlyAfterMail' /\ CooldownStarts' /\ SavesOK' /\ LoneSaveTakesEffect'
  BY <1>1 DEF SilencedOnlyAfterMail, CooldownStarts, Recording, SavesOK, LoneSaveTakesEffect
<1>7. BatchesOK'
  <2>1. \A ip \in IPs : batch[ip] <= now'
    BY <1>1 DEF BatchesOK, AlertingTypeOK
  <2> QED BY <1>1, <2>1 DEF BatchesOK
<1>8. DisabledMeansQuiet'
  <2>1. (Enabled' <=> Enabled) /\ PastSwitch' = PastSwitch
    BY <1>1 DEF Enabled, InEffect, PastSwitch
  <2> QED BY <1>1, <2>1 DEF DisabledMeansQuiet
<1> QED BY <1>4, <1>5, <1>6, <1>8, <1>3, <1>7

(* Saving the settings.  Rows stay once there are any, so a save collides  *)
(* only with a first one; every other leaves values that were submitted.   *)
LEMMA WrittenOK ==
    ASSUME AlertingInv, NEW a \in Admins, form[a].step = "write", ~SaveCollides(a)
    PROVE  /\ Written(a) \in Values
           /\ form[a].alone => Written(a) = form[a].values
<1> DEFINE values == form[a].values
           was == form[a].was
<1>1. values \in Values /\ was \in Values \union {NoRows} /\ settings \in Values \union {NoRows}
  BY DEF AlertingInv, SavesOK, SaveType, AlertingTypeOK
<1>2. (was # NoRows => settings # NoRows) /\ (form[a].alone => was = settings)
  BY DEF AlertingInv, SavesOK
<1>3. Written(a) = [key \in Keys |-> IF key \in DOMAIN was /\ values[key] = was[key]
                                     THEN settings[key] ELSE values[key]]
  BY DEF Written
<1> HIDE DEF values, was
<1>4. Written(a) = [enabled |-> Written(a)["enabled"], cooldown |-> Written(a)["cooldown"],
                    email |-> Written(a)["email"]]
  BY <1>3 DEF Keys
<1>5. CASE was = NoRows
  <2>1. DOMAIN was = {}
    BY <1>5 DEF NoRows
  <2>2. Written(a) = values
    BY <1>1, <1>3, <2>1 DEF Values, Keys
  <2> QED BY <1>1, <2>2 DEF values
<1>6. CASE was # NoRows
  <2>1. was \in Values /\ settings \in Values
    BY <1>1, <1>2, <1>6
  <2>2. /\ Written(a)["enabled"] \in {NoText, "true", "false"}
        /\ Written(a)["cooldown"] \in Nat \union {-1, NotANumber}
        /\ Written(a)["email"] \in {NoText, "soc"}
    BY <1>1, <1>3, <2>1 DEF Values, Keys
  <2>3. Written(a) \in Values
    BY <1>4, <2>2 DEF Values
  <2>4. was = settings => Written(a) = values
    BY <1>1, <1>3, <2>1 DEF Values, Keys
  <2> QED BY <1>2, <2>3, <2>4 DEF values
<1> QED BY <1>5, <1>6

(* Reading the settings, committing a form, and failing to.                *)
LEMMA AdminInv ==
    ASSUME AlertingInv, NEW a \in Admins, AdminStep(a)
    PROVE  AlertingInv'
<1> USE DEF AlertingInv
<1>1. UNCHANGED <<now, alerted, mails, batch, alr, token, console, unrecorded, torn>>
  BY DEF AdminStep, ReadSettings, CommitSettings, SaveFails, record, file
<1>2. RecordsFollowMails' /\ SilencedOnlyAfterMail' /\ BatchesOK' /\ CooldownStarts' /\ TokenOK'
      /\ IsFiniteSet(mails)'
  BY <1>1 DEF RecordsFollowMails, MailedBefore, SilencedOnlyAfterMail, BatchesOK, CooldownStarts,
              Recording, TokenOK, Undisturbed, OnlyWriter
<1>3. PastSwitch' = PastSwitch /\ PastSwitch \subseteq Workers
  BY <1>1 DEF PastSwitch
<1>4. Empty \in Values /\ NoForm \in SaveType /\ NoForm.step = "idle"
  <2>1. Empty \in Values
    BY DEF Empty, Values
  <2> QED BY <2>1 DEF NoForm, SaveType
<1>5. form \in [Admins -> SaveType]
  BY DEF SavesOK
<1>6. ASSUME NEW values \in Forms, ReadSettings(a, values)
      PROVE  AlertingInv'
  <2> DEFINE f == [step |-> "write", values |-> values, was |-> settings, alone |-> TRUE]
  <2>1. f \in SaveType /\ f.was = settings
    BY SettingsType DEF SaveType, AlertingTypeOK
  <2>2. form' = [form EXCEPT ![a] = f] /\ UNCHANGED <<settings, saved, late>>
    BY <1>6 DEF ReadSettings
  <2> HIDE DEF f
  <2>3. form'[a] = f /\ \A b \in Admins : b # a => form'[b] = form[b]
    BY <1>5, <2>2
  <2>4. form' \in [Admins -> SaveType]
    BY <1>5, <2>1, <2>2
  <2>5. SavesOK' /\ LoneSaveTakesEffect'
    BY <2>1, <2>2, <2>3, <2>4 DEF SavesOK, LoneSaveTakesEffect
  <2>6. AlertingTypeOK'
    BY <1>1, <2>2, <2>4 DEF AlertingTypeOK, SaveType
  <2>7. DisabledMeansQuiet'
    BY <1>3, <2>2 DEF DisabledMeansQuiet, Enabled, InEffect
  <2> QED BY <1>1, <1>2, <2>5, <2>6, <2>7
<1>7. CASE SaveFails(a)
  <2>1. form' = [form EXCEPT ![a] = NoForm] /\ UNCHANGED <<settings, saved, late>>
    BY <1>7 DEF SaveFails
  <2>2. form'[a] = NoForm /\ \A b \in Admins : b # a => form'[b] = form[b]
    BY <1>5, <2>1
  <2>3. form' \in [Admins -> SaveType]
    BY <1>4, <1>5, <2>1
  <2>4. SavesOK' /\ LoneSaveTakesEffect'
    BY <1>4, <2>1, <2>2, <2>3 DEF SavesOK, LoneSaveTakesEffect
  <2>5. AlertingTypeOK'
    BY <1>1, <2>1, <2>3 DEF AlertingTypeOK, SaveType
  <2>6. DisabledMeansQuiet'
    BY <1>3, <2>1 DEF DisabledMeansQuiet, Enabled, InEffect
  <2> QED BY <1>1, <1>2, <2>4, <2>5, <2>6
<1>8. CASE CommitSettings(a)
  <2> DEFINE Alone(b) == [form[b] EXCEPT !.alone = FALSE]
  <2>1. /\ form[a].step = "write" /\ ~SaveCollides(a)
        /\ settings' = Written(a) /\ late' = IF Enabled THEN 0 ELSE late
        /\ saved' = IF form[a].alone THEN form[a].values ELSE NoRows
        /\ form' = [b \in Admins |-> IF b = a THEN NoForm ELSE Alone(b)]
    BY <1>8 DEF CommitSettings
  <2>2. settings' \in Values /\ settings' # NoRows
        /\ (form[a].alone => settings' = form[a].values)
    <3>1. \A v \in Values : v # NoRows
      <4>1. ASSUME NEW v \in Values PROVE "enabled" \in DOMAIN v
        BY DEF Values
      <4>2. "enabled" \notin DOMAIN NoRows
        BY DEF NoRows
      <4> QED BY <4>1, <4>2
    <3> QED BY <2>1, <3>1, WrittenOK
  <2>3. \A b \in Admins : Alone(b) \in SaveType /\ ~Alone(b).alone
    BY <1>5 DEF SaveType
  <2> HIDE DEF Alone
  <2>4. /\ form'[a] = NoForm
        /\ \A b \in Admins : b # a => form'[b] \in SaveType /\ ~form'[b].alone
    BY <2>1, <2>3
  <2>5. form' \in [Admins -> SaveType]
    BY <1>4, <2>1, <2>3
  <2>6. form[a].values \in Values
    BY <1>5 DEF SaveType
  <2>7. SavesOK' /\ LoneSaveTakesEffect'
    BY <1>4, <2>1, <2>2, <2>4, <2>5, <2>6 DEF SavesOK, LoneSaveTakesEffect
  <2>8. late' \in Nat
    BY <2>1 DEF AlertingTypeOK
  <2>9. AlertingTypeOK'
    BY <1>1, <2>2, <2>5, <2>7, <2>8 DEF AlertingTypeOK, SaveType, SavesOK
  <2>10. DisabledMeansQuiet'
    <3>1. IsFiniteSet(PastSwitch) /\ Cardinality(PastSwitch) <= Cardinality(Workers)
      BY <1>3, WorkersFinite, FS_Subset
    <3>2. Cardinality(PastSwitch) \in Nat /\ Cardinality(Workers) \in Nat
      BY <3>1, WorkersFinite, FS_CardinalityType
    <3> QED BY <1>3, <2>1, <3>1, <3>2 DEF DisabledMeansQuiet
  <2> QED BY <1>1, <1>2, <2>7, <2>9, <2>10
<1> QED BY <1>6, <1>7, <1>8 DEF AdminStep

(* The invariant holds initially ...                                       *)
LEMMA InitInv == Init => AlertingInv
<1> SUFFICES ASSUME Init PROVE AlertingInv
  OBVIOUS
<1> USE DEF Init
<1>1. alr \in [Workers -> CallType] /\ \A w \in Workers : alr[w].step = "idle"
  BY IdleCall
<1>2. Empty \in Values
  BY DEF Empty, Values
<1>3. NoForm \in SaveType /\ NoForm.step = "idle"
  BY <1>2 DEF NoForm, SaveType
<1>4. form \in [Admins -> SaveType] /\ \A a \in Admins : form[a].step = "idle"
  BY <1>3
<1>5. AlertingTypeOK /\ IsFiniteSet(mails)
  BY <1>1, <1>4, FS_EmptySet DEF AlertingTypeOK, CallType
<1>6. RecordsFollowMails /\ SilencedOnlyAfterMail /\ BatchesOK /\ CooldownStarts /\ TokenOK
  BY <1>1 DEF RecordsFollowMails, SilencedOnlyAfterMail, BatchesOK, CooldownStarts, TokenOK,
              Undisturbed, OnlyWriter
<1>7. SavesOK /\ LoneSaveTakesEffect
  BY <1>2, <1>4 DEF SavesOK, LoneSaveTakesEffect
<1>8. DisabledMeansQuiet
  <2>1. PastSwitch = {}
    BY <1>1 DEF PastSwitch, Sending
  <2> QED BY <2>1, FS_EmptySet, WorkersFinite, FS_CardinalityType DEF DisabledMeansQuiet
<1> QED BY <1>5, <1>6, <1>7, <1>8 DEF AlertingInv

(* ... and every step keeps it.                                            *)
LEMMA StepInv == AlertingInv /\ [Next]_vars => AlertingInv'
<1> SUFFICES ASSUME AlertingInv, [Next]_vars PROVE AlertingInv'
  OBVIOUS
<1>1. ASSUME NEW w \in Workers, WorkerStep(w) PROVE AlertingInv'
  <2>1. CASE SendMail(w)
    BY <2>1, SendInv
  <2>2. CASE RecordSelect(w) \/ RecordCommit(w) \/ RecordFails(w) \/ Abandon(w)
    BY <2>2, RecordInv
  <2>3. CASE \/ \E ip \in IPs : AlertCheck(w, ip)
             \/ ReadRow(w) \/ ReadCooldown(w) \/ ReadAddress(w)
             \/ ExpiredToken(w) \/ RenewToken(w) \/ AwaitSignIn(w) \/ SignedIn(w)
             \/ SaveToken(w) \/ SendFails(w)
    <3>1. PICK c \in CallType : Walks(w, c)
      BY <2>3, WalkKinds DEF AlertingInv
    <3> QED BY <3>1, WalkInv
  <2> QED BY <1>1, <2>1, <2>2, <2>3 DEF WorkerStep
<1>2. ASSUME NEW a \in Admins, AdminStep(a) PROVE AlertingInv'
  BY <1>2, AdminInv
<1>3. CASE \/ Tick \/ TokenExpires \/ UNCHANGED vars
            \/ Authorize \/ AuthorizeSignedIn \/ AuthorizeSaves \/ AuthorizeFails
  BY <1>3, OutsideInv
<1> QED BY <1>1, <1>2, <1>3 DEF Next

-----------------------------------------------------------------------------
(* The invariant holds in every reachable state. *)
THEOREM AlertingInvariant == Spec => []AlertingInv
<1>1. Init => AlertingInv
  BY InitInv
<1>2. AlertingInv /\ [Next]_vars => AlertingInv'
  BY StepInv
<1> QED BY <1>1, <1>2, PTL DEF Spec

(* Type correctness of maybe_alert()'s calls, its table and the settings.  *)
THEOREM AlertingTypeCorrect == Spec => []AlertingTypeOK
<1>1. AlertingInv => AlertingTypeOK
  BY DEF AlertingInv
<1> QED BY <1>1, AlertingInvariant, PTL

(* Only a mail that was sent silences an ip, however the calls overlap.    *)
THEOREM SilenceFollowsMail == Spec => []SilencedOnlyAfterMail
<1>1. AlertingInv => SilencedOnlyAfterMail
  BY DEF AlertingInv
<1> QED BY <1>1, AlertingInvariant, PTL

(* Every mail, a later one of an ip like its first, has started a cooldown *)
(* once the calls around it have recorded it (_record_alerted()), unless   *)
(* one of them died between mail and record.                               *)
THEOREM CooldownsStart == Spec => []CooldownStarts
<1>1. AlertingInv => CooldownStarts
  BY DEF AlertingInv
<1> QED BY <1>1, AlertingInvariant, PTL

(* A save of the settings that no other overlapped leaves its own values   *)
(* (update_settings()), however many admins there are.                     *)
THEOREM LoneSavesTakeEffect == Spec => []LoneSaveTakesEffect
<1>1. AlertingInv => LoneSaveTakesEffect
  BY DEF AlertingInv
<1> QED BY <1>1, AlertingInvariant, PTL

(* After alerts are disabled, no more mails go out than there are workers: *)
(* is_enabled() is asked once per call.                                    *)
THEOREM DisablingQuiets == Spec => []DisabledMeansQuiet
<1>1. AlertingInv => DisabledMeansQuiet
  BY DEF AlertingInv
<1> QED BY <1>1, AlertingInvariant, PTL

(* Where alerting_issue() explains nothing the token file can be read and  *)
(* holds a grant, unless a write of it is under way or went wrong.         *)
THEOREM TokenIsBehindNoIssue == Spec => []NoIssueMeansToken
<1>1. AlertingInv => NoIssueMeansToken
  BY DEF AlertingInv, AlertingTypeOK, TokenOK, Undisturbed, NoIssueMeansToken, AlertingIssue,
         SomeoneWrites, Writers, At, NoText
<1> QED BY <1>1, AlertingInvariant, PTL
==============================================================================
