------------------------------ MODULE Alerting ------------------------------
(***************************************************************************)
(* maybe_alert() (utils/alerting.py) with the settings, the alerted_ips    *)
(* table and the Gmail token file it uses, and the form on the dashboard   *)
(* that saves the settings (proxy_app.py).  Each query, each commit, each  *)
(* write of the token file and the mail itself is one step of a worker.    *)
(* Step of alr[w]:                                                         *)
(*   idle     no call in progress                                          *)
(*   check    alerts are enabled; should_alert() is about to look the ip up *)
(*   cooldown it found a row and is about to read the cooldown             *)
(*   address  an alert is due, the address is about to be read             *)
(*   send     the mail is about to be sent                                 *)
(*   renew    the stored token has expired, a new one is being fetched      *)
(*   signin   without a token, it waits for a person to sign in            *)
(*   saving   the token file is truncated, about to be written             *)
(*   mail     the token was renewed and saved, the mail is about to be sent *)
(*   record   the mail was sent, _record_alerted() is about to look the    *)
(*            row up                                                       *)
(*   write    _record_alerted() is about to commit                         *)
(*   error    the commit raised inside maybe_alert(): the exception is     *)
(*            caught, but the session is not rolled back, so the next use  *)
(*            of it raises and the request ends with a 500                 *)
(***************************************************************************)
EXTENDS Integers, FiniteSets

CONSTANTS
    Workers,        \* processes and threads that serve requests
    Admins,         \* saves of the settings page in progress at the same time
    IPs,            \* client addresses
    NoIP,           \* no address
    Env,            \* WEBSENTINEL_ALERT_*: [enabled, cooldown, email]
    Forms,          \* what admins save, likewise; cooldowns are in ticks
    CanSignIn,      \* is there a credentials.json
    MaxTime,        \* bound on the clock
    MaxMails        \* bound on the mails sent

NoText == ""                                                \* no value
Keys == {"enabled", "cooldown", "email"}
Empty == [enabled |-> NoText, cooldown |-> -1, email |-> NoText]    \* empty values
NotANumber == -2                                            \* any other text
Values == [enabled : {NoText, "true", "false"}, cooldown : Nat \union {-1, NotANumber},
           email : {NoText, "soc"}]

ASSUME WorkersFinite == IsFiniteSet(Workers)
ASSUME NoIPAssumption == NoIP \notin IPs
ASSUME SettingsType == Env \in Values /\ Forms \subseteq Values
ASSUME CanSignInType == CanSignIn \in BOOLEAN

VARIABLES
    now,            \* _utcnow()
    alerted,        \* alerted_ips: first_alerted_at of every ip with a row
    mails,          \* mails that reached the Gmail API
    alr,            \* per worker: the call in progress
    settings,       \* table: key -> value
    form,           \* per admin: the save in progress
    token,          \* what TOKEN_FILE holds
    console,        \* the step of `python -m utils.alerting authorize`
    batch,          \* per ip: when the first mail was sent of those whose
                    \* recordings overlap (for the properties only)
    unrecorded,     \* ips whose alert died between mail and record (likewise)
    torn,           \* has a write of the token file failed, been cut short or
                    \* overlapped another (likewise)
    saved,          \* the last form saved, if no other save was committed
                    \* while it was under way (likewise)
    late            \* mails sent since alerts were last disabled (likewise)

record == <<alerted, mails, batch, unrecorded>>
file == <<token, torn>>
page == <<settings, form, saved>>
vars == <<now, record, alr, file, console, page, late>>

Steps == {"idle", "check", "cooldown", "address", "send", "renew", "signin", "saving",
          "mail", "record", "write", "error"}

\* A call: its step, the incident's ip, whether _record_alerted() found a row,
\* and a first_alerted_at: the one read, then the one to be written.
Call(step, ip, found, stamp) ==
    [step |-> step, ip |-> ip, found |-> found, stamp |-> stamp]
Idle == Call("idle", NoIP, FALSE, 0)

-----------------------------------------------------------------------------
(* _setting_or_env(): a stored value wins unless it is empty.              *)
InEffect(key) ==
    IF key \in DOMAIN settings /\ settings[key] # Empty[key] THEN settings[key] ELSE Env[key]
Enabled == InEffect("enabled") = "true"
HasAddress == InEffect("email") # NoText

\* _cooldown_minutes(): at least 1; 60 for what is not a number.
DefaultCooldown == 60
Cooldown == LET raw == InEffect("cooldown")
            IN  IF raw < 0 THEN DefaultCooldown ELSE IF raw = 0 THEN 1 ELSE raw

SetAlerted(ip, at) ==
    [x \in DOMAIN alerted \union {ip} |-> IF x = ip THEN at ELSE alerted[x]]

At(w, step) == alr[w].step = step
Go(w, c) == alr' = [alr EXCEPT ![w] = c]
To(w, step) == Go(w, [alr[w] EXCEPT !.step = step])

NoRows == [key \in {} |-> NoText]
NoForm == [step |-> "idle", values |-> Empty, was |-> NoRows, alone |-> FALSE]

Init ==
    /\ now = 0
    /\ alerted = [ip \in {} |-> 0]
    /\ mails = {}
    /\ alr = [w \in Workers |-> Idle]
    /\ settings = NoRows
    /\ form = [a \in Admins |-> NoForm]
    /\ token \in {"absent", "valid"} /\ console = "idle"
    /\ batch = [ip \in IPs |-> 0]
    /\ unrecorded = {} /\ torn = FALSE
    /\ saved = NoRows
    /\ late = 0

\* Mutant: alerts cannot be disabled.
AlertCheckAlways(w, ip) ==
    /\ At(w, "idle")
    /\ Go(w, Call("check", ip, FALSE, 0))
    /\ UNCHANGED <<now, record, file, console, page, late>>

(* maybe_alert(): are alerts enabled?                                      *)
AlertCheck(w, ip) ==
    /\ At(w, "idle")
    /\ Go(w, IF Enabled THEN Call("check", ip, FALSE, 0) ELSE Idle)
    /\ UNCHANGED <<now, record, file, console, page, late>>

(* should_alert(): an ip without a row is alerted at once, ...             *)
ReadRow(w) ==
    /\ At(w, "check")
    /\ LET ip == alr[w].ip
       IN  Go(w, IF ip \in DOMAIN alerted THEN Call("cooldown", ip, FALSE, alerted[ip])
                 ELSE Call("address", ip, FALSE, 0))
    /\ UNCHANGED <<now, record, file, console, page, late>>

(* ... any other once its cooldown is over.                                *)
ReadCooldown(w) ==
    /\ At(w, "cooldown")
    /\ Go(w, IF now - alr[w].stamp >= Cooldown THEN Call("address", alr[w].ip, FALSE, 0)
             ELSE Idle)
    /\ UNCHANGED <<now, record, file, console, page, late>>

ReadAddress(w) ==
    /\ At(w, "address")
    /\ Go(w, IF HasAddress THEN Call("send", alr[w].ip, FALSE, 0) ELSE Idle)
    /\ UNCHANGED <<now, record, file, console, page, late>>

-----------------------------------------------------------------------------
Writers == {w \in Workers : At(w, "saving")}
SomeoneWrites == Writers # {} \/ console = "saving"

(* _save_token() truncates the file ...                                    *)
Truncate == token' = "empty" /\ torn' = (torn \/ SomeoneWrites)

\* Mutant: the truncated file stays empty.
OverwriteLost == token' = token

(* ... and writes it from its beginning.  What another process has written *)
(* since it was truncated is replaced, but for the end of a longer text:   *)
(* then the file is no longer JSON.                                        *)
Overwrite ==
    \/ token' = "valid"
    \/ token # "empty" /\ token' = "garbled"

(* A writer stops before or within its write.                              *)
CutShort == token' \in {token, "garbled"} /\ torn' = TRUE

(* _gmail_credentials(): an expired token is renewed over the network ...  *)
ExpiredToken(w) ==
    /\ At(w, "send") /\ token \in {"expired", "revoked"}
    /\ To(w, "renew")
    /\ UNCHANGED <<now, record, file, console, page, late>>

(* ... and saved.                                                          *)
RenewToken(w) ==
    /\ At(w, "renew") /\ token # "revoked"
    /\ Truncate
    /\ To(w, "saving")
    /\ UNCHANGED <<now, record, console, page, late>>

(* Without a token it opens a browser and waits, in the request's thread.  *)
AwaitSignIn(w) ==
    /\ At(w, "send") /\ token = "absent" /\ CanSignIn
    /\ To(w, "signin")
    /\ UNCHANGED <<now, record, file, console, page, late>>

SignedIn(w) ==
    /\ At(w, "signin")
    /\ Truncate
    /\ To(w, "saving")
    /\ UNCHANGED <<now, record, console, page, late>>

SaveToken(w) ==
    /\ At(w, "saving")
    /\ Overwrite
    /\ To(w, "mail")
    /\ UNCHANGED <<now, record, torn, console, page, late>>

(* authorize(), run from the console in a process of its own, does the     *)
(* same without a token, or with one that has expired.                     *)
Authorize ==
    /\ console = "idle" /\ CanSignIn /\ token \in {"absent", "expired"}
    /\ console' = "signin"
    /\ UNCHANGED <<now, record, alr, file, page, late>>

AuthorizeSignedIn ==
    /\ console = "signin"
    /\ Truncate
    /\ console' = "saving"
    /\ UNCHANGED <<now, record, alr, page, late>>

AuthorizeSaves ==
    /\ console = "saving"
    /\ Overwrite
    /\ console' = "idle"
    /\ UNCHANGED <<now, record, alr, torn, page, late>>

AuthorizeFails ==
    /\ console # "idle"
    /\ IF console = "saving" THEN CutShort ELSE UNCHANGED file
    /\ console' = "idle"
    /\ UNCHANGED <<now, record, alr, page, late>>

(* The access token expires after an hour; Google may withdraw the grant,  *)
(* after which the token is not renewed any more.                          *)
TokenExpires ==
    /\ \/ token = "valid" /\ token' = "expired"
       \/ token \in {"valid", "expired"} /\ token' = "revoked"
    /\ UNCHANGED <<now, record, alr, torn, console, page, late>>

-----------------------------------------------------------------------------
\* The worker has credentials in memory.
Authorized(w) == At(w, "mail") \/ (At(w, "send") /\ token = "valid")
MailOut(w) == mails' = mails \union {[id |-> Cardinality(mails) + 1, ip |-> alr[w].ip, at |-> now]}
NoteLate == late' = IF Enabled THEN late ELSE late + 1

Recording(ip) == \E w \in Workers : alr[w].ip = ip /\ alr[w].step \in {"record", "write"}
NoteBatch(ip) ==
    IF Recording(ip) THEN UNCHANGED <<batch, unrecorded>>
    ELSE batch' = [batch EXCEPT ![ip] = now] /\ unrecorded' = unrecorded \ {ip}

SendMail(w) ==
    /\ Authorized(w) /\ Cardinality(mails) < MaxMails
    /\ Go(w, Call("record", alr[w].ip, FALSE, 0))
    /\ MailOut(w) /\ NoteBatch(alr[w].ip) /\ NoteLate
    /\ UNCHANGED <<now, alerted, file, console, page>>

Sending == {"send", "renew", "signin", "saving", "mail"}
\* What a worker leaves behind that stops while it writes the token file.
LeaveToken(w) == IF At(w, "saving") THEN CutShort ELSE UNCHANGED file

\* Mutant: a failed mail is recorded like a sent one.
SendFailsRecorded(w) ==
    /\ alr[w].step \in Sending
    /\ Go(w, Call("record", alr[w].ip, FALSE, 0))
    /\ LeaveToken(w)
    /\ UNCHANGED <<now, record, console, page, late>>

(* send_alert_email() raises - the API, the renewal or the sign-in fails,  *)
(* the token file cannot be read or written, there is neither a token nor  *)
(* credentials.json or a browser: logged and swallowed, nothing recorded.  *)
SendFails(w) ==
    /\ alr[w].step \in Sending
    /\ Go(w, Idle)
    /\ LeaveToken(w)
    /\ UNCHANGED <<now, record, console, page, late>>

\* Mutant: the row is looked up and written without an ip.
RecordSelectNoIP(w) ==
    /\ At(w, "record")
    /\ Go(w, Call("write", NoIP, FALSE, now))
    /\ UNCHANGED <<now, record, file, console, page, late>>

(* _record_alerted(): look the row up, stamp it. *)
RecordSelect(w) ==
    /\ At(w, "record")
    /\ Go(w, Call("write", alr[w].ip, alr[w].ip \in DOMAIN alerted, now))
    /\ UNCHANGED <<now, record, file, console, page, late>>

\* Mutant: a row that is there already keeps its moment.
RecordCommitOnce(w) ==
    /\ At(w, "write")
    /\ alr[w].found \/ alr[w].ip \notin DOMAIN alerted
    /\ Go(w, Idle)
    /\ alerted' = IF alr[w].found THEN alerted ELSE SetAlerted(alr[w].ip, alr[w].stamp)
    /\ UNCHANGED <<now, mails, batch, unrecorded, file, console, page, late>>

(* The commit: UPDATE of the row found, or INSERT when none has appeared. *)
RecordCommit(w) ==
    /\ At(w, "write")
    /\ alr[w].found \/ alr[w].ip \notin DOMAIN alerted
    /\ Go(w, Idle)
    /\ alerted' = SetAlerted(alr[w].ip, alr[w].stamp)
    /\ UNCHANGED <<now, mails, batch, unrecorded, file, console, page, late>>

(* The INSERT hits the unique constraint on ip. *)
RecordFails(w) ==
    /\ At(w, "write")
    /\ ~alr[w].found /\ alr[w].ip \in DOMAIN alerted
    /\ Go(w, Call("error", alr[w].ip, FALSE, 0))
    /\ UNCHANGED <<now, record, file, console, page, late>>

(* The request ends: with the 500 after an error, or the worker is killed. *)
Abandon(w) ==
    /\ ~At(w, "idle")
    /\ Go(w, Idle)
    /\ unrecorded' = IF alr[w].step \in {"record", "write"}
                     THEN unrecorded \union {alr[w].ip} ELSE unrecorded
    /\ LeaveToken(w)
    /\ UNCHANGED <<now, alerted, mails, batch, console, page, late>>

-----------------------------------------------------------------------------
(* update_settings() looks every key up (one step here: a save committed   *)
(* between two of the queries overlaps this one all the same), ...         *)
ReadSettings(a, values) ==
    /\ form[a].step = "idle"
    /\ form' = [form EXCEPT ![a] =
           [step |-> "write", values |-> values, was |-> settings, alone |-> TRUE]]
    /\ UNCHANGED <<now, record, alr, file, console, settings, saved, late>>

SaveCollides(a) == form[a].was = NoRows /\ settings # NoRows

\* Mutant: what equals the value in effect is not written.
WrittenIfInEffect(a) ==
    [key \in Keys |-> IF form[a].values[key] = InEffect(key) /\ key \in DOMAIN settings
                      THEN settings[key] ELSE form[a].values[key]]

\* Only a value that differs from the one read is part of the UPDATE.
Written(a) ==
    [key \in Keys |-> IF key \in DOMAIN form[a].was /\ form[a].values[key] = form[a].was[key]
                      THEN settings[key] ELSE form[a].values[key]]

(* ... and commits all of them together.                                   *)
CommitSettings(a) ==
    /\ form[a].step = "write" /\ ~SaveCollides(a)
    /\ settings' = Written(a)
    /\ form' = [b \in Admins |-> IF b = a THEN NoForm ELSE [form[b] EXCEPT !.alone = FALSE]]
    /\ saved' = IF form[a].alone THEN form[a].values ELSE NoRows
    /\ late' = IF Enabled THEN 0 ELSE late
    /\ UNCHANGED <<now, record, alr, file, console>>

(* Two first saves: the second meets the unique key and ends with a 500.   *)
SaveFails(a) ==
    /\ form[a].step = "write" /\ SaveCollides(a)
    /\ form' = [form EXCEPT ![a] = NoForm]
    /\ UNCHANGED <<now, record, alr, file, console, settings, saved, late>>

Tick ==
    /\ now < MaxTime
    /\ now' = now + 1
    /\ UNCHANGED <<record, alr, file, console, page, late>>

WorkerStep(w) ==
    \/ \E ip \in IPs : AlertCheck(w, ip)
    \/ ReadRow(w) \/ ReadCooldown(w) \/ ReadAddress(w)
    \/ ExpiredToken(w) \/ RenewToken(w) \/ AwaitSignIn(w) \/ SignedIn(w) \/ SaveToken(w)
    \/ SendMail(w) \/ SendFails(w)
    \/ RecordSelect(w) \/ RecordCommit(w) \/ RecordFails(w)
    \/ Abandon(w)

AdminStep(a) ==
    \/ \E values \in Forms : ReadSettings(a, values)
    \/ CommitSettings(a) \/ SaveFails(a)

Next ==
    \/ Tick \/ TokenExpires
    \/ Authorize \/ AuthorizeSignedIn \/ AuthorizeSaves \/ AuthorizeFails
    \/ \E w \in Workers : WorkerStep(w)
    \/ \E a \in Admins : AdminStep(a)

Spec == Init /\ [][Next]_vars

-----------------------------------------------------------------------------
(* Properties *)

AlertingTypeOK ==
    /\ now \in Nat
    /\ DOMAIN alerted \subseteq IPs
    /\ \A ip \in DOMAIN alerted : alerted[ip] \in Nat
    /\ mails \subseteq [id : Nat, ip : IPs, at : Nat]
    /\ alr \in [Workers -> [step : Steps, ip : IPs \union {NoIP}, found : BOOLEAN, stamp : Nat]]
    /\ \A w \in Workers : alr[w].step # "idle" => alr[w].ip \in IPs
    /\ settings \in Values \union {NoRows} /\ saved \in Values \union {NoRows}
    /\ \A a \in Admins : form[a].step \in {"idle", "write"}
    /\ token \in {"absent", "empty", "garbled", "valid", "expired", "revoked"}
    /\ console \in {"idle", "signin", "saving"}
    /\ batch \in [IPs -> Nat]
    /\ unrecorded \subseteq IPs /\ torn \in BOOLEAN /\ late \in Nat

(* "Only ONE notification per attacker IP per cooldown period" (alerting.py *)
(* design rule; "must never generate more than one alert for that IP").    *)
(* The cooldown is read before the mail is sent and written after it, so   *)
(* two workers handling one burst both send.                               *)
OneAlertPerCooldown ==
    \A m, n \in mails :
        m.ip = n.ip /\ m.id < n.id => n.at - m.at >= Cooldown

(* A failed mail never silences an ip: every cooldown on record began with *)
(* a mail that was really sent, no later than the recorded moment.         *)
SilencedOnlyAfterMail ==
    \A ip \in DOMAIN alerted :
        \E m \in mails : m.ip = ip /\ m.at <= alerted[ip]

(* No mail is forgotten, the first or a later one: once the calls for an   *)
(* ip have recorded what they sent, and none of them died between mail and *)
(* record, the cooldown on record began no earlier than the first of their *)
(* mails, even when a call's INSERT lost the race for the row, or a stamp  *)
(* was overwritten by the older one of another worker.                     *)
CooldownStarts ==
    \A m \in mails :
        \/ Recording(m.ip)
        \/ m.ip \in unrecorded
        \/ m.ip \in DOMAIN alerted /\ alerted[m.ip] >= batch[m.ip]

(* Disabling alerts on the settings page takes effect at the next          *)
(* incident: until they are enabled again, no worker sends more than the   *)
(* one mail whose call had read the old value.                             *)
PastSwitch == {w \in Workers : alr[w].step \in
                  {"check", "cooldown", "address"} \union Sending}
DisabledMeansQuiet ==
    ~Enabled => late + Cardinality(PastSwitch) <= Cardinality(Workers)

(* The settings are saved as a whole: a save during which no other was     *)
(* committed leaves exactly its own values.  (Of two that overlap, each    *)
(* writes what it changed, so a mixture may remain that nobody submitted.) *)
LoneSaveTakesEffect == saved # NoRows => settings = saved

(* "Return a user-facing explanation of why alerts won't send, else ''"    *)
(* (alerting_issue()).  It looks only whether the token file exists.  When *)
(* it explains nothing the file can be read and holds a grant, unless a    *)
(* write of it is under way, failed, was cut short or overlapped another.  *)
(* (A file that cannot be read stays so: nothing renews it, and authorize  *)
(* cannot load it.  Nor is a grant that Google has withdrawn explained.)   *)
AlertingIssue ==
    IF ~Enabled THEN NoText ELSE IF ~HasAddress THEN "no address"
    ELSE IF token = "absent" THEN "not authorized" ELSE NoText
NoIssueMeansToken ==
    Enabled /\ HasAddress /\ AlertingIssue = NoText =>
        token \in {"valid", "expired", "revoked"} \/ SomeoneWrites \/ torn
=============================================================================
