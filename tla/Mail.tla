--------------------------------- MODULE Mail ---------------------------------
(* The mail tool (tools/mail): a thread asks the inbox of the profile how far  *)
(* its numbering has come; when it has moved, and the user has set a rule, olli *)
(* is told once.  State and rule are in files of the profile, replaced whole,  *)
(* so that a process killed at any point goes on from what it saved.           *)
EXTENDS OlliLink

CONSTANTS
  MailProfiles,   \* profile names
  NoMailProfile,  \* none yet; not in MailProfiles
  MaxMails        \* bound: profile -> the highest number its inbox hands out

ASSUME MailAssumption == MaxMails \in [MailProfiles -> Nat] /\ NoMailProfile \notin MailProfiles

VARIABLES
  profile_name,   \* whose files are loaded, or NoMailProfile
  state,          \* [have_baseline, uidvalidity, uidnext, pending]
  rule,           \* whether the user has set one
  check,          \* the future: [of, ready, uidvalidity, uidnext], or NoCheck
  mail_pc,        \* "service", "drain", "tell", "sent"
  mail_files,     \* profile -> [state, rule] on disk
  inbox,          \* profile -> [uidvalidity, uidnext], at the mail server
  mail_owner,     \* link -> the profile its server runs under
  owed            \* profiles with mail that a check saw and nobody was told of (history)

mailVars == <<profile_name, state, rule, check, mail_pc, mail_files, inbox,
              mail_owner, owed>>

MailState == [have_baseline |-> FALSE, uidvalidity |-> 0, uidnext |-> 0, pending |-> FALSE]
NoCheck   == [of |-> NoMailProfile, ready |-> FALSE, uidvalidity |-> 0, uidnext |-> 0]

\* Some profiles have a rule from an earlier run.
MailInit ==
  /\ profile_name = NoMailProfile /\ state = MailState /\ rule = FALSE
  /\ check = NoCheck /\ mail_pc = "service"
  /\ \E ruled \in SUBSET MailProfiles :
       mail_files = [n \in MailProfiles |-> [state |-> MailState, rule |-> n \in ruled]]
  /\ inbox = [n \in MailProfiles |-> [uidvalidity |-> 1, uidnext |-> 1]]
  /\ mail_owner \in [Links -> MailProfiles]
  /\ owed = {}

Told == profile_name # NoMailProfile
save_state(s) == state' = s /\ mail_files' = [mail_files EXCEPT ![profile_name].state = s]

-----------------------------------------------------------------------------
(* Messages *)

MailService ==
  /\ mail_pc = "service" /\ mail_pc' = "drain"
  /\ ServiceLinks
  /\ UNCHANGED <<profile_name, state, rule, check, mail_files, inbox, mail_owner, owed>>

\* A check that is under way is left alone: its result comes to the new profile.
handle_mail_identity(l, name) ==
  /\ IF name = profile_name THEN UNCHANGED <<profile_name, state, rule>>
     ELSE /\ profile_name' = name
          /\ state' = mail_files[name].state /\ rule' = mail_files[name].rule
  /\ link' = [link EXCEPT ![l].incoming = Tail(@)]
  /\ UNCHANGED mail_files

\* Without arguments the rule is read back; otherwise it is cleared or replaced.
handle_set_mail_action(l, want) ==
  /\ IF Told /\ want # "show"
       THEN rule' = (want = "set") /\ mail_files' = [mail_files EXCEPT ![profile_name].rule = rule']
       ELSE UNCHANGED <<rule, mail_files>>
  /\ Answered(l)
  /\ UNCHANGED <<profile_name, state>>

MailMessage(l) ==
  /\ mail_pc = "drain" /\ HasMessage(l)
  /\ LET m == Message(l)
     IN  \/ m.type = "identity" /\ handle_mail_identity(l, m.name)
         \/ m.type = "call" /\ handle_set_mail_action(l, m.want)
  /\ UNCHANGED <<far, drops, check, mail_pc, inbox, mail_owner, owed>>

-----------------------------------------------------------------------------
(* tick() *)

Baseline(r) == ~state.have_baseline \/ state.uidvalidity # r.uidvalidity
Fresh(r)    == ~Baseline(r) /\ r.uidnext > state.uidnext

\* A mutant: every check says anew whether something is pending.
CheckedAnew(r) ==
  [have_baseline |-> TRUE, uidvalidity |-> r.uidvalidity, uidnext |-> r.uidnext,
   pending |-> Fresh(r)]

\* A baseline starts over; numbering that has moved is new mail; otherwise
\* nothing is new, and what is pending stays so.
Checked(r) ==
  IF Baseline(r) THEN [have_baseline |-> TRUE, uidvalidity |-> r.uidvalidity,
                       uidnext |-> r.uidnext, pending |-> FALSE]
  ELSE IF Fresh(r) THEN [state EXCEPT !.uidnext = r.uidnext, !.pending = TRUE]
  ELSE state

\* A finished check is collected ...
on_check_result ==
  /\ save_state(Checked(check))
  /\ owed' = IF Fresh(check) THEN owed \union {profile_name}
             ELSE IF Baseline(check) THEN owed \ {profile_name} ELSE owed
Failed == UNCHANGED <<state, mail_files, owed>>

\* ... and one starts, if it is time and the credentials can be used at this look.
Collect == check.ready /\ check' = NoCheck /\ (on_check_result \/ Failed)
Start   == check = NoCheck /\ check' = [NoCheck EXCEPT !.of = profile_name] /\ Failed
Wait    == ~check.ready /\ UNCHANGED check /\ Failed

MailCheck ==
  /\ mail_pc = "drain" /\ Drained
  /\ IF Told THEN (Collect \/ Start \/ Wait) /\ mail_pc' = "tell"
     ELSE mail_pc' = "service" /\ UNCHANGED <<state, mail_files, owed, check>>
  /\ UNCHANGED <<linkVars, profile_name, rule, inbox, mail_owner>>

\* The event goes out; a write to a connection whose other end has gone is not noticed.
send_rule_event ==
  /\ state.pending /\ rule /\ Sends("olli")
  /\ link' = [link EXCEPT !["olli"].idle = 0]
  /\ owed' = owed \ {profile_name}
  /\ mail_pc' = "sent"
  /\ UNCHANGED <<far, drops, state, mail_files>>

\* Without a rule nothing is to be done about the mail.
DropEvent ==
  /\ state.pending /\ ~rule
  /\ save_state([state EXCEPT !.pending = FALSE])
  /\ owed' = owed \ {profile_name} /\ mail_pc' = "service"
  /\ UNCHANGED linkVars

WaitForOlli ==
  /\ ~state.pending \/ (rule /\ ~Sends("olli"))
  /\ mail_pc' = "service"
  /\ UNCHANGED <<linkVars, state, mail_files, owed>>

MailTell ==
  /\ mail_pc = "tell"
  /\ send_rule_event \/ DropEvent \/ WaitForOlli
  /\ UNCHANGED <<profile_name, rule, check, inbox, mail_owner>>

\* Only then is it noted that it has been sent.
MailSent ==
  /\ mail_pc = "sent" /\ mail_pc' = "service"
  /\ save_state([state EXCEPT !.pending = FALSE])
  /\ UNCHANGED <<linkVars, profile_name, rule, check, inbox, mail_owner, owed>>

\* The thread of the check: it asks with the credentials it was started with.
check_inbox ==
  /\ mail_pc = "service" /\ check.of # NoMailProfile
  /\ check' = [of |-> NoMailProfile, ready |-> TRUE, uidvalidity |-> inbox[check.of].uidvalidity,
               uidnext |-> inbox[check.of].uidnext]
  /\ UNCHANGED <<linkVars, profile_name, state, rule, mail_pc, mail_files, inbox, mail_owner, owed>>

-----------------------------------------------------------------------------
(* The world; what it does to inboxes and servers is seen at the top of a turn *)

worldOfMail == <<profile_name, state, rule, check, mail_pc, mail_files, mail_owner, owed>>

NewMail(n) ==
  /\ mail_pc = "service" /\ inbox[n].uidnext < MaxMails[n]
  /\ inbox' = [inbox EXCEPT ![n].uidnext = @ + 1]
  /\ UNCHANGED <<linkVars, worldOfMail>>

Renumbered(n) ==
  /\ mail_pc = "service" /\ Upset /\ inbox' = [inbox EXCEPT ![n] = [uidvalidity |-> @.uidvalidity + 1, uidnext |-> 1]]
  /\ UNCHANGED <<link, far, worldOfMail>>

MailTime == mail_pc = "service" /\ LinksWanting /\ TimePasses /\ UNCHANGED mailVars

MailCall(l) ==
  /\ mail_pc = "service" /\ CanSay(l) /\ Upset
  /\ \E w \in {"show", "set", "clear"} :
       Says(l, [type |-> "call", name |-> "set_mail_action", want |-> w])
  /\ UNCHANGED mailVars

\* The process is killed and started again: its files and the servers remain.
MailKilled ==
  /\ Upset
  /\ profile_name' = NoMailProfile /\ state' = MailState /\ rule' = FALSE
  /\ check' = NoCheck /\ mail_pc' = "service"
  /\ link' = [l \in Links |-> [sock |-> FALSE, disconnected_flag |-> FALSE, incoming |-> <<>>,
                               silence |-> 0, idle |-> 0, due |-> TRUE]]
  /\ far' = [l \in Links |-> [far[l] EXCEPT !.peer = "none", !.unread = <<>>, !.beats = {}, !.eof = FALSE]]
  /\ UNCHANGED <<mail_files, inbox, mail_owner, owed>>

MailServer(l) == mail_pc = "service" /\ (Stops(l) \/ Starts(l)) /\ UNCHANGED mailVars
MailGreets(l) == mail_pc = "service" /\ Welcome(l, mail_owner[l]) /\ UNCHANGED <<drops, mailVars>>

MailStep ==
  \/ MailService \/ (\E l \in Links : MailMessage(l)) \/ MailCheck
  \/ MailTell \/ MailSent
MailNext ==
  \/ MailStep \/ check_inbox \/ MailTime \/ MailKilled
  \/ \E l \in Links : MailCall(l) \/ MailGreets(l) \/ MailServer(l)
  \/ \E n \in MailProfiles : NewMail(n) \/ Renumbered(n)

MailSpec == LinkInit /\ MailInit /\
  [][MailNext \/ (LinkFault /\ UNCHANGED mailVars)]_<<linkVars, mailVars>>

-----------------------------------------------------------------------------
(* Properties *)

\* "If olli is not reachable when mail arrives, the event waits and goes out
\* once olli is back" (tools/mail/README.md:41): mail that a check saw is pending
\* on disk until the event has been written, the rule is gone or the baseline
\* starts over, whatever later checks find, other profiles come in between, and
\* wherever the process is killed.
MailKept == \A n \in owed : mail_files[n].state.pending
=============================================================================
