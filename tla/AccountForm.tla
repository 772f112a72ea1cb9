---------------------------- MODULE AccountForm ----------------------------
(***************************************************************************)
(* One detail of the accounts, from the daemon through the object and the  *)
(* form of the dialog and back: class Account (src/src/lib/account.cpp),   *)
(* the credentials and codecs it owns, and DlgAccounts                     *)
(* (src/src/conf/dlgaccounts.cpp).                                         *)
(*                                                                         *)
(* Which detail it is does not change; the others are TypeOther, and what  *)
(* other clients do to them is ForeignOther.  The dialog is open and its   *)
(* accounts are the daemon's: their adding, moving and removing, and the   *)
(* opening and closing of the dialog, are those of Accounts.  The user has *)
(* looked at every account before, so that each has its models.            *)
(***************************************************************************)
EXTENDS AccountFields, EditStates, SequencesExt

CONSTANTS
  Ids,             (* the accounts                                         *)
  First,           (* the one that is selected first                       *)
  Details,         (* the details that are looked at                       *)
  MaxCredentials   (* bound: credentials of an account                     *)

ASSUME FormAssumption == First \in Ids /\ Details \subseteq Detail /\ MaxCredentials \in Nat

VARIABLES
  detail,   (* the detail that is looked at                                *)
  iax,      (* the accounts are IAX accounts                               *)
  remote,   (* what the daemon has for each account                        *)
  changed,  (* an accountsChanged is on its way                            *)
  copy,     (* what the object has: m_hAccountDetails, m_pCredentials, ... *)
  host,     (* m_HostName, when the detail is the hostname                 *)
  current,  (* m_CurrentState                                              *)
  cur,      (* the selected account                                        *)
  form,     (* what the widget shows                                       *)
  dirty,    (* accountListHasChanged                                       *)
  typed,    (* what the user entered for an account and has not saved      *)
  astray    (* accounts that others changed under the form or its copy     *)

objectVars == <<copy, host, current>>
ghostVars  == <<typed, astray>>
formVars == <<detail, iax, remote, changed, objectVars, cur, form, dirty, ghostVars>>

kind == Kind[detail]

(* Credentials and codecs are lists of their own beside the details.       *)
IsCodec == kind \in {"audio", "video"}

-----------------------------------------------------------------------------
(* The codecs: the daemon lists the active ones, the model all of them.    *)
Codecs == <<1, 2>>
Inactive(w) == FoldLeft(LAMBDA l, c : IF Contains(w, c) THEN l ELSE Append(l, c), <<>>, Codecs)
Marked(ids, on) == [i \in DOMAIN ids |-> <<ids[i], on>>]
Received(k, w) == IF k = "audio" THEN Marked(w, TRUE) \o Marked(Inactive(w), FALSE) ELSE w

Active(c)  == FoldLeft(LAMBDA l, x : IF x[2] THEN Append(l, x[1]) ELSE l, <<>>, c)
Sent(k, c) == IF k = "audio" THEN Active(c) ELSE c

(* Checking a codec, and moving it up or down.                             *)
Checked(c)  == {[c EXCEPT ![i][2] = ~@] : i \in DOMAIN c}
Moved(c)    == {[c EXCEPT ![i] = c[i + 1], ![i + 1] = c[i]] : i \in 1..(Len(c) - 1)}
CodecEdits(c) == IF kind = "video" THEN Raw.video \ {c} ELSE Checked(c) \cup Moved(c)

(* One row of the credentials, if it is there.                             *)
Put(c, row, password) == IF row \in DOMAIN c THEN [c EXCEPT ![row] = password] ELSE c
PutFirst(c, password) == IF c = <<>> THEN <<password>> ELSE Put(c, 1, password)

-----------------------------------------------------------------------------
(* An action of the edit state machine on the object of an account.        *)
Handler(a, action) == stateMachineActionsOnState[current[a]][action]

StateAfter(a, action) ==
  LET to == [nothing |-> current[a], edit |-> "EDITING", modify |-> "MODIFIED",
             reloadMod |-> "MODIFIED", outdate |-> "OUTDATED", cancel |-> "READY",
             reload |-> "READY", save |-> "READY"]
  IN to[Handler(a, action)]

(* reload reads the details and the credentials, and not the codecs.  It   *)
(* calls setHostname, which may perform MODIFY within it; the state it     *)
(* sets afterwards is the one that stays.  (HostKept is the faulty form.)  *)
Reloads(a, action)   == Handler(a, action) \in {"reload", "reloadMod"}
CopyAfter(a, action) == IF Reloads(a, action) /\ ~IsCodec THEN remote[a] ELSE copy[a]
HostKept(a, action)  == host[a]
HostAfter(a, action) ==
  IF Reloads(a, action) /\ detail = "hostname" THEN remote[a] ELSE host[a]

Perform(a, action) ==
  /\ current' = [current EXCEPT ![a] = StateAfter(a, action)]
  /\ copy'  = [copy EXCEPT ![a] = CopyAfter(a, action)]
  /\ host'  = [host EXCEPT ![a] = HostAfter(a, action)]

-----------------------------------------------------------------------------
(* loadAccount and saveAccount, for this detail (the faulty form does not  *)
(* load the user agent).                                                   *)
LoadedLacksUserAgent(c, h) ==
  IF detail # "userAgent" THEN Shown(kind, iax, IF detail = "hostname" THEN h ELSE c) ELSE form
FormOf(c, h) ==
  IF detail \in Loaded THEN Shown(kind, iax, IF detail = "hostname" THEN h ELSE c) ELSE form

(* An account that is not MODIFIED is not saved.  setHostname writes what  *)
(* differs from m_HostName; the check box of the row is the account's own. *)
Takes(a)     == current[a] = "MODIFIED" /\ detail \in Saved
SavedCopy(a) ==
  IF ~Takes(a) \/ kind = "row" THEN copy[a]
  ELSE CASE detail = "hostname"  -> IF host[a] # form THEN form ELSE copy[a]
         [] kind = "credentials" -> PutFirst(copy[a], form.main)
         [] OTHER                -> Written(kind, form)
SavedHost(a) == IF Takes(a) /\ detail = "hostname" THEN form ELSE host[a]

(* saveCredential stores the edited credential with the account that is    *)
(* selected by now and sends the credentials of that account at once.      *)
Edited(c)  == IF kind = "credentials" THEN Put(c, form.row, form.editor) ELSE c

GivenBack(a) == current[a] \in {"EDITING", "OUTDATED"}

(* The account that is left is saved or given back, the other is loaded,   *)
(* its video codecs from the daemon.                                       *)
Select(a) ==
  LET left  == cur
      loads == current[left] = "MODIFIED" /\ kind = "credentials"
      back(b) == b = left /\ GivenBack(b)
      keeps == IF kind = "credentials" THEN typed[left] = {passwordOf(copy'[left])}
               ELSE current[left] = "MODIFIED"
  IN /\ a # cur /\ cur' = a
     /\ remote' = [remote EXCEPT ![a] = IF loads THEN Edited(copy[a]) ELSE @]
     /\ copy' = [b \in Ids |-> CASE back(b)                 -> CopyAfter(b, "CANCEL")
                                 [] b = left /\ ~back(b)    -> SavedCopy(b)
                                 [] b = a /\ loads          -> Edited(copy[b])
                                 [] b = a /\ kind = "video" -> remote[b]
                                 [] OTHER                   -> copy[b]]
     /\ host' = [host EXCEPT ![left] = IF back(left) THEN HostAfter(left, "CANCEL")
                                                     ELSE SavedHost(left)]
     /\ current' = [current EXCEPT ![a] = StateAfter(a, "EDIT"),
                               ![left] = IF back(left) THEN StateAfter(left, "CANCEL") ELSE @]
     /\ form' = FormOf(copy'[a], host'[a])
     /\ typed' = [typed EXCEPT ![left] = IF keeps THEN @ ELSE {},
                               ![a] = IF kind = "video" \/ loads THEN {} ELSE @]
     /\ astray' = {b \in astray : copy'[b] # Received(kind, remote'[b])}
     /\ UNCHANGED <<detail, iax, changed, dirty>>

-----------------------------------------------------------------------------
(* The user edits the form.                                                *)

(* A widget whose signal is connected makes the account MODIFIED; the      *)
(* alias goes to the object at once.  The page of the STUN box is disabled *)
(* for IAX.                                                                *)
Type(v) ==
  /\ kind # "credentials" /\ v # form
  /\ kind = "stun" => ~iax
  /\ form' = v
  /\ typed' = [typed EXCEPT ![cur] = {v}]
  /\ IF Watched(detail, form, v)
     THEN /\ dirty' = TRUE
          /\ current' = [current EXCEPT ![cur] = StateAfter(cur, "MODIFY")]
          /\ copy' = [copy EXCEPT ![cur] = IF detail = "alias" THEN v ELSE CopyAfter(cur, "MODIFY")]
          /\ host' = [host EXCEPT ![cur] = HostAfter(cur, "MODIFY")]
     ELSE UNCHANGED <<dirty, objectVars>>
  /\ UNCHANGED <<detail, iax, remote, changed, cur, astray>>

TypeOther ==
  /\ Perform(cur, "MODIFY") /\ dirty' = TRUE
  /\ UNCHANGED <<detail, iax, remote, changed, cur, form, ghostVars>>

(* The check box in the row of any account.                                *)
Check(a) ==
  /\ detail = "enabled"
  /\ LET v == writtenFlag(~isTrue(copy[a])) IN
       /\ copy' = [copy EXCEPT ![a] = v]
       /\ typed' = [typed EXCEPT ![a] = {v}]
  /\ current' = [current EXCEPT ![a] = StateAfter(a, "MODIFY")] /\ dirty' = TRUE
  /\ UNCHANGED <<detail, iax, remote, changed, host, cur, form, astray>>

(* The codec lists are the models of the account: edited in place.         *)
EditCodecs(c) ==
  /\ IsCodec /\ c \in CodecEdits(copy[cur])
  /\ copy' = [copy EXCEPT ![cur] = c]
  /\ typed' = [typed EXCEPT ![cur] = {c}]
  /\ current' = [current EXCEPT ![cur] = StateAfter(cur, "MODIFY")] /\ dirty' = TRUE
  /\ UNCHANGED <<detail, iax, remote, changed, host, cur, form, astray>>

(* The password of the account is that of its first credential.            *)
TypePassword(v) ==
  /\ kind = "credentials" /\ v # form.main
  /\ form' = [form EXCEPT !.main = v]
  /\ typed' = [typed EXCEPT ![cur] = {v}]
  /\ current' = [current EXCEPT ![cur] = StateAfter(cur, "MODIFY")] /\ dirty' = TRUE
  /\ copy' = [copy EXCEPT ![cur] = Put(CopyAfter(cur, "MODIFY"), 1, v)]
  /\ UNCHANGED <<detail, iax, remote, changed, host, cur, astray>>

(* The fields of the selected credential; the first one's is the password  *)
(* of the account as well.                                                 *)
TypeCredential(v) ==
  /\ kind = "credentials" /\ form.row # 0 /\ v # form.editor
  /\ form' = [form EXCEPT !.editor = v, !.main = IF form.row = 1 THEN v ELSE @]
  /\ typed' = [typed EXCEPT ![cur] = IF form.row = 1 THEN {v} ELSE @]
  /\ Perform(cur, "MODIFY") /\ dirty' = TRUE
  /\ UNCHANGED <<detail, iax, remote, changed, cur, astray>>

(* Selecting a row stores the fields in the row that is left, whatever it  *)
(* is by now.                                                              *)
SelectRow(c, row) ==
  LET stored == Put(c, form.row, form.editor)
      shown  == IF row \in DOMAIN stored THEN stored[row] ELSE ""
  IN /\ copy' = [copy EXCEPT ![cur] = stored]
     /\ form' = [form EXCEPT !.row = row, !.editor = shown]

CredentialStep == /\ kind = "credentials"
                  /\ UNCHANGED <<detail, iax, remote, changed, host, current, cur, dirty, typed>>

SelectCredential(row) ==
  /\ CredentialStep
  /\ row \in DOMAIN copy[cur] /\ row # form.row
  /\ SelectRow(copy[cur], row)
  /\ UNCHANGED astray

AddCredential ==
  /\ CredentialStep
  /\ Len(copy[cur]) < MaxCredentials
  /\ SelectRow(Append(copy[cur], ""), Len(copy[cur]) + 1)
  /\ UNCHANGED astray

(* The first row is selected afterwards.  When it was selected, nothing is *)
(* loaded and the fields keep what was removed.  (Removing a row that a    *)
(* reload took away is outside what QList defines.)                        *)
RemoveCredential ==
  /\ CredentialStep
  /\ form.row \in DOMAIN copy[cur] \cup {0}
  /\ LET rest == IF form.row = 0 THEN copy[cur] ELSE RemoveAt(copy[cur], form.row)
     IN IF form.row = 1 /\ rest # <<>>
        THEN copy' = [copy EXCEPT ![cur] = rest] /\ form' = form
        ELSE SelectRow(rest, IF rest = <<>> THEN 0 ELSE 1)
  /\ astray' = astray \cup {cur}

-----------------------------------------------------------------------------
(* updateSettings and AccountModel::save: the selected account takes what  *)
(* the form shows or is given back, MODIFIED accounts are sent.  The       *)
(* credentials are not among what an account that exists sends.            *)
Apply ==
  LET modified(a) == current[a] = "MODIFIED"
      kept(a) == IF a # cur THEN copy[a]
                 ELSE IF modified(a) THEN Edited(SavedCopy(a)) ELSE CopyAfter(a, "CANCEL")
      arrived(a) == a = cur /\ typed[a] = {passwordOf(remote'[a])}
  IN /\ dirty /\ dirty' = FALSE
     /\ copy' = [a \in Ids |-> kept(a)]
     /\ host' = [a \in Ids |-> IF a # cur THEN host[a]
                               ELSE IF GivenBack(a) THEN HostAfter(a, "CANCEL") ELSE SavedHost(a)]
     /\ current' = [a \in Ids |-> IF modified(a) \/ (a = cur /\ GivenBack(a)) THEN "READY"
                                  ELSE current[a]]
     /\ remote' = [a \in Ids |-> IF modified(a) /\ (kind = "credentials" => a = cur)
                                 THEN Sent(kind, copy'[a]) ELSE remote[a]]
     /\ changed' = (changed \/ \E a \in Ids : modified(a))
     /\ typed' = [a \in Ids |-> IF modified(a) /\ (kind = "credentials" => arrived(a)) THEN {}
                                ELSE typed[a]]
     /\ astray' = {a \in astray : a = cur \/ copy'[a] # Received(kind, remote'[a])}
     /\ UNCHANGED <<detail, iax, cur, form>>

(* The daemon's accountsChanged reaches the client.                        *)
updateAccounts ==
  /\ changed /\ changed' = FALSE
  /\ current' = [a \in Ids |-> StateAfter(a, "RELOAD")]
  /\ copy'  = [a \in Ids |-> CopyAfter(a, "RELOAD")]
  /\ host'  = [a \in Ids |-> HostAfter(a, "RELOAD")]
  /\ typed' = [a \in Ids |-> IF a # cur /\ Reloads(a, "RELOAD") /\ ~IsCodec THEN {} ELSE typed[a]]
  /\ astray' = {a \in astray : a = cur \/ copy'[a] # Received(kind, remote[a])}
  /\ UNCHANGED <<detail, iax, remote, cur, form, dirty>>

(* Another client of the daemon edits an account; bound: not one that is   *)
(* astray already.                                                         *)
Foreign == /\ changed' = TRUE
           /\ UNCHANGED <<detail, iax, objectVars, cur, form, dirty, typed>>
ForeignEdit(a, w) ==
  /\ a \notin astray /\ w # remote[a]
  /\ remote' = [remote EXCEPT ![a] = w]
  /\ astray' = astray \cup {a}
  /\ Foreign
ForeignOther == ~changed /\ Foreign /\ UNCHANGED <<remote, astray>>

-----------------------------------------------------------------------------
FormInit ==
  /\ detail \in Details
  /\ iax \in BOOLEAN /\ (detail = "password" => iax) /\ (detail = "credentials" => ~iax)
  /\ iax => detail \in {"password", "sipStunEnabled"}
  /\ remote \in [Ids -> Raw[kind]]
  /\ copy = [a \in Ids |-> Received(kind, remote[a])]
  /\ host = [a \in Ids |-> IF detail = "hostname" THEN remote[a] ELSE ""]
  /\ current = [a \in Ids |-> IF a = First THEN "EDITING" ELSE "READY"]
  /\ cur = First /\ form = Shown(kind, iax, remote[First])
  /\ changed = FALSE /\ dirty = FALSE
  /\ typed = [a \in Ids |-> {}] /\ astray = {}

FormNext ==
  \/ TypeOther \/ AddCredential \/ RemoveCredential \/ Apply \/ updateAccounts \/ ForeignOther
  \/ \E a \in Ids : Select(a) \/ Check(a)
  \/ \E v \in Entered(kind) : Type(v) \/ TypePassword(v) \/ TypeCredential(v)
  \/ IsCodec /\ \E c \in CodecEdits(copy[cur]) : EditCodecs(c)
  \/ \E row \in 1..MaxCredentials : SelectCredential(row)
  \/ \E a \in Ids, w \in Raw[kind] : ForeignEdit(a, w)

FormSpec == FormInit /\ [][FormNext]_formVars

-----------------------------------------------------------------------------
(* The types; the list of an account's codecs always holds them all.       *)
FormTypeOK ==
  /\ detail \in Details /\ iax \in BOOLEAN /\ changed \in BOOLEAN /\ dirty \in BOOLEAN
  /\ cur \in Ids /\ astray \subseteq Ids /\ current \in [Ids -> EditState]
  /\ DOMAIN remote = Ids /\ DOMAIN copy = Ids /\ DOMAIN host = Ids /\ DOMAIN typed = Ids
  /\ kind = "audio" => \A a \in Ids : Sent(kind, Received(kind, remote[a])) = remote[a]

(* What the form cannot show as the daemon has it: a number beyond its     *)
(* box, an interface that is gone, a link, a key exchange that is named    *)
(* but off or on but not known, STUN for IAX.                              *)
CannotShow(k, isIax, w) ==
  \/ k = "number" /\ w = "many"
  \/ k = "interface" /\ w \notin ToSet(Interfaces)
  \/ k = "ring" /\ w = "link"
  \/ k = "key" /\ (isTrue(w[1]) <=> exchangeNamed(w[2]) = "")
  \/ k = "stun" /\ isIax /\ isTrue(w)

(* Saving an account writes the whole form back, and all that it does to a *)
(* detail nobody has touched is to write it as it was: neither the user    *)
(* nor another client has changed it since the form and the object read it.*)
ApplyKeepsRest ==
  [][Apply => \A a \in Ids :
       typed[a] = {} /\ a \notin astray /\ ~CannotShow(kind, iax, remote[a])
         => Means(kind, remote'[a]) = Means(kind, remote[a])]_formVars

(* What the user enters reaches the daemon with the next Apply, through    *)
(* other accounts that are selected, saved and reloaded in between.        *)
(* Details whose widgets are not connected need another edit of the same   *)
(* account, and a password is only sent while its account is selected,     *)
(* MODIFIED, and the fields of the first credential do not say something   *)
(* else: an Apply while another is selected forgets that it has changed.   *)
Meant(v) == IF kind \in {"row", "credentials"} \/ IsCodec THEN v ELSE Written(kind, v)
Expected(a) ==
  /\ detail \in Connected \ {"ringtonePath", "credentials"} \/ current[a] = "MODIFIED"
  /\ kind = "credentials" => a = cur /\ (form.row = 1 => form.editor = form.main)
TypedIsSaved ==
  [][Apply => \A a \in Ids : Expected(a) =>
       \A v \in typed[a] :
         IF kind = "credentials" THEN passwordOf(remote'[a]) = v
         ELSE Means(kind, remote'[a]) = Means(kind, Sent(kind, Meant(v)))]_formVars

(* The hostname is kept twice, for speed: the getter reads the one, the    *)
(* daemon is sent the other, and all that changes one of them, within a    *)
(* reload or a save that is left half way as well, changes both.           *)
HostnameAgrees ==
  /\ FormTypeOK
  /\ detail = "hostname" => \A a \in Ids : host[a] = copy[a]
=============================================================================
