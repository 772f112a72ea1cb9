--------------------------- MODULE AccountFields ---------------------------
(***************************************************************************)
(* The details of an account: how class Account (src/src/lib/account.cpp)  *)
(* reads each of them, how its setters write it back, and which of them    *)
(* the form of DlgAccounts (src/src/conf/dlgaccounts.cpp) loads, saves and *)
(* notices when they are edited.                                           *)
(*                                                                         *)
(* The daemon keeps every detail as a text.  What matters of a text is how *)
(* it is read: each kind of detail has a few representatives, the empty    *)
(* text standing for a detail the daemon does not send as well.            *)
(***************************************************************************)
EXTENDS Naturals, Sequences

-----------------------------------------------------------------------------
(* The details, with the kind of the widget that shows them, in the order  *)
(* of the getters.  The certificates are paths; the two details of the key *)
(* exchange go together, and so do the two of the ring tone's choice.      *)

UserDetails ==
  [alias |-> "text", hostname |-> "text", enabled |-> "row", autoAnswer |-> "flag",
   username |-> "text", mailbox |-> "text", proxy |-> "route", password |-> "text"]

ZrtpDetails ==
  [displaySasOnce |-> "flag", srtpRtpFallback |-> "flag", zrtpDisplaySas |-> "flag",
   zrtpNotSuppWarning |-> "flag", zrtpHelloHash |-> "flag"]

NetworkDetails ==
  [sipStunEnabled |-> "stun", sipStunServer |-> "text", registrationExpire |-> "number",
   publishedSameAsLocal |-> "flag", publishedAddress |-> "text", publishedPort |-> "number"]

TlsDetails ==
  [tlsPassword |-> "text", tlsListenerPort |-> "number", tlsCaListCertificate |-> "text",
   tlsCertificate |-> "text", tlsPrivateKeyCertificate |-> "text", tlsCiphers |-> "text",
   tlsServerName |-> "text", tlsNegotiationTimeoutSec |-> "number",
   tlsNegotiationTimeoutMsec |-> "number", tlsVerifyServer |-> "flag",
   tlsVerifyClient |-> "flag", tlsRequireClientCertificate |-> "flag",
   tlsEnabled |-> "flag", tlsMethod |-> "method"]

ChoiceDetails ==
  [keyExchange |-> "key", ringtoneEnabled |-> "flag", ringtonePath |-> "ring",
   localPort |-> "number", localInterface |-> "interface", protocol |-> "protocol",
   DTMFType |-> "dtmf"]

MediaDetails ==
  [presenceEnabled |-> "flag", videoEnabled |-> "flag", videoPortMax |-> "number",
   videoPortMin |-> "number", audioPortMin |-> "number", audioPortMax |-> "number",
   userAgent |-> "text"]

(* What the daemon keeps for an account besides its details.               *)
ListDetails ==
  [credentials |-> "credentials", audioCodecs |-> "audio", videoCodecs |-> "video"]

Groups == {UserDetails, ZrtpDetails, NetworkDetails, TlsDetails, ChoiceDetails, MediaDetails,
           ListDetails}
Detail == UNION {DOMAIN group : group \in Groups}
Kind   == [d \in Detail |-> (CHOOSE group \in Groups : d \in DOMAIN group)[d]]

-----------------------------------------------------------------------------
(* What the daemon may hold, per kind.  "many" is beyond what the spin box *)
(* takes; "eth9" an interface that is not there; "ZRTP" the name the       *)
(* wizard writes, where the daemon's is "zrtp"; "link" a link to "tone".   *)
Raw ==
  [text      |-> {"a", "b"},
   row       |-> {"true", "false"},
   flag      |-> {"true", ""},
   stun      |-> {"true", "false"},
   route     |-> {"", "a"},
   number    |-> {"", "few", "many"},
   method    |-> {"", "TLSv1", "other"},
   key       |-> {<<"true", "sdes">>, <<"true", "ZRTP">>, <<"false", "zrtp">>, <<"", "">>},
   ring      |-> {"tone", "link", "custom"},
   interface |-> {"eth0", "eth1", "eth9"},
   protocol  |-> {"SIP", "IAX", ""},
   dtmf      |-> {"", "overrtp", "other"},
   credentials |-> {<<>>, <<"a", "a">>},
   audio     |-> {<<1, 2>>, <<2>>, <<>>},
   video     |-> {"a", "b"}]

(* The interfaces the daemon names, and the tones it lists.                *)
Interfaces == <<"eth0", "eth1">>
Tones      == {"tone", "bell"}

(* The getters.                                                            *)
isTrue(w)        == w = "true"
toInt(w)         == IF w = "" THEN "0" ELSE w
methodNamed(w)   == IF w \in {"TLSv1", "SSLv3", "SSLv23"} THEN w ELSE "Default"
exchangeNamed(w) == IF w \in {"zrtp", "sdes"} THEN w ELSE ""
protocolNamed(w) == IF w = "IAX" THEN "IAX" ELSE "SIP"
dtmfNamed(w)     == IF w \in {"", "overrtp"} THEN "OverRtp" ELSE "OverSip"
passwordOf(w)    == IF w = <<>> THEN "" ELSE w[1]
realPath(w)      == IF w = "link" THEN "tone" ELSE w

(* What the program makes of the detail.                                   *)
Means(kind, w) ==
  CASE kind \in {"flag", "stun", "row"} -> isTrue(w)
    [] kind = "number"      -> toInt(w)
    [] kind = "method"      -> methodNamed(w)
    [] kind = "key"         -> <<isTrue(w[1]), exchangeNamed(w[2])>>
    [] kind = "protocol"    -> protocolNamed(w)
    [] kind = "dtmf"        -> dtmfNamed(w)
    [] kind = "credentials" -> passwordOf(w)
    [] OTHER                -> w

-----------------------------------------------------------------------------
(* What the widget shows of it; a box that is not told keeps its first     *)
(* entry.  The stun box of an IAX account is cleared.  Of the tones, a     *)
(* listed one is selected in the list, another is shown as a file.         *)
boxed(w)     == IF w = "many" THEN "max" ELSE w
keyShown(on, exchange) == <<on, IF exchange = "" THEN "zrtp" ELSE exchange>>
toneShown(w) == IF w \in Tones THEN <<"listed", w>> ELSE <<"file", realPath(w)>>

Shown(kind, iax, w) ==
  CASE kind = "stun"      -> isTrue(w) /\ ~iax
    [] kind = "number"    -> boxed(toInt(w))
    [] kind = "route"     -> <<w # "", w>>
    [] kind = "key"       -> keyShown(isTrue(w[1]), exchangeNamed(w[2]))
    [] kind = "ring"      -> toneShown(w)
    [] kind = "interface" -> IF \E i \in DOMAIN Interfaces : Interfaces[i] = w
                             THEN w ELSE Interfaces[1]
    [] kind = "credentials" -> [main |-> passwordOf(w), row |-> 0, editor |-> ""]
    [] kind \in {"row", "audio", "video"} -> "nothing"
    [] OTHER              -> Means(kind, w)

(* What the user may enter into it; the protocol of an account the daemon  *)
(* has is shown and cannot be changed.                                     *)
Entered(kind) ==
  CASE kind \in {"flag", "stun"} -> BOOLEAN
    [] kind = "number"    -> {"few", "max"}
    [] kind = "route"     -> {<<TRUE, "a">>, <<FALSE, "a">>, <<TRUE, "b">>}
    [] kind = "method"    -> {"Default", "TLSv1", "SSLv23"}
    [] kind = "key"       -> {<<FALSE, "zrtp">>, <<TRUE, "zrtp">>, <<TRUE, "sdes">>}
    [] kind = "ring"      -> {<<"listed", "tone">>, <<"listed", "bell">>, <<"file", "custom">>}
    [] kind = "interface" -> {"eth0", "eth1"}
    [] kind = "dtmf"      -> {"OverRtp", "OverSip"}
    [] kind = "text"      -> {"a", "b"}
    [] kind = "credentials" -> {"b"}
    [] OTHER              -> {}

(* The setters.                                                            *)
writtenText(v)     == v
writtenNumber(v)   == v
writtenFlag(v)     == IF v THEN "true" ELSE "false"
writtenMethod(v)   == v
writtenExchange(on, exchange) == IF on THEN exchange ELSE ""
writtenProtocol(v) == v
writtenDtmf(v)     == IF v = "OverRtp" THEN "overrtp" ELSE "oversip"
writtenRoute(on, v) == IF on THEN v ELSE ""

Written(kind, v) ==
  CASE kind \in {"flag", "stun"} -> writtenFlag(v)
    [] kind = "route"    -> writtenRoute(v[1], v[2])
    [] kind = "number"   -> writtenNumber(v)
    [] kind = "method"   -> writtenMethod(v)
    [] kind = "key"      -> <<writtenFlag(v[1]), writtenExchange(v[1], v[2])>>
    [] kind = "ring"     -> v[2]
    [] kind = "protocol" -> writtenProtocol(v)
    [] kind = "dtmf"     -> writtenDtmf(v)
    [] OTHER             -> writtenText(v)

-----------------------------------------------------------------------------
(* The details loadAccount shows, saveAccount takes back, and those whose  *)
(* widgets call changedAccountList (the codec lists through their model).  *)

Loaded ==
  {"alias", "protocol", "password", "hostname", "username", "mailbox", "proxy",
   "presenceEnabled", "displaySasOnce", "srtpRtpFallback", "zrtpDisplaySas",
   "zrtpNotSuppWarning", "zrtpHelloHash", "sipStunEnabled", "videoEnabled",
   "sipStunServer", "registrationExpire", "publishedSameAsLocal", "publishedAddress",
   "publishedPort", "tlsPassword", "tlsListenerPort", "tlsCaListCertificate",
   "tlsCertificate", "tlsPrivateKeyCertificate", "tlsCiphers", "tlsServerName",
   "tlsNegotiationTimeoutSec", "tlsNegotiationTimeoutMsec", "tlsVerifyServer",
   "tlsVerifyClient", "tlsRequireClientCertificate", "tlsEnabled", "autoAnswer",
   "videoPortMin", "videoPortMax", "audioPortMax", "audioPortMin", "userAgent",
   "keyExchange", "DTMFType", "credentials", "audioCodecs", "videoCodecs",
   "ringtoneEnabled", "ringtonePath", "tlsMethod", "localPort", "localInterface"}

(* Faulty form of the next: the ciphers are shown and not taken back.      *)
SavedLacksCiphers == Loaded \ {"tlsCiphers"}
Saved ==
  {"protocol", "alias", "hostname", "username", "password", "mailbox", "proxy",
   "presenceEnabled", "enabled", "registrationExpire", "tlsPassword", "tlsListenerPort",
   "tlsMethod", "tlsCiphers", "tlsServerName", "tlsNegotiationTimeoutSec",
   "tlsNegotiationTimeoutMsec", "keyExchange", "tlsVerifyServer", "tlsVerifyClient",
   "tlsRequireClientCertificate", "tlsEnabled", "displaySasOnce", "srtpRtpFallback",
   "zrtpDisplaySas", "zrtpNotSuppWarning", "zrtpHelloHash", "sipStunEnabled",
   "publishedSameAsLocal", "sipStunServer", "publishedPort", "publishedAddress",
   "localInterface", "ringtoneEnabled", "DTMFType", "autoAnswer", "localPort",
   "audioPortMax", "audioPortMin", "videoPortMax", "videoPortMin", "userAgent",
   "videoEnabled", "tlsCaListCertificate", "tlsCertificate", "tlsPrivateKeyCertificate",
   "ringtonePath", "credentials"}

(* The STUN server, the options of ZRTP and SDES and the box of the ring   *)
(* tone are not among them.                                                *)
Connected ==
  {"alias", "protocol", "hostname", "username", "password", "mailbox", "proxy",
   "presenceEnabled", "DTMFType", "autoAnswer", "videoEnabled", "registrationExpire",
   "publishedPort", "localInterface", "localPort", "sipStunEnabled", "publishedAddress",
   "tlsPassword", "userAgent", "tlsListenerPort", "tlsCaListCertificate",
   "tlsCertificate", "tlsPrivateKeyCertificate", "tlsMethod", "keyExchange",
   "tlsCiphers", "tlsServerName", "tlsNegotiationTimeoutSec",
   "tlsNegotiationTimeoutMsec", "tlsVerifyServer", "tlsVerifyClient",
   "tlsRequireClientCertificate", "tlsEnabled", "publishedSameAsLocal", "ringtonePath",
   "credentials", "audioPortMin", "audioPortMax", "videoPortMin", "videoPortMax",
   "enabled", "audioCodecs", "videoCodecs"}

(* Another file for the ring tone is not noticed while one is shown.       *)
Watched(detail, from, to) ==
  /\ detail \in Connected
  /\ ~(detail = "ringtonePath" /\ from[1] = "file" /\ to[1] = "file")
=============================================================================
