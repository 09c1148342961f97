------------------------------ MODULE VimLogin ------------------------------
(***************************************************************************)
(* connect_vim (nfc_auth.py): the management certificate is compared with  *)
(* the thumbprint on a connection of its own, then SmartConnect makes two  *)
(* more, to find a common API version and to log in.  The certificate that *)
(* the other end presents may be another one each time.                    *)
(*                                                                         *)
(* A thumbprint is the digest of a certificate in some notation.  Of       *)
(* pyVmomi, external, the model takes what the docstring of connect_vim    *)
(* says: the login is pinned to the thumbprint it is given, the version    *)
(* discovery is not, and both verify the certificate unless told not to.   *)
(***************************************************************************)
EXTENDS Integers, Sequences

CONSTANTS
    Threads,
    Certs, CaStore,  \* certificates, and those the system CA store accepts
    Thumbprints,     \* thumbprint arguments that occur, NoThumbprint for None
    ApiVersions      \* GetServiceVersions("vim25"), newest first

Thumbprint == [digest : Certs, colons : BOOLEAN, lower : BOOLEAN]
NoThumbprint == [digest |-> "none", colons |-> FALSE, lower |-> FALSE]
Version == [major : 6 .. 9, minor : 0 .. 3]
NoVersion == [major |-> 6, minor |-> 0]

ASSUME LoginConstants ==
    /\ CaStore \subseteq Certs /\ "none" \notin Certs
    /\ Thumbprints \subseteq Thumbprint \cup {NoThumbprint}
    /\ ApiVersions \in Seq(Version)

VARIABLES
    cert,   \* external: the certificate now presented at host:port
    login   \* per thread, how far connect_vim has come

loginVars == <<cert, login>>

NoLogin == [st |-> "out", thumbprint |-> NoThumbprint, untrusted |-> FALSE,
            peer |-> "none", version |-> NoVersion]

LoginInit == cert \in Certs /\ login = [t \in Threads |-> NoLogin]

LoginAt(t, st) == login[t].st = st
SetLogin(t, l) == login' = [login EXCEPT ![t] = l]

\* _format_thumbprint of the certificate's hash: upper case with colons.
format_thumbprint(c) == [digest |-> c, colons |-> TRUE, lower |-> FALSE]
get_ssl_cert_thumbprint == format_thumbprint(cert)
normalize_thumbprint(p) == [digest |-> p.digest, colons |-> FALSE, lower |-> FALSE]

\* A thread begins, after a failure maybe, or with its next session.
StartLogin(t, thumbprint, untrusted) ==
    /\ ~(LoginAt(t, "pin") \/ LoginAt(t, "discover") \/ LoginAt(t, "login"))
    /\ SetLogin(t, [NoLogin EXCEPT
          !.st = IF thumbprint # NoThumbprint /\ ~untrusted THEN "pin" ELSE "discover",
          !.thumbprint = thumbprint, !.untrusted = untrusted])
    /\ UNCHANGED cert

\* get_ssl_cert_thumbprint: the first connection.
PinCheck(t) ==
    LET same == normalize_thumbprint(get_ssl_cert_thumbprint)
                    = normalize_thumbprint(login[t].thumbprint)
    IN
    /\ LoginAt(t, "pin")
    /\ SetLogin(t, [login[t] EXCEPT !.st = IF same THEN "discover" ELSE "mismatch",
                                    !.peer = cert])
    /\ UNCHANGED cert

\* Certificates that a TLS context accepts.
ssl_client_context(verify) == IF verify THEN CaStore ELSE Certs
skip_ca(l) == l.untrusted \/ l.thumbprint # NoThumbprint

\* What the login is verified against: the thumbprint, if SmartConnect gets
\* one, and the CA store unless it is skipped.
LoginAcceptsAnyPinned(l, c) == c \in ssl_client_context(~skip_ca(l))
LoginAccepts(l, c) ==
    /\ c \in ssl_client_context(~skip_ca(l))
    /\ l.thumbprint # NoThumbprint => c = l.thumbprint.digest

\* The vim25 8.x versions, by their places in the list, newest first.
preferred_api_versions == {i \in DOMAIN ApiVersions : ApiVersions[i].major = 8}

\* SmartConnect, the version discovery: the first preferred version that the
\* server has too.
Discover(t, served) ==
    LET common == {i \in preferred_api_versions : ApiVersions[i] \in served}
        trusted == cert \in ssl_client_context(~skip_ca(login[t]))
    IN
    /\ LoginAt(t, "discover")
    /\ \/ /\ trusted
          /\ \E i \in common :
                /\ \A j \in common : i <= j
                /\ SetLogin(t, [login[t] EXCEPT !.st = "login",
                                               !.version = ApiVersions[i]])
       \/ /\ ~trusted \/ common = {}
          /\ SetLogin(t, [NoLogin EXCEPT !.st = "raised"])
    /\ UNCHANGED cert

\* SmartConnect, the login: user name and password go out.
Login(t) ==
    /\ LoginAt(t, "login")
    /\ IF LoginAccepts(login[t], cert)
       THEN SetLogin(t, [login[t] EXCEPT !.st = "in", !.peer = cert])
       ELSE SetLogin(t, [NoLogin EXCEPT !.st = "raised"])
    /\ UNCHANGED cert

\* A connection cannot be made or breaks, or the user is refused.
LoginFails(t) ==
    /\ LoginAt(t, "pin") \/ LoginAt(t, "discover") \/ LoginAt(t, "login")
    /\ SetLogin(t, [NoLogin EXCEPT !.st = "raised"])
    /\ UNCHANGED cert

\* The certificate is renewed, or the name leads to another host.
OtherCert(c) == cert' = c /\ UNCHANGED login

LoginStep(t) ==
    \/ \E p \in Thumbprints, u \in BOOLEAN : StartLogin(t, p, u)
    \/ PinCheck(t) \/ Login(t) \/ LoginFails(t)
    \/ \E served \in SUBSET {ApiVersions[i] : i \in DOMAIN ApiVersions} :
          Discover(t, served)
-----------------------------------------------------------------------------
LoginTypeOK ==
    /\ cert \in Certs
    /\ login \in [Threads ->
          [st : {"out", "pin", "discover", "login", "in", "session", "mismatch",
                 "raised"},
           thumbprint : Thumbprint \cup {NoThumbprint}, untrusted : BOOLEAN,
           peer : Certs \cup {"none"}, version : Version]]

\* However the certificate changes between the three connections, whoever is
\* logged in sent the password to a peer that the caller's thumbprint names
\* or, without one and unless anything goes, that the CA store accepts, and
\* speaks an 8.x API; and a mismatch is not one of notation.
LoginAsAsked ==
    \A t \in Threads : LET l == login[t] IN
        /\ l.st = "in" =>
              /\ l.thumbprint # NoThumbprint => l.peer = l.thumbprint.digest
              /\ l.thumbprint = NoThumbprint /\ ~l.untrusted => l.peer \in CaStore
              /\ l.version.major = 8
        /\ l.st = "mismatch" => l.peer # l.thumbprint.digest
=============================================================================
