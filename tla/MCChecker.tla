----------------------------- MODULE MCChecker ------------------------------
(* Instances of Checker for TLC. *)
EXTENDS Checker, TLC

CONSTANTS web, secure, mail, k1, k2

MCScheme == web :> "HTTP" @@ secure :> "HTTPS" @@ mail :> "SMTP"

\* An anonymous HTTP proxy, HTTPS and mail of any kind; the second proxy is only
\* expected to speak HTTP.
MCTypes == "HTTP" :> {"High"} @@ "HTTPS" :> {} @@ "CONNECT:25" :> {}
MCExpected == k1 :> {} @@ k2 :> {"HTTP", "SOCKS5"}
=============================================================================
