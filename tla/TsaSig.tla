------------------------------- MODULE TsaSig -------------------------------
(***************************************************************************)
(* examples/work-acceptance-record-cold/tsa_sig.py: evaluate() of a time-  *)
(* stamp token's signature and certificate chain. DER is left out: a token *)
(* parses or does not, and a signature is the key and what it covers.      *)
(***************************************************************************)
EXTENDS Naturals, Sequences

Cert(subject, key, issuer, by) ==
  [subject |-> subject, key |-> key, issuer |-> issuer, by |-> by, ca |-> TRUE, nb |-> 1, na |-> 4, eku |-> FALSE]

\* The signed attributes name the content's type and digest and the signer's
\* certificate; the signature is over them.
Token(econtent, certs, signer, key) ==
  LET attrs == [ctype |-> "tstinfo", md |-> econtent, ess |-> <<signer>>]
  IN  [parses |-> TRUE, etype |-> "tstinfo", econtent |-> econtent, certs |-> certs, signed |-> TRUE,
       sid |-> <<signer.issuer, signer.subject>>, attrs |-> attrs, alg |-> "rsa", sig |-> <<key, attrs>>]

-----------------------------------------------------------------------------
valid_at(cert, t) == cert.nb <= t /\ t <= cert.na

\* A trust anchor is a name and a key.
is_anchor(cert, anchors) == \E i \in DOMAIN anchors : anchors[i].subject = cert.subject /\ anchors[i].key = cert.key

First(s, Test(_)) == LET found == SelectSeq(s, Test) IN IF found = <<>> THEN <<>> ELSE <<Head(found)>>

find_signer_cert(tok) == First(tok.certs, LAMBDA c : <<c.issuer, c.subject>> = tok.sid)

ess_binding(tok, cert) == tok.attrs.ess = <<cert>>

signature_ok(tok, cert) ==
  IF tok.alg \notin {"rsa", "pss", "ecdsa"} THEN "unsupported"
  ELSE IF tok.sig = <<cert.key, tok.attrs>> THEN "ok" ELSE "bad"

\* The first certificate of the issuer's name whose key signed this one.
IssuerOf(cert, all) == First(all, LAMBDA c : c.subject = cert.issuer /\ c # cert /\ c.key = cert.by)

\* From the signer from issuer to issuer, until an anchor or nothing; a walk
\* that comes back to a certificate finds no other.
Path(signer, all, anchors) ==
  LET path[n \in 0..Len(all) + 1] ==
        IF n = 0 THEN <<signer>>
        ELSE IF path[n - 1] = <<>> \/ (\E c \in {path[n - 1][1]} : is_anchor(c, anchors)) THEN <<>>
        ELSE IssuerOf(path[n - 1][1], all)
  IN  path

\* An issuer below the anchor is an authority, valid at the token's time.
ChainFailed(path, anchors, t) ==
  \E n \in DOMAIN path \ {0} : /\ path[n] # <<>> /\ ~is_anchor(path[n][1], anchors)
                               /\ ~(valid_at(path[n][1], t) /\ path[n][1].ca)

ChainReached(path, anchors) == \E n \in DOMAIN path : path[n] # <<>> /\ is_anchor(path[n][1], anchors)

evaluate(tok, anchors, t) ==
  LET signer == find_signer_cert(tok)
      content == tok.etype = "tstinfo" /\ tok.attrs.ctype = tok.etype /\ tok.attrs.md = tok.econtent
      path == Path(signer[1], tok.certs \o anchors, anchors)
      failed == /\ signer # <<>>
                /\ \/ ~ess_binding(tok, signer[1])
                   \/ signature_ok(tok, signer[1]) = "bad"
                   \/ ~signer[1].eku
                   \/ ChainFailed(path, anchors, t)
                   \/ ~valid_at(signer[1], t)
  IN  IF anchors = <<>> THEN "not_evaluated"
      ELSE IF ~tok.parses THEN "failed"
      ELSE IF ~tok.signed THEN "no_signer"
      ELSE IF ~content \/ failed THEN "failed"
      ELSE IF signer = <<>> THEN "no_signer"
      ELSE IF signature_ok(tok, signer[1]) = "unsupported" THEN "unsupported"
      ELSE IF ~ChainReached(path, anchors) THEN "untrusted"
      ELSE "verified"

-----------------------------------------------------------------------------
(* The authority's certificates, and what somebody with a certificate of    *)
(* another kind, or one long expired, could set beside them.                *)

Root  == Cert("root", "root", "root", "root")
Inter == Cert("inter", "inter", "root", "root")
Tsa   == [Cert("tsa", "tsa", "inter", "inter") EXCEPT !.ca = FALSE, !.eku = TRUE, !.na = 3]
Cross == Cert("root", "root", "elder", "elder")
Old   == [Cert("old", "rogue", "root", "root") EXCEPT !.na = 1]
Leaf  == [Cert("leaf", "rogue", "inter", "inter") EXCEPT !.ca = FALSE]
Fake(issuer) == [Cert("tsa", "rogue", issuer, "rogue") EXCEPT !.ca = FALSE, !.eku = TRUE]
FakeInter == Cert("inter", "rogue", "root", "rogue")
FakeRoot  == Cert("root", "rogue", "root", "rogue")

Signers == {<<Tsa, "tsa">>, <<Leaf, "rogue">>} \union {<<Fake(i), "rogue">> : i \in {"inter", "old", "leaf", "root"}}
Others == {Inter, Cross, Old, Leaf, FakeInter, FakeRoot}

Genuine ==
  {[tok |-> Token(c, <<s[1]>> \o more, s[1], s[2]), anchors |-> a, t |-> t] :
     c \in {"time"}, s \in Signers, a \in {<<Root>>, <<>>}, t \in {2, 4},
     more \in {<<>>} \union {<<x>> : x \in Others} \union {<<x, y>> : x \in Others, y \in Others}}

Edits(c) ==
  {[c EXCEPT !.tok.econtent = "other"], [c EXCEPT !.tok.econtent = "other", !.tok.attrs.md = "other"], [c EXCEPT !.tok.parses = FALSE],
   [c EXCEPT !.tok.signed = FALSE], [c EXCEPT !.tok.attrs.ess = <<>>], [c EXCEPT !.tok.attrs.ctype = "data"], [c EXCEPT !.tok.etype = "data"],
   [c EXCEPT !.tok.sid = <<"inter", "leaf">>], [c EXCEPT !.tok.alg = "p521"], [c EXCEPT !.tok.certs = SubSeq(@, 2, Len(@))],
   [c EXCEPT !.tok.certs = Append(@, Leaf)], [c EXCEPT !.tok.certs = <<Fake("inter")>> \o @], [c EXCEPT !.tok.certs = Append(@, Inter)]}

\* What is verified the authority's own key signed, over this content, within
\* the time its certificate stands.
Sound(c) ==
  /\ c.tok.sig[1] = "tsa" /\ c.tok.sig[2].md = c.tok.econtent
  /\ Tsa.nb <= c.t /\ c.t <= Tsa.na
=============================================================================
