----------------------------- MODULE Discovery -----------------------------
(***************************************************************************)
(* auth/oidcclient/discovery.go: where a flow finds the issuer's           *)
(* endpoints.  An endpoint is where it was taken from and whether it may   *)
(* carry credentials (requireSecureEndpoint: https, or a loopback host).   *)
(***************************************************************************)

Fields == {"authorize", "token", "device"}
Listed == {"missing", "secure", "cleartext"}

\* What the issuer answers: ok, a document was read and names the issuer.
Documents == [ok : BOOLEAN, authorize : Listed, token : Listed, device : Listed]

\* The path convention is as secure as the issuer's own URL.
conventionEndpoints(issuerSecure) ==
    [f \in Fields |-> [from |-> "convention", secure |-> issuerSecure]]

\* A field of the document is taken when it is there and secure; a cleartext
\* issuer is not asked.
discoverEndpoints(issuerSecure, document) ==
    [f \in Fields |->
        IF issuerSecure /\ document.ok /\ document[f] = "secure"
        THEN [from |-> "document", secure |-> TRUE]
        ELSE conventionEndpoints(issuerSecure)[f]]

Resolved == {discoverEndpoints(s, d) : s \in BOOLEAN, d \in Documents}
=============================================================================
