----------------------------- MODULE MCBootstrap ------------------------------
(***************************************************************************)
(* Instances of Bootstrap for TLC; the bounds are in the .cfg file.        *)
(***************************************************************************)
EXTENDS Bootstrap

Plain == [installation |-> "dbaas", job |-> TRUE, operator |-> FALSE, m2m |-> FALSE,
          celery |-> FALSE, oneService |-> TRUE, replicas |-> 2, localFiles |-> TRUE, unnamed |-> {},
          patch |-> {}, ssl |-> "DISABLED", tls |-> FALSE]

\* Every value of a setting occurs, every branch on two of them too; TLS is
\* varied along with the rest because nothing else depends on it.
MCSettings ==
    {Plain,
     [Plain EXCEPT !.celery = TRUE, !.tls = TRUE, !.ssl = "CERT_PATH:system", !.job = FALSE,
                   !.unnamed = {"redis"}],
     [Plain EXCEPT !.m2m = TRUE, !.celery = TRUE, !.oneService = FALSE, !.tls = TRUE, !.ssl = "CERT_PATH",
                   !.patch = {"user", "password"}],
     [Plain EXCEPT !.m2m = TRUE, !.localFiles = FALSE, !.tls = TRUE, !.ssl = "CERT_PATH:system"],
     [Plain EXCEPT !.m2m = TRUE, !.job = FALSE, !.tls = TRUE, !.ssl = "other"],
     [Plain EXCEPT !.operator = TRUE, !.celery = TRUE, !.replicas = 1, !.tls = TRUE, !.ssl = "ENABLED"],
     [Plain EXCEPT !.operator = TRUE, !.m2m = TRUE, !.replicas = 1, !.localFiles = FALSE, !.tls = TRUE,
                   !.patch = {"password"}],
     [Plain EXCEPT !.celery = TRUE, !.tls = TRUE, !.ssl = "other", !.unnamed = {"postgresql"}],
     [Plain EXCEPT !.installation = "direct"]}

\* Two credentials of which only the first, only the second, both or none is
\* supported, and addresses with and without a supported protocol.
Scram == [type |-> "SCRAM", plainPassword |-> TRUE, user |-> "u1"]
Plaintext == [type |-> "plain", plainPassword |-> TRUE, user |-> "u2"]
Hashed == [type |-> "SCRAM", plainPassword |-> FALSE, user |-> "u2"]
MCReplies ==
    [addresses : {{}, {"SSL"}, {"SASL_SSL", "PLAINTEXT"}},
     client : {<<Scram, Hashed>>, <<Hashed, Scram>>, <<Plaintext, Scram>>, <<Hashed>>, <<>>}]
==============================================================================
