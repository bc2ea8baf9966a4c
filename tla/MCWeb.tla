-------------------------------- MODULE MCWeb --------------------------------
\* A small instance of Web for TLC.
EXTENDS Web, TLC

CONSTANTS alice, aliceMail, bob, bobMail, github, oidc, home, away

Interchangeable == Permutations(Reqs)

MCType == github :> "github" @@ oidc :> "oidc"

\* Alice hides her e-mail, Bob's provider knows him by his e-mail only.
MCProfiles ==
    { [name |-> alice, email |-> None, primary |-> aliceMail],
      [name |-> None, email |-> bobMail, primary |-> bobMail] }
MCLocalPart == aliceMail :> alice @@ bobMail :> bob

MCAllowedUsers == github :> {aliceMail} @@ oidc :> {bob}

Browse == [public |-> TRUE, writes |-> FALSE, llm |-> FALSE, ingest |-> "no",
           bearer |-> "none", csrf |-> FALSE, ip |-> home]
Ask == [Browse EXCEPT !.public = FALSE, !.writes = TRUE, !.llm = TRUE]
Push == [Ask EXCEPT !.bearer = "good", !.ingest = "fits"]

Machine == [Push EXCEPT !.ip = away]

\* A team behind OAuth; OAuth whose discovery failed at startup; machines with
\* tokens and a rate limit; nothing at all.
MCDeployments ==
    { [tokens |-> FALSE, sessions |-> TRUE, providers |-> TRUE, limiter |-> FALSE,
       requests |-> {Browse, [Ask EXCEPT !.csrf = TRUE]}],
      [tokens |-> TRUE, sessions |-> TRUE, providers |-> FALSE, limiter |-> FALSE,
       requests |-> {Browse, Ask, [Ask EXCEPT !.csrf = TRUE], Push}],
      [tokens |-> TRUE, sessions |-> FALSE, providers |-> FALSE, limiter |-> TRUE,
       requests |-> {Ask, Push, [Push EXCEPT !.bearer = "bad"],
                     Machine, [Machine EXCEPT !.ingest = "big"]}],
      [tokens |-> FALSE, sessions |-> FALSE, providers |-> FALSE, limiter |-> TRUE,
       requests |-> {Browse, Ask, [Push EXCEPT !.ingest = "empty"]}] }

=============================================================================
