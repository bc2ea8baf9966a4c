------------------------------ MODULE Settings -------------------------------
(***************************************************************************)
(* The configuration (src/internal/config): defaults, the file, the        *)
(* environment, what is derived from them, and which configurations        *)
(* Validate accepts.                                                       *)
(*                                                                         *)
(* A deployment is what an operator provides: which file is named, the     *)
(* files there are with the settings each gives, and the variables that    *)
(* are set: <<value>>, or <<>> where the value does not parse.  A path is  *)
(* a sequence of names.  Times are in seconds, rates in tenths.            *)
(***************************************************************************)
EXTENDS Integers, SequencesExt, TLC

NoFile == ""

DefaultConfig == [
    provider |-> "", gemmaURL |-> "", gemmaTimeout |-> 0, gemmaConcurrency |-> 0,
    gemmaDim |-> 0,
    baseURL |-> "localhost:11434", model |-> "nomic-embed-text:v1.5",
    chatURL |-> "localhost:11434", chatModel |-> "gemma:2b",
    timeout |-> 30, temperature |-> 1, topP |-> 8, topK |-> 20, numPredict |-> 512,
    requestDim |-> 0, concurrency |-> 4,
    persistence |-> <<"cwd", "data", "vectors">>, keywordIndex |-> <<>>,
    collection |-> "ragabast", dim |-> 768,
    address |-> "0.0.0.0", port |-> 8080, publicURL |-> "",
    maxDocument |-> 1048576, workers |-> 0, writeTimeout |-> 60,
    providers |-> <<>>, defaultProvider |-> "",
    max |-> 2000, min |-> 300, overlap |-> 150,
    data |-> <<"cwd", "data">>]

\* The settings that a variable overrides.  The dimension, the sizes of chunks,
\* the concurrency of the OpenAI client and the timeouts of the server have
\* documented variables that nothing reads.
EmbeddingEnv == {"provider", "gemmaURL", "gemmaTimeout", "gemmaConcurrency", "gemmaDim"}
ModelEnv == {"baseURL", "model", "chatURL", "chatModel", "timeout", "temperature",
             "topP", "topK", "numPredict"}
StoreEnv == {"persistence", "keywordIndex", "collection"}
ServerEnv == {"address", "port", "publicURL", "maxDocument", "workers"}
PathEnv == {"data", "providers", "defaultProvider"}
EnvFields == EmbeddingEnv \cup ModelEnv \cup StoreEnv \cup ServerEnv \cup PathEnv

\* The named file, or the first of the two default ones that exists.
ConfigFile(d) ==
    IF d.path # NoFile THEN d.path
    ELSE IF "config.yml" \in DOMAIN d.files THEN "config.yml"
    ELSE IF "config.yaml" \in DOMAIN d.files THEN "config.yaml"
    ELSE NoFile

\* A named file must be there, and any file must be well-formed.
Loads(d) ==
    ConfigFile(d) # NoFile => ConfigFile(d) \in DOMAIN d.files \ d.broken

FromFile(d) ==
    IF ConfigFile(d) = NoFile THEN DefaultConfig
    ELSE d.files[ConfigFile(d)] @@ DefaultConfig

\* A value that does not parse is ignored.
ApplyEnv(d, c) ==
    [f \in DOMAIN c |->
        IF f \in EnvFields \cap DOMAIN d.env /\ d.env[f] # <<>> THEN d.env[f][1]
        ELSE c[f]]

ResolvePath(p) ==
    IF p # <<>> /\ Head(p) = "~" THEN <<"home">> \o Tail(p) ELSE p

\* The vectors follow the data directory if the environment left their own as
\* it was: as it was in the file, where there is one, not in the defaults.
DerivePersistence(before, c) ==
    IF c.data # <<>> /\ c.persistence = before.persistence
    THEN [c EXCEPT !.persistence = Append(c.data, "vectors")]
    ELSE c

ApplyEnvOverrides(d, c) ==
    LET over == ApplyEnv(d, c)
    IN DerivePersistence(c, [over EXCEPT !.data = ResolvePath(@),
                                         !.persistence = ResolvePath(@),
                                         !.keywordIndex = ResolvePath(@)])

Load(d) == ApplyEnvOverrides(d, FromFile(d))

ResolveKeywordIndexPath(c) ==
    IF c.keywordIndex # <<>> THEN c.keywordIndex ELSE Append(c.persistence, "search")

ValidateEmbedding(c) ==
    /\ c.provider \in {"", "openai", "embedding_gemma"}
    /\ c.provider = "embedding_gemma" => c.gemmaURL # ""
    /\ c.gemmaTimeout >= 0 /\ c.gemmaConcurrency >= 0 /\ c.gemmaDim >= 0

ValidateModels(c) ==
    /\ "" \notin {c.baseURL, c.model, c.chatURL, c.chatModel}
    /\ c.timeout > 0
    /\ c.temperature \in 0..20

ValidateOptions(c) == c.topP \in 0..10 /\ c.topK >= 0 /\ c.numPredict > 0

ValidateStore(c) == c.persistence # <<>> /\ c.collection # "" /\ c.dim > 0

ValidateServer(c) ==
    /\ c.address # "" /\ c.port \in 1..65535
    /\ c.publicURL \in {"", "http://host", "https://host"}
    /\ c.maxDocument >= 0 /\ c.workers >= 0

ValidateProvider(p) ==
    /\ "" \notin {p.name, p.clientID, p.clientSecret}
    /\ p.type \in {"github", "gitlab", "forgejo", "oidc"}
    /\ p.type = "forgejo" => p.baseURL # ""
    /\ p.type = "oidc" => p.discoveryURL # ""

ValidateAuth(c) ==
    LET names == {c.providers[i].name : i \in DOMAIN c.providers}
    IN /\ \A i \in DOMAIN c.providers : ValidateProvider(c.providers[i])
       /\ names \cap {"login", "logout", "me"} = {}
       /\ \A i, j \in DOMAIN c.providers :
            c.providers[i].name = c.providers[j].name => i = j
       /\ c.defaultProvider # "" => c.defaultProvider \in names

\* The overlap has no bound.
ValidateProcessing(c) == c.max > 0 /\ c.min > 0 /\ c.min <= c.max

\* A reply has to fit into the time the server allows for writing it.
ValidateTimeouts(c) ==
    c.writeTimeout > 0 =>
        /\ c.writeTimeout >= c.timeout + 5
        /\ c.writeTimeout >= c.gemmaTimeout + 5

Validate(c) ==
    /\ ValidateEmbedding(c) /\ ValidateModels(c) /\ ValidateOptions(c)
    /\ ValidateStore(c) /\ ValidateServer(c) /\ ValidateAuth(c)
    /\ ValidateProcessing(c) /\ ValidateTimeouts(c)
    /\ c.data # <<>>

\* Which client computes the vectors, and how many batches it sends at once.
ClientExists(c) ==
    \/ c.provider \in {"", "openai"}
    \/ c.provider = "embedding_gemma" /\ c.gemmaURL # ""

Concurrency(c) ==
    LET configured == IF c.provider = "embedding_gemma" THEN c.gemmaConcurrency
                      ELSE c.concurrency
    IN IF configured < 1 THEN 1 ELSE configured
==============================================================================
