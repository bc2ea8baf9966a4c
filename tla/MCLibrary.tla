------------------------------ MODULE MCLibrary ------------------------------
\* A small instance of Library for TLC.
EXTENDS Library

CONSTANT Pinned     \* a fingerprint that an author gives

\* Lines of a body: headers, text that fills a chunk, text that does not, and
\* blank lines; each is named by where it stands.
Line(level, len, text) == [level |-> level, len |-> len, text |-> text]
Blank == Line(0, 0, "")
Kinds == {<<1, 20>>, <<2, 20>>, <<0, 150>>, <<0, 30>>, <<0, 0>>}
Name == <<"t1", "t2", "t3", "t4">>

File(uid, body) ==
    [front |-> "closed", gap |-> TRUE, yaml |-> TRUE, uid |-> uid, draft |-> FALSE,
     date |-> "past", publishDate |-> "unset", expiryDate |-> "unset", fingerprint |-> NoFingerprint,
     tags |-> {}, kind |-> "docbuilder", body |-> body]

\* Every body of up to four lines, with and without a blank line before it.
Bodies ==
    { [i \in 1..n |-> Line(k[i][1], k[i][2], IF k[i][2] = 0 THEN "" ELSE Name[i])] :
        <<n, k>> \in { <<n, k>> \in (1..4) \X [1..4 -> Kinds] :
            /\ k[1][2] # 0 /\ k[n][2] # 0
            /\ \A i \in n + 1..4 : k[i] = <<0, 0>> } }
AnyFile == {[File("a", b) EXCEPT !.gap = g] : b \in Bodies, g \in BOOLEAN}

\* A guide of two chapters, in two versions, with a fingerprint of its own or
\* without, and as a draft; a note, an issue, and files that are no documents.
Guide(end) == [File("a", << Line(1, 20, "a1"), Line(0, 150, "a2"),
                            Line(2, 20, "a3"), Line(0, 150, end) >>)
               EXCEPT !.tags = {"howto"}]
Note == File("b", << Line(0, 90, "b1") >>)
Issue == [uid |-> "gitlab:g", title |-> "g1", titleLen |-> 30, labels |-> {},
          createdAt |-> "past", description |-> << Line(0, 150, "g2") >>,
          notes |-> << [system |-> FALSE, at |-> 2, len |-> 60, text |-> "g4"],
                       [system |-> TRUE, at |-> 0, len |-> 60, text |-> "g5"],
                       [system |-> FALSE, at |-> 1, len |-> 60, text |-> "g3"] >>,
          includeNotes |-> TRUE, includeSystem |-> FALSE]
Broken == { [Note EXCEPT !.front = "none"], [Note EXCEPT !.uid = NoUid] }

Deployed(settings, env) ==
    [path |-> NoFile, files |-> ("config.yml" :> settings), broken |-> {}, env |-> env]

\* The team's own server; the same after a change of the model and of the sizes,
\* with its index on a disk of its own; after a move to another provider, with
\* shorter vectors; one whose file is missing; one that Validate refuses.
MCDeployments ==
    "team" :> Deployed([max |-> 200, min |-> 100, overlap |-> 60, concurrency |-> 2],
                       "data" :> << <<"srv">> >>)
    @@ "finer" :> Deployed([max |-> 100, min |-> 20, overlap |-> 0, concurrency |-> 3,
                            model |-> "other"],
                           "data" :> << <<"srv">> >> @@ "keywordIndex" :> << <<"~", "index">> >>)
    @@ "moved" :> Deployed([max |-> 200, min |-> 100, overlap |-> 60, dim |-> 256,
                            provider |-> "embedding_gemma", gemmaURL |-> "gemma"],
                           "data" :> << <<"srv">> >> @@ "gemmaTimeout" :> <<>>)
    @@ "lost" :> [Deployed([max |-> 200], <<>>) EXCEPT !.path = "lost.yml"]
    @@ "wrong" :> Deployed([temperature |-> 30], "data" :> << <<"srv">> >>)

AllTags == [tag |-> NoTag, kinds |-> {}]
Queries == { [near |-> <<"a1", "a3", "b1", "g1">>, terms |-> <<"b1", "a2">>],
             [near |-> <<"a3", "a1", "b1">>, terms |-> <<"b1", "a4">>],
             [near |-> <<"b1", "g1", "a1">>, terms |-> <<>>] }
MCSearches ==
    { [query |-> q, limit |-> n, filter |-> AllTags, mode |-> m, embeds |-> e,
       indexed |-> x] :
        q \in Queries, n \in {0, 1}, m \in {"semantic", "keyword", "hybrid"},
        e \in BOOLEAN, x \in BOOLEAN }
    \cup
    { [query |-> q, limit |-> 2, filter |-> f, mode |-> "hybrid", embeds |-> TRUE,
       indexed |-> TRUE] :
        q \in Queries, f \in { [AllTags EXCEPT !.tag = "howto"],
                               [AllTags EXCEPT !.kinds = {"gitlab"}] } }

Nothing == [deployments |-> {}, steps |-> 0, files |-> {}, issues |-> {}, deletes |-> {},
            prunes |-> {}, searches |-> {}, doctors |-> {}, losesIndex |-> FALSE,
            lengths |-> {768}, cuts |-> FALSE]

\* Any file, once; a few documents, tidied; a few documents, searched by one
\* server after the other.
MCWorkloads ==
    "any" :> [Nothing EXCEPT !.deployments = {"team", "finer"}, !.steps = 2,
                             !.files = AnyFile]
    @@ "tidying" :>
        [Nothing EXCEPT !.deployments = {"team"}, !.steps = 5,
            !.files = {Guide("a4"), [Guide("a4") EXCEPT !.draft = TRUE], Note} \cup Broken
                      \cup {[Guide(end) EXCEPT !.fingerprint = Pinned] : end \in {"a4", "a5"}},
            !.issues = {Issue, [Issue EXCEPT !.title = "bracket"]}, !.deletes = {"a", "b"},
            !.prunes = {[keeps |-> TRUE, docs |-> {"b"}, dryRun |-> FALSE],
                        [keeps |-> FALSE, docs |-> {"a"}, dryRun |-> FALSE],
                        [keeps |-> FALSE, docs |-> {"b"}, dryRun |-> TRUE]},
            !.cuts = TRUE]
    @@ "moving" :>
        [Nothing EXCEPT !.deployments = {"team", "finer", "moved", "lost"}, !.steps = 5,
            !.files = {Guide("a4"), Note}, !.searches = MCSearches,
            !.doctors = {"team", "moved", "wrong"}, !.losesIndex = TRUE,
            !.lengths = {256, 768}, !.cuts = TRUE]
=============================================================================
