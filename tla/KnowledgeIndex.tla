---------------------------- MODULE KnowledgeIndex ----------------------------
(* The knowledge base: the models and the store that the threads of a process  *)
(* share (app/rag/indexer.py), the two stages of a retrieval                   *)
(* (app/rag/retriever.py) and the program that rebuilds the collection, which  *)
(* an operator starts beside it, one at a time, in a process of its own.       *)
(* External: Chroma keeps a collection for whoever opens it, adds at once, and *)
(* refuses a handle of one that was dropped; vectors and scores choose chunks. *)
EXTENDS Naturals, Sequences, FiniteSets, FiniteSetsExt

CONSTANTS
  Thread,      \* of a process that retrieves and embeds
  Corpora,     \* what a build may find: documents by their name
  MaxText,     \* of a chunk (MAX_CHARS)
  Candidates,  \* of the first stage (CANDIDATE_TOP_K)
  TopK,        \* of a retrieval
  MaxBuilds, MaxMishaps,
  None

VARIABLES
  instance,    \* shared model -> the loaded one or None
  loads,        \* history: model -> how many were loaded
  owner,       \* model -> the thread in its lock
  caller,      \* thread -> its job, how far it is, its handle and its result
  collection,  \* None or its number, what it was read from and its chunks
  builder,     \* stage and collection of the rebuilding program
  builds, mishaps

kvars == <<instance, loads, owner, caller, collection, builder, builds, mishaps>>

Shared == {"client", "embedder", "reranker"}

\* What a caller does, in order (retrieve; recall, learning and compensation; warmup).
Program ==
  [retrieve |-> <<"client", "preflight", "embedder", "encode", "open", "query", "reranker", "rank">>,
   embed |-> <<"embedder", "encode">>,
   warm |-> <<"embedder", "reranker">>]

Op(c) == IF c.at <= Len(Program[c.job]) THEN Program[c.job][c.at] ELSE "done"

-----------------------------------------------------------------------------
(* Chunks of a document (_split_doc, _maybe_secondary, build)               *)

\* Bug: a document's beginning is kept only if it has a heading.
SectionsHeaded(body) == SelectSeq(body, LAMBDA s : s.text # <<>> /\ s.heading # None)

\* Sections with text; what stands before the first heading joins the first of them.
Sections(body) ==
  LET filled == SelectSeq(body, LAMBDA s : s.text # <<>>)
      headed == SelectSeq(filled, LAMBDA s : s.heading # None)
      intro == SelectSeq(filled, LAMBDA s : s.heading = None)
  IN IF headed = <<>> \/ intro = <<>> THEN headed
     ELSE [headed EXCEPT ![1].text = intro[Len(intro)].text \o @]

\* External: the splitter cuts where the text is full.
Pieces(text) ==
  [j \in 1 .. (Len(text) + MaxText - 1) \div MaxText |->
     SubSeq(text, (j - 1) * MaxText + 1, IF j * MaxText < Len(text) THEN j * MaxText ELSE Len(text))]

ChunksOf(corpus) ==
  UNION {LET found == Sections(corpus[d].body) IN
         UNION {{[doc |-> d, section |-> i, heading |-> found[i].heading,
                  part |-> IF Len(Pieces(found[i].text)) = 1 THEN None ELSE j,
                  text |-> Pieces(found[i].text)[j]] : j \in DOMAIN Pieces(found[i].text)}
                : i \in DOMAIN found}
         : d \in DOMAIN corpus}

Readable(corpus) == \A d \in DOMAIN corpus : corpus[d].titled   \* _parse_front_matter

-----------------------------------------------------------------------------
(* Shared models (get_embedder, get_chroma_client, get_reranker)             *)

Advance(t) == caller' = [caller EXCEPT ![t].at = @ + 1, ![t].stage = "asking"]
Stands(t, stage) == caller' = [caller EXCEPT ![t].stage = stage]
Leaves(t, end, found) ==
  caller' = [caller EXCEPT ![t].at = Len(Program[caller[t].job]) + 1, ![t].stage = "asking",
                           ![t].handle = None, ![t].end = end, ![t].found = found]

Takes(t, m) == owner[m] = None /\ owner' = [owner EXCEPT ![m] = t]
Frees(m) == owner' = [owner EXCEPT ![m] = None]
At(t, op, stage) == Op(caller[t]) = op /\ caller[t].stage = stage

\* The check without the lock.
Ask(t, m) ==
  /\ At(t, m, "asking")
  /\ IF instance[m] # None THEN Advance(t) ELSE Stands(t, "missed")
  /\ UNCHANGED <<instance, loads, owner, collection, builder, builds, mishaps>>

Enter(t, m) ==
  /\ At(t, m, "missed") /\ Takes(t, m)
  /\ Stands(t, "entered")
  /\ UNCHANGED <<instance, loads, collection, builder, builds, mishaps>>

\* Bug: the check is not made again in the lock.
StillMissingUnchecked(m) == TRUE
StillMissing(m) == instance[m] = None

Recheck(t, m) ==
  /\ At(t, m, "entered")
  /\ IF StillMissing(m) THEN Stands(t, "making") /\ UNCHANGED owner
     ELSE Advance(t) /\ Frees(m)
  /\ UNCHANGED <<instance, loads, collection, builder, builds, mishaps>>

Make(t, m) ==
  /\ At(t, m, "making")
  /\ loads' = [loads EXCEPT ![m] = @ + 1]
  /\ instance' = [instance EXCEPT ![m] = loads'[m]]
  /\ Advance(t) /\ Frees(m)
  /\ UNCHANGED <<collection, builder, builds, mishaps>>

-----------------------------------------------------------------------------
(* A retrieval (retrieve, encode_with_shared_embedder)                       *)

\* Bug: inference without the lock.
MayEncodeAnyhow == TRUE
MayEncode == owner["embedder"] = None

Encode(t) ==
  /\ At(t, "encode", "asking") /\ MayEncode
  /\ owner' = [owner EXCEPT !["embedder"] = t]
  /\ Stands(t, "encoding")
  /\ UNCHANGED <<instance, loads, collection, builder, builds, mishaps>>

Encoded(t) ==
  /\ At(t, "encode", "encoding")
  /\ IF caller[t].job = "retrieve" THEN Advance(t) ELSE Leaves(t, "done", {})
  /\ Frees("embedder")
  /\ UNCHANGED <<instance, loads, collection, builder, builds, mishaps>>

\* The collection is looked for before anything is embedded, and opened after.
Look(t) ==
  /\ At(t, "preflight", "asking")
  /\ IF collection = None THEN Leaves(t, "unavailable", {}) ELSE Advance(t)
  /\ UNCHANGED <<instance, loads, owner, collection, builder, builds, mishaps>>

Open(t) ==
  /\ At(t, "open", "asking")
  /\ IF collection = None THEN Leaves(t, "raised", {})
     ELSE caller' = [caller EXCEPT ![t].at = @ + 1, ![t].handle = collection.build]
  /\ UNCHANGED <<instance, loads, owner, collection, builder, builds, mishaps>>

AtMost(k, set) == IF k < Cardinality(set) THEN kSubset(k, set) ELSE {set}

\* The nearest chunks; an empty collection has none, and nothing is ranked.
Query(t) ==
  /\ At(t, "query", "asking")
  /\ IF collection = None THEN Leaves(t, "raised", {})
     ELSE IF collection.build # caller[t].handle THEN Leaves(t, "raised", {})
     ELSE IF collection.chunks = {} THEN Leaves(t, "empty", {})
     ELSE \E near \in AtMost(Candidates, collection.chunks) :
            caller' = [caller EXCEPT ![t].at = @ + 1, ![t].found = near]
  /\ UNCHANGED <<instance, loads, owner, collection, builder, builds, mishaps>>

Rank(t) ==
  /\ At(t, "rank", "asking")
  /\ \E best \in AtMost(TopK, caller[t].found) : Leaves(t, "found", best)
  /\ UNCHANGED <<instance, loads, owner, collection, builder, builds, mishaps>>

\* What fails in the preflight or while the reranker is loaded is RAGNotAvailableError, for
\* which the strategy has an answer; any other failure is raised as it is.
Raise(t) ==
  LET op == Op(caller[t]) IN
  /\ mishaps < MaxMishaps /\ mishaps' = mishaps + 1
  /\ \/ op \in Shared /\ caller[t].stage = "making" /\ Frees(op)
     \/ op = "encode" /\ caller[t].stage = "encoding" /\ Frees("embedder")
     \/ op \in {"preflight", "open", "query", "rank"} /\ UNCHANGED owner
  /\ Leaves(t, IF op \in {"preflight", "reranker"} \/ (op = "client" /\ caller[t].job = "retrieve")
               THEN "unavailable" ELSE "raised", {})
  /\ UNCHANGED <<instance, loads, collection, builder, builds>>

-----------------------------------------------------------------------------
(* A rebuild (build)                                                         *)

\* The old collection goes before a document is read.
Drop ==
  /\ builder.stage = "idle" /\ builds < MaxBuilds
  /\ builds' = builds + 1 /\ collection' = None
  /\ builder' = [stage |-> "dropped", parsed |-> {}]
  /\ UNCHANGED <<instance, loads, owner, caller, mishaps>>

Create ==
  /\ builder.stage = "dropped"
  /\ collection' = [build |-> builds, corpus |-> None, chunks |-> {}]
  /\ builder' = [builder EXCEPT !.stage = "created"]
  /\ UNCHANGED <<instance, loads, owner, caller, builds, mishaps>>

\* A document without its front matter, or none with a section, ends the program here.
Read(corpus) ==
  /\ builder.stage = "created"
  /\ IF Readable(corpus) /\ ChunksOf(corpus) # {}
     THEN /\ builder' = [stage |-> "embedding", parsed |-> ChunksOf(corpus)]
          /\ collection' = [collection EXCEPT !.corpus = corpus]
     ELSE builder' = [stage |-> "idle", parsed |-> {}] /\ UNCHANGED collection
  /\ UNCHANGED <<instance, loads, owner, caller, builds, mishaps>>

Add ==
  /\ builder.stage = "embedding"
  /\ collection' = [collection EXCEPT !.chunks = builder.parsed]
  /\ builder' = [stage |-> "idle", parsed |-> {}]
  /\ UNCHANGED <<instance, loads, owner, caller, builds, mishaps>>

\* A model that does not load, a kill.
BuildFails ==
  /\ builder.stage # "idle" /\ mishaps < MaxMishaps
  /\ builder' = [stage |-> "idle", parsed |-> {}]
  /\ mishaps' = mishaps + 1
  /\ UNCHANGED <<instance, loads, owner, caller, collection, builds>>

Begins(job) ==
  [job |-> job, at |-> 1, stage |-> "asking", handle |-> None, end |-> None, found |-> {}]

\* No index yet, or the one of an earlier build.
KnowledgeInit ==
  /\ instance = [m \in Shared |-> None] /\ loads = [m \in Shared |-> 0]
  /\ owner = [m \in Shared |-> None]
  /\ caller \in [Thread -> {Begins(job) : job \in DOMAIN Program}]
  /\ \/ collection = None
     \/ \E corpus \in Corpora :
          /\ Readable(corpus) /\ ChunksOf(corpus) # {}
          /\ collection = [build |-> 0, corpus |-> corpus, chunks |-> ChunksOf(corpus)]
  /\ builder = [stage |-> "idle", parsed |-> {}]
  /\ builds = 0 /\ mishaps = 0

KnowledgeNext ==
  \/ \E t \in Thread :
       \/ \E m \in Shared : Ask(t, m) \/ Enter(t, m) \/ Recheck(t, m) \/ Make(t, m)
       \/ Encode(t) \/ Encoded(t)
       \/ Look(t) \/ Open(t) \/ Query(t) \/ Rank(t)
       \/ Raise(t)
  \/ Drop \/ Create \/ Add \/ BuildFails
  \/ \E corpus \in Corpora : Read(corpus)

KnowledgeSpec == KnowledgeInit /\ [][KnowledgeNext]_kvars

-----------------------------------------------------------------------------
(* Properties                                                                *)

\* However many threads start cold at once, a process loads each model once (the second
\* check of get_embedder, get_chroma_client and get_reranker).
MadeOnce == \A m \in Shared : loads[m] <= 1

Encoding(t) == At(t, "encode", "encoding")

\* The embedder never serves two threads at once, and none before it is there
\* (encode_with_shared_embedder).
EncodesAlone ==
  \A t \in Thread : Encoding(t) =>
    instance["embedder"] # None /\ \A u \in Thread \ {t} : ~ Encoding(u)

TextOf(part) == {part.text[i] : i \in DOMAIN part.text}

\* Of a document with headings nothing is lost, repeated or in a chunk longer than the
\* limit, and what has a heading stays under it (_split_doc, _maybe_secondary, build).
WholeIn(chunks, corpus) ==
  /\ \A c \in chunks : Len(c.text) \in 1 .. MaxText
  /\ \A d \in DOMAIN corpus :
       \A i \in DOMAIN corpus[d].body :
         \A word \in TextOf(corpus[d].body[i]) :
           LET at == {c \in chunks : word \in TextOf(c)}
               own == corpus[d].body[i].heading IN
           IF own = None /\ \A s \in DOMAIN corpus[d].body :
                 corpus[d].body[s].heading = None \/ corpus[d].body[s].text = <<>>
           THEN at = {}
           ELSE /\ Cardinality(at) = 1
                /\ \A c \in at : c.doc = d /\ (own # None => c.heading = own)

\* A collection is empty or the whole of what one build read: nobody retrieves from half
\* of one (build).
EmptyOrWhole ==
  collection # None =>
    collection.chunks = {} \/ WholeIn(collection.chunks, collection.corpus)

\* What a retrieval found is of one build, and no more than it asked for; an error the
\* strategy has no answer for needs a failure, or a build meanwhile; and nothing is found
\* in a collection only if a build has left it without chunks (retrieve).
RetrievalsHold ==
  \A t \in Thread :
    /\ caller[t].end = "found" =>
         /\ Cardinality(caller[t].found) \in 1 .. TopK
         /\ \E corpus \in Corpora : caller[t].found \subseteq ChunksOf(corpus)
    /\ caller[t].end = "raised" => mishaps > 0 \/ builds > 0
    /\ caller[t].end = "empty" => builds > 0
=============================================================================
