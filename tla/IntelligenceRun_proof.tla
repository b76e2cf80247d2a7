------------------------- MODULE IntelligenceRun_proof -------------------------
(***************************************************************************)
(* Proofs about the story intelligence run, for any number of invocations, *)
(* posts, captions and stories: a citation rests on a post of its story;   *)
(* a signature covers the story's posts unless a run overwrote the story;  *)
(* and while the lease excludes, none does, posts stay in their stories,   *)
(* and each story has one seed.                                            *)
(***************************************************************************)
EXTENDS IntelligenceRun, FiniteSetTheorems, WellFoundedInduction, TLAPS

Row == [status : {"ABSENT", "OPEN", "ACTIVE", "STALE", "ARCHIVED"}, first : Nat, last : Nat,
        sig : Signature]
Known == [status : {"ABSENT", "OPEN", "ACTIVE", "STALE", "ARCHIVED"}, first : Nat, last : Nat,
          sig : Signature, members : SUBSET Posts]
Contexts == UNION {[S -> Known] : S \in SUBSET Clusters}
Steps == {"idle", "announce", "posts", "contexts", "post", "member", "split", "succeed", "failed",
          "release"}
Task == [pc : Steps, at : 0..Horizon, todo : SUBSET Posts, read : [Posts -> Words], deep : SUBSET Posts, known : Contexts,
         seen : SUBSET Clusters, target : Clusters \cup {NoCluster}, method : Methods,
         cites : SUBSET Citations, count : Nat]

\* A run that is about to write a membership has a post to write it for and a
\* cluster to write it into; the model was only asked about a cluster it knew.
Targeted(t) ==
    /\ t.pc \in {"member", "split"} => t.todo # {}
    /\ t.pc = "member" => /\ t.target \in Clusters /\ t.method \in {"SEED", "AI"}
                          /\ t.method = "AI" => t.target \in DOMAIN t.known

TypeInv ==
    /\ TypeOK
    /\ cluster \in [Clusters -> Row]
    /\ task \in [Runs -> Task]
    /\ lock \in [run : Runs \cup {NoRun}, until : Nat, beat : Nat]
    /\ faults \in Nat /\ exclusive \in BOOLEAN
    /\ caption \in [Posts -> Words] /\ placed \in [Posts -> Words]
    /\ \A r \in Runs : Targeted(task[r])

\* While the lease excludes there is one live invocation, and what it has read still
\* holds: the posts it is to place have no story, it knows each story's signature, and
\* the story it has opened for a post is still empty.
Alone == \A r, s \in Runs : Live(r) /\ Live(s) => r = s

Placing(t) == t.pc \in {"post", "member", "split"}

Current(r) ==
    Placing(task[r]) =>
        /\ \A p \in task[r].todo : member[p].cluster = NoCluster
        /\ \A c \in DOMAIN task[r].known :
              cluster[c].status # "ABSENT" /\ task[r].known[c].sig = cluster[c].sig
        /\ task[r].pc = "member" /\ task[r].method = "SEED" =>
              MembersOf(task[r].target) = {} /\ task[r].target \notin DOMAIN task[r].known
        /\ task[r].pc = "member" => cluster[task[r].target].status # "ABSENT"

\* Only a cluster that was created has members.
MembersExist ==
    \A p \in Posts : member[p].cluster # NoCluster => cluster[member[p].cluster].status # "ABSENT"

\* What is kept of a story covers the words of its posts unless it was overwritten, and one
\* of them is its seed.
KindsOfWord == {"entities", "events", "sources", "numbers"}
Covers(sig, words) == \A k \in KindsOfWord : words[k] \subseteq sig[k]

Covered ==
    \A p \in Posts : member[p].cluster # NoCluster /\ member[p].cluster \notin overwritten =>
        Covers(cluster[member[p].cluster].sig, placed[p])

\* A run that places posts knows stories that were created, and places posts into such.
Knows(r) ==
    Placing(task[r]) =>
        /\ \A c \in DOMAIN task[r].known : cluster[c].status # "ABSENT"
        /\ task[r].pc = "member" => cluster[task[r].target].status # "ABSENT"

StoryInv == MembersExist /\ Covered /\ \A r \in Runs : Knows(r)

SeedsOf(c) == {p \in MembersOf(c) : member[p].method = "SEED"}
Seeded(c) == MembersOf(c) = {} \/ \E p \in Posts : SeedsOf(c) = {p}

ExclusiveInv ==
    exclusive =>
        /\ Alone /\ MembersExist /\ overwritten = {}
        /\ \A c \in Clusters : Seeded(c)
        /\ \A r \in Runs : Current(r)

-----------------------------------------------------------------------------
(* Choices.                                                                *)

\* A finite set of numbers has one whose value is the greatest, and of those the
\* least.
Beats(f, b, o) == f[b] > f[o] \/ (f[b] = f[o] /\ b <= o)
Beaten(f, T) == \E b \in T : \A o \in T : Beats(f, b, o)

LEMMA BestExists ==
  ASSUME NEW S \in SUBSET Int, IsFiniteSet(S), S # {}, NEW f \in [S -> Int]
  PROVE  \E b \in S : \A o \in S : Beats(f, b, o)
<1> DEFINE Bad == {T \in SUBSET S : T # {} /\ ~Beaten(f, T)}
<1> SUFFICES Bad = {}
  BY DEF Beaten
<1> SUFFICES ASSUME Bad # {} PROVE FALSE
  OBVIOUS
<1>1. Bad \subseteq FiniteSubsetsOf(S)
  BY FS_FiniteSubsetsOfFinite
<1>2. \E D \in Bad : \A E \in Bad : <<E, D>> \notin StrictSubsetOrdering(S)
  <2> HIDE DEF Bad
  <2> QED
    BY <1>1, FS_StrictSubsetOrderingWellFounded, WFMin, Zenon
<1>3. PICK D \in SUBSET S : D # {} /\ ~Beaten(f, D)
                 /\ \A E \in Bad : <<E, D>> \notin StrictSubsetOrdering(S)
  BY <1>2
<1>4. PICK x \in D : TRUE
  BY <1>3
<1> DEFINE E == D \ {x}
<1>5. E \notin Bad
  <2>1. E \subseteq D /\ E # D /\ E \subseteq S
    BY <1>3, <1>4
  <2> HIDE DEF E
  <2> QED
    BY <1>3, <2>1 DEF StrictSubsetOrdering
<1>6. CASE E = {}
  <2>1. D = {x} /\ f[x] \in Int /\ x \in Int
    BY <1>3, <1>4, <1>6
  <2>2. Beats(f, x, x)
    BY <2>1 DEF Beats
  <2> QED
    BY <1>3, <2>1, <2>2 DEF Beaten
<1>7. CASE E # {}
  <2>1. PICK b \in E : \A o \in E : Beats(f, b, o)
    BY <1>5, <1>7 DEF Beaten
  <2>2. \A o \in D : f[o] \in Int /\ o \in Int
    OBVIOUS
  <2>3. CASE Beats(f, b, x)
    BY <1>3, <2>1, <2>3 DEF Beaten
  <2>4. CASE ~Beats(f, b, x)
    <3>1. Beats(f, x, x) /\ \A o \in E : Beats(f, x, o)
      BY <1>4, <2>1, <2>2, <2>4 DEF Beats
    <3> QED
      BY <1>3, <1>4, <3>1 DEF Beaten
  <2> QED
    BY <2>3, <2>4
<1> QED
  BY <1>6, <1>7

LEMMA MaxIsGreatest ==
  ASSUME NEW S \in SUBSET Int, IsFiniteSet(S), S # {}
  PROVE  Max(S) \in S /\ \A x \in S : Max(S) >= x
<1> DEFINE f == [x \in S |-> x]
<1>1. f \in [S -> Int]
  OBVIOUS
<1>2. PICK b \in S : \A o \in S : Beats(f, b, o)
  <2> HIDE DEF f
  <2> QED
    BY <1>1, BestExists
<1>3. \A o \in S : b >= o
  BY <1>2 DEF Beats
<1> QED
  BY <1>3 DEF Max

LEMMA LeastAndGreatestOfTwo ==
  ASSUME NEW a \in Nat, NEW b \in Nat
  PROVE  Min({a, b}) \in Nat /\ Max({a, b}) \in Nat
<1>1. \E x \in {a, b} : \A y \in {a, b} : x <= y
  BY a <= b \/ b <= a
<1>2. \E x \in {a, b} : \A y \in {a, b} : x >= y
  BY a <= b \/ b <= a
<1>3. Min({a, b}) \in {a, b} /\ Max({a, b}) \in {a, b}
  BY <1>1, <1>2 DEF Min, Max
<1> QED
  BY <1>3

-----------------------------------------------------------------------------
(* What a post is compared with.                                           *)

LEMMA SimilarityIsNumber ==
  ASSUME NEW f \in Features, NEW sig \in Signature
  PROVE  CaptionSimilarity(f, sig) \in Int
<1>1. /\ IsFiniteSet(Terms) /\ f.words.tokens \in SUBSET Terms
      /\ sig.captions \in SUBSET SUBSET Terms
  BY MatchingAssumption DEF Features, Words, Signature
<1>2. IsFiniteSet(sig.captions)
  BY <1>1, FS_SUBSET, FS_Subset
<1>3. ASSUME NEW c \in sig.captions
      PROVE  Jaccard(f.words.tokens, c) \in Int
  <2> DEFINE a == f.words.tokens
  <2>1. CASE a = {} \/ c = {}
    BY <2>1 DEF Jaccard
  <2>2. CASE ~(a = {} \/ c = {})
    <3>1. IsFiniteSet(a \cap c) /\ IsFiniteSet(a \cup c) /\ a \cup c # {}
      BY <1>1, <2>2, FS_Subset
    <3>2. Cardinality(a \cap c) \in Nat /\ Cardinality(a \cup c) \in Nat \ {0}
      BY <3>1, FS_CardinalityType, FS_EmptySet
    <3>3. \A n \in Nat, m \in Nat \ {0} : (100 * n) \div m \in Int
      OBVIOUS
    <3>4. Jaccard(a, c) = (100 * Cardinality(a \cap c)) \div Cardinality(a \cup c)
      BY <2>2 DEF Jaccard
    <3> QED
      BY <3>2, <3>3, <3>4
  <2> QED
    BY <2>1, <2>2
<1> DEFINE g == [c \in sig.captions |-> Jaccard(f.words.tokens, c)]
           G == {g[c] : c \in sig.captions}
           H == {Jaccard(f.words.tokens, c) : c \in sig.captions}
<1>4. G = H
  OBVIOUS
<1>5. IsFiniteSet(G)
  <2>1. g \in Surjection(sig.captions, G)
    BY DEF Surjection
  <2> HIDE DEF g, G
  <2> QED
    BY <1>2, <2>1, FS_Surjection
<1>6. {0} \cup H \in SUBSET Int /\ IsFiniteSet({0} \cup H)
  <2>1. H \in SUBSET Int
    BY <1>3
  <2> HIDE DEF H, G
  <2>2. IsFiniteSet(H \cup {0}) /\ H \cup {0} = {0} \cup H
    BY <1>4, <1>5, FS_AddElement
  <2> QED
    BY <2>1, <2>2
<1>7. Max({0} \cup H) \in Int
  <2> HIDE DEF H
  <2> QED
    BY <1>6, MaxIsGreatest
<1> QED
  BY <1>7 DEF CaptionSimilarity

LEMMA ScoreIsNumber ==
  ASSUME NEW f \in Features, NEW sig \in Signature
  PROVE  Score(f, sig) \in Int
<1>1. TimeProximity(f, sig) \in Int
  <2>1. f.at \in Nat /\ sig.first \in Nat /\ sig.last \in Nat /\ SignalSpan \in Nat \ {0}
    BY MatchingAssumption DEF Features, Signature
  <2> DEFINE d == IF f.at < sig.first THEN sig.first - f.at
                  ELSE IF f.at > sig.last THEN f.at - sig.last ELSE 0
  <2>2. d \in Int
    BY <2>1
  <2>3. TimeProximity(f, sig) = IF d >= SignalSpan THEN 0 ELSE (100 * (SignalSpan - d)) \div SignalSpan
    BY DEF TimeProximity
  <2> HIDE DEF d
  <2>4. (100 * (SignalSpan - d)) \div SignalSpan \in Int
    BY <2>1, <2>2
  <2> QED
    BY <2>3, <2>4
<1>2. CaptionSimilarity(f, sig) \in Int
  BY SimilarityIsNumber
<1> QED
  BY <1>1, <1>2 DEF Score

\* The signatures a run writes cover the words they are made of.
LEMMA SignaturesCover ==
  ASSUME NEW f \in Features
  PROVE  /\ SeedSignature(f) \in Signature /\ Covers(SeedSignature(f), f.words)
         /\ \A sig \in Signature :
              /\ MergeSignature(sig, f) \in Signature /\ Covers(MergeSignature(sig, f), f.words)
              /\ Covers(MergeSignature(sig, f), sig)
<1>1. f.at \in Nat /\ f.words \in Words
  BY DEF Features
<1>2. SeedSignature(f) \in Signature /\ Covers(SeedSignature(f), f.words)
  BY <1>1 DEF SeedSignature, Signature, Words, Covers, KindsOfWord
<1>3. ASSUME NEW sig \in Signature
      PROVE  /\ MergeSignature(sig, f) \in Signature /\ Covers(MergeSignature(sig, f), f.words)
             /\ Covers(MergeSignature(sig, f), sig)
  <2>1. Min({sig.first, f.at}) \in Nat /\ Max({sig.last, f.at}) \in Nat
    BY <1>1, LeastAndGreatestOfTwo DEF Signature
  <2> QED
    BY <1>1, <2>1 DEF MergeSignature, Signature, Words, Covers, KindsOfWord
<1> QED
  BY <1>2, <1>3

\* The features of a post say at least what the caption says that the run has read.
LEMMA FeaturesCoverCaption ==
  ASSUME TypeInv, NEW r \in Runs, NEW p \in Posts
  PROVE  /\ FeaturesOf(r, p) \in Features
         /\ \A k \in KindsOfWord : task[r].read[p][k] \subseteq FeaturesOf(r, p).words[k]
<1> DEFINE words == task[r].read[p]
<1>1. /\ words \in Words /\ FoundIn[p] \in Words /\ PublishedAt[p] \in Nat
      /\ DOMAIN words = {"entities", "events", "sources", "numbers", "tokens"}
  <2>1. task[r].read \in [Posts -> Words]
    BY DEF TypeInv, Task
  <2> QED
    BY <2>1, IntelligenceAssumption DEF Words
<1> DEFINE u == Understanding(r, p)
           w == [k \in DOMAIN words |-> words[k] \cup u[k]]
<1>2. \A k \in DOMAIN words : u[k] \in SUBSET Terms
  BY <1>1 DEF Understanding, Words
<1>3. /\ DOMAIN w = DOMAIN words /\ w = [k \in DOMAIN words |-> w[k]]
      /\ \A k \in DOMAIN words : w[k] \in SUBSET Terms /\ words[k] \subseteq w[k]
  <2>1. \A k \in DOMAIN words : words[k] \in SUBSET Terms
    BY <1>1 DEF Words
  <2> QED
    BY <1>2, <2>1
<1>4. w \in Words
  <2> HIDE DEF w, u, words
  <2> QED
    BY <1>1, <1>3 DEF Words
<1>5. FeaturesOf(r, p) = [words |-> w, at |-> PublishedAt[p]]
  BY DEF FeaturesOf, ExtractFeatures
<1> HIDE DEF w
<1> QED
  BY <1>1, <1>3, <1>4, <1>5 DEF Features, KindsOfWord

\* The ids of posts and stories are numbers; no story has the id that says none.
LEMMA IdsAreNumbers ==
  /\ Posts \in SUBSET Int /\ IsFiniteSet(Posts)
  /\ Clusters \in SUBSET Int /\ IsFiniteSet(Clusters) /\ NoCluster \notin Clusters
<1>1. Posts \subseteq Nat /\ Clusters \subseteq Nat \ {0}
  BY IntelligenceAssumption
<1>2. Posts \in SUBSET Int /\ Clusters \in SUBSET Int /\ NoCluster \notin Clusters
  BY <1>1 DEF NoCluster
<1> QED
  BY <1>2, IntelligenceAssumption

\* What a run holds.
LEMMA TasksAreTyped ==
  ASSUME TypeInv, NEW r \in Runs
  PROVE  /\ task[r] \in Task /\ task[r].todo \in SUBSET Posts /\ task[r].at \in 0..Horizon
         /\ \E D \in SUBSET Clusters : task[r].known \in [D -> Known]
<1>1. task[r] \in Task
  BY DEF TypeInv
<1>2. task[r].known \in Contexts /\ task[r].todo \in SUBSET Posts /\ task[r].at \in 0..Horizon
  BY <1>1 DEF Task
<1> QED
  BY <1>1, <1>2 DEF Contexts

\* The oldest post of a list is one of the list.
LEMMA NextPostIsListed ==
  ASSUME TypeInv, NEW r \in Runs, task[r].todo # {}
  PROVE  NextPost(r) \in task[r].todo /\ NextPost(r) \in Posts
<1> DEFINE T == task[r].todo
           f == [p \in T |-> -PublishedAt[p]]
<1>1. T \in SUBSET Posts /\ T \in SUBSET Int /\ IsFiniteSet(T) /\ T # {}
  <2>1. T \in SUBSET Posts /\ T # {}
    BY TasksAreTyped
  <2> HIDE DEF T
  <2> QED
    BY <2>1, IdsAreNumbers, FS_Subset
<1>2. \A p \in T : PublishedAt[p] \in Nat
  BY <1>1, IntelligenceAssumption
<1>3. f \in [T -> Int]
  BY <1>2
<1>4. PICK b \in T : \A o \in T : Beats(f, b, o)
  <2> HIDE DEF f, T
  <2> QED
    BY <1>1, <1>3, BestExists
<1>5. \A o \in T : PublishedAt[b] < PublishedAt[o] \/ (PublishedAt[b] = PublishedAt[o] /\ b =< o)
  <2>1. ASSUME NEW o \in T
        PROVE  PublishedAt[b] < PublishedAt[o] \/ (PublishedAt[b] = PublishedAt[o] /\ b =< o)
    <3>1. f[b] > f[o] \/ (f[b] = f[o] /\ b =< o)
      BY <1>4 DEF Beats
    <3>2. f[b] = -PublishedAt[b] /\ f[o] = -PublishedAt[o]
      OBVIOUS
    <3> HIDE DEF f
    <3> QED
      BY <1>2, <3>1, <3>2
  <2> QED
    BY <2>1
<1>6. NextPost(r) \in T
  BY <1>5 DEF NextPost
<1> QED
  BY <1>1, <1>6

\* The best rival of a post is a story the run knows.
LEMMA BestRivalIsKnown ==
  ASSUME TypeInv, NEW r \in Runs, NEW p \in Posts, DecisionFor(r, p) # "SEPARATE"
  PROVE  /\ BestRival(r, p) \in DOMAIN task[r].known /\ BestRival(r, p) \in Clusters
         /\ task[r].known[BestRival(r, p)] \in Known
<1> DEFINE R == Rivals(r, p)
           f == [c \in R |-> Score(FeaturesOf(r, p), task[r].known[c].sig)]
<1>1. PICK D \in SUBSET Clusters : task[r].known \in [D -> Known]
  BY TasksAreTyped
<1>2. R \subseteq D /\ R \in SUBSET Int /\ IsFiniteSet(R)
  <2>1. R \subseteq D
    BY <1>1 DEF Rivals
  <2> HIDE DEF R
  <2>2. R \in SUBSET Clusters
    BY <2>1
  <2> QED
    BY <2>1, <2>2, IdsAreNumbers, FS_Subset
<1>3. R # {}
  BY DEF DecisionFor
<1>4. f \in [R -> Int]
  <2>1. \A c \in R : task[r].known[c].sig \in Signature
    BY <1>1, <1>2 DEF Known
  <2> QED
    BY <2>1, FeaturesCoverCaption, ScoreIsNumber
<1>5. PICK b \in R : \A o \in R : Beats(f, b, o)
  <2> HIDE DEF f, R
  <2> QED
    BY <1>2, <1>3, <1>4, BestExists
<1>6. BestRival(r, p) \in R
  BY <1>5 DEF BestRival, Beats
<1> QED
  BY <1>1, <1>2, <1>6

-----------------------------------------------------------------------------
(* Types.                                                                  *)

\* A step of r leaves the other invocations alone.
Moves(r) ==
    /\ task' \in [Runs -> Task] /\ \A s \in Runs \ {r} : task'[s] = task[s]
    /\ Targeted(task'[r]) /\ faults' \in Nat

LEMMA Moving ==
  ASSUME TypeInv, NEW r \in Runs, NEW t \in Task, Targeted(t), task' = [task EXCEPT ![r] = t],
         faults' \in Nat
  PROVE  Moves(r) /\ task'[r] = t
BY DEF TypeInv, Moves

LEMMA Failing ==
  ASSUME TypeInv, NEW r \in Runs, task' = [task EXCEPT ![r].pc = "failed"], faults' \in Nat
  PROVE  Moves(r) /\ task'[r].pc = "failed"
<1> DEFINE t == [task[r] EXCEPT !.pc = "failed"]
<1>1. t \in Task /\ Targeted(t) /\ t.pc = "failed"
  <2>1. task[r] \in Task
    BY DEF TypeInv
  <2>2. t \in Task /\ t.pc = "failed"
    BY <2>1 DEF Task, Steps
  <2> HIDE DEF t
  <2> QED
    BY <2>2 DEF Targeted
<1>2. task' = [task EXCEPT ![r] = t]
  OBVIOUS
<1> HIDE DEF t
<1> QED
  BY <1>1, <1>2, Moving

LEMMA IdleIsTyped ==
  Idle \in Task /\ Targeted(Idle) /\ ~Placing(Idle)
<1>1. Idle.known \in Contexts
  <2>1. <<>> \in [{} -> Known]
    OBVIOUS
  <2> QED
    BY <2>1 DEF Contexts, Idle
<1>2. 0 \in 0..Horizon
  BY IntelligenceAssumption
<1>3. Unread \in [Posts -> Words]
  BY DEF Unread, NoWords, Words
<1> QED
  BY <1>1, <1>2, <1>3 DEF Idle, Task, Steps, Methods, Targeted, Placing

\* The call is answered, or it failed.
LEMMA Proceeding ==
  ASSUME TypeInv, NEW r \in Runs, NEW t \in Task, Targeted(t), Proceed(r, t)
  PROVE  Moves(r) /\ (task'[r] = t \/ task'[r].pc = "failed")
<1>1. faults' \in Nat
  BY DEF Proceed, TypeInv
<1> QED
  BY <1>1, Moving, Failing DEF Proceed

TablesTyped ==
    /\ cluster \in [Clusters -> Row]
    /\ member \in [Posts -> [cluster : Clusters \cup {NoCluster}, method : Methods]]
    /\ citation \subseteq Citations
    /\ \A x \in verdict : x.decision \in Verdicts
    /\ candidate \in [Days -> SUBSET Clusters]

LEMMA StaysTyped ==
  ASSUME TypeInv, NEW r \in Runs, Moves(r), UNCHANGED <<now, collected, caption, analysed>>, TablesTyped',
         lock' \in [run : Runs \cup {NoRun}, until : Nat, beat : Nat], exclusive' \in BOOLEAN,
         placed' \in [Posts -> Words]
  PROVE  TypeInv'
<1>1. \A s \in Runs : Targeted(task'[s])
  BY DEF Moves, TypeInv
<1>2. \A s \in Runs : task'[s].todo \subseteq Posts /\ task'[s].seen \subseteq Clusters
  BY DEF Moves, Task
<1>3. \A c \in Clusters : /\ cluster'[c].status \in {"ABSENT", "OPEN", "ACTIVE", "STALE", "ARCHIVED"}
                          /\ cluster'[c].sig \in Signature
  BY DEF TablesTyped, Row
<1>4. /\ now' \in 0..Horizon /\ lock'.run \in Runs \cup {NoRun}
      /\ analysed' \subseteq collected' /\ collected' \subseteq Posts
  BY DEF TypeInv, TypeOK
<1>5. TypeOK'
  BY <1>2, <1>3, <1>4 DEF TypeOK, TablesTyped
<1> QED
  BY <1>1, <1>5 DEF TypeInv, TablesTyped, Moves

\* What a step of r does to the stories and to what r knows of them.

\* Nothing, though the run may go on with fewer posts, or with an answer of the model.
Follows(t, u) ==
    /\ u.todo \subseteq t.todo /\ u.known = t.known
    /\ u.pc = "member" => u.method = "AI"

Rests(r) ==
    /\ UNCHANGED <<cluster, member, citation, placed, overwritten>>
    /\ Placing(task'[r]) => Placing(task[r]) /\ Follows(task[r], task'[r])

\* It reads them.
Reads(r) ==
    /\ UNCHANGED <<cluster, member, citation, placed, overwritten>>
    /\ Placing(task'[r]) =>
         /\ task'[r].pc = "post"
         /\ \A p \in task'[r].todo : member[p].cluster = NoCluster
         /\ \A c \in DOMAIN task'[r].known :
              c \in Clusters /\ cluster[c].status # "ABSENT" /\ task'[r].known[c].sig = cluster[c].sig

\* It opens one.
Opens(r, c) ==
    /\ UNCHANGED <<member, citation, placed, overwritten>>
    /\ Placing(task[r])
    /\ cluster[c].status = "ABSENT" /\ cluster'[c].status = "OPEN"
    /\ \A o \in Clusters \ {c} : cluster'[o] = cluster[o]
    /\ Placing(task'[r]) =>
         /\ task'[r].todo = task[r].todo /\ task'[r].known = task[r].known
         /\ task'[r].pc = "member" /\ task'[r].target = c /\ task'[r].method = "SEED"

\* It puts a post into one: its own new one, or one it knows.
Places(r, p, c, method, sig) ==
    /\ UpsertMembership(r, p, c, method, sig)
    /\ placed' = [placed EXCEPT ![p] = task[r].read[p]]
    /\ overwritten' = (IF Outdated(r, c, method) THEN overwritten \cup {c} ELSE overwritten)
    /\ Placing(task[r]) /\ p \in task[r].todo
    /\ sig \in Signature /\ Covers(sig, task[r].read[p])
    /\ \/ task[r].pc = "member" /\ task[r].target = c /\ task[r].method = "SEED" /\ method = "SEED"
       \/ /\ c \in DOMAIN task[r].known /\ Covers(sig, task[r].known[c].sig)
          /\ method \in {"DETERMINISTIC", "AI"}
    /\ Placing(task'[r]) =>
         /\ task'[r].pc = "post" /\ task'[r].todo = task[r].todo \ {p}
         /\ DOMAIN task'[r].known = DOMAIN task[r].known \cup {c}
         /\ task'[r].known[c].sig = sig
         /\ \A o \in DOMAIN task[r].known \ {c} : task'[r].known[o] = task[r].known[o]

\* It cites a source for one.
Cites(r) ==
    /\ UNCHANGED <<cluster, member, placed, overwritten>>
    /\ \E x \in Citations :
         /\ Citable(x.cluster, x.post)
         /\ citation' = {y \in citation : y.cluster # x.cluster \/ y.source # x.source} \cup {x}
    /\ Placing(task'[r]) =>
         /\ Placing(task[r]) /\ task'[r].todo = task[r].todo /\ task'[r].known = task[r].known
         /\ task'[r].pc = "post"

\* It lets them age.
Ages(r) ==
    /\ UNCHANGED <<member, citation, placed, overwritten>>
    /\ \A c \in Clusters : /\ cluster'[c].sig = cluster[c].sig
                           /\ cluster'[c].status = "ABSENT" <=> cluster[c].status = "ABSENT"
    /\ ~Placing(task'[r])

Does(r) ==
    /\ Moves(r) /\ TypeInv'
    /\ \/ Rests(r) \/ Reads(r) \/ Cites(r) \/ Ages(r)
       \/ \E c \in Clusters : Opens(r, c)
       \/ \E p \in Posts : \E c \in Clusters : \E method \in Methods : \E sig \in Signature :
            Places(r, p, c, method, sig)

LEMMA TablesAreTyped ==
  ASSUME TypeInv
  PROVE  TablesTyped /\ lock \in [run : Runs \cup {NoRun}, until : Nat, beat : Nat]
BY DEF TypeInv, TypeOK, TablesTyped

\* Steps that touch no story and read none.
LEMMA BookkeepingRests ==
  ASSUME TypeInv, NEW r \in Runs, Announce(r) \/ Succeed(r) \/ ReportFailure(r) \/ Release(r)
  PROVE  Does(r)
<1>0. TablesTyped /\ lock \in [run : Runs \cup {NoRun}, until : Nat, beat : Nat] /\ task[r] \in Task
  BY TablesAreTyped, TasksAreTyped
<1>1. ASSUME NEW pc \in {"posts", "release"}, Proceed(r, [task[r] EXCEPT !.pc = pc])
      PROVE  Moves(r) /\ ~Placing(task'[r])
  <2> DEFINE t == [task[r] EXCEPT !.pc = pc]
  <2>1. t \in Task /\ Targeted(t) /\ ~Placing(t)
    BY <1>0 DEF Task, Steps, Targeted, Placing
  <2> HIDE DEF t
  <2>2. Proceed(r, t)
    BY <1>1 DEF t
  <2> QED
    BY <2>1, <2>2, Proceeding DEF Placing
<1>2. CASE Announce(r) \/ Succeed(r)
  <2>1. /\ Moves(r) /\ ~Placing(task'[r])
        /\ UNCHANGED <<now, collected, caption, analysed, cluster, member, citation, verdict, candidate, lock,
                       history>>
    BY <1>1, <1>2 DEF Announce, Succeed, world, history
  <2>2. TypeInv'
    BY <1>0, <2>1, StaysTyped DEF TablesTyped, TypeInv, history
  <2> QED
    BY <2>1, <2>2 DEF Does, Rests, history
<1>3. CASE ReportFailure(r)
  <2> DEFINE t == [task[r] EXCEPT !.pc = "release"]
  <2>1. t \in Task /\ Targeted(t) /\ ~Placing(t)
    BY <1>0 DEF Task, Steps, Targeted, Placing
  <2>2. task' = [task EXCEPT ![r] = t] /\ faults' \in Nat
    BY <1>3 DEF ReportFailure, TypeInv
  <2>3. Moves(r) /\ ~Placing(task'[r])
    <3> HIDE DEF t
    <3> QED
      BY <2>1, <2>2, Moving
  <2>4. UNCHANGED <<now, collected, caption, analysed, cluster, member, citation, verdict, candidate, lock,
                    history>>
    BY <1>3 DEF ReportFailure, world, history
  <2>5. TypeInv'
    BY <1>0, <2>3, <2>4, StaysTyped DEF TablesTyped, TypeInv, history
  <2> QED
    BY <2>3, <2>4, <2>5 DEF Does, Rests, history
<1>4. CASE Release(r)
  <2>1. Moves(r) /\ ~Placing(task'[r])
    <3>1. task' = [task EXCEPT ![r] = Idle] /\ faults' \in Nat
      BY <1>4 DEF Release, TypeInv
    <3> QED
      BY <3>1, IdleIsTyped, Moving
  <2>2. UNCHANGED <<now, collected, caption, analysed, cluster, member, citation, verdict, candidate, history>>
    BY <1>4 DEF Release, world, history, tables
  <2>3. lock' \in [run : Runs \cup {NoRun}, until : Nat, beat : Nat]
    BY <1>0, <1>4 DEF Release, Released, Free
  <2>4. TypeInv'
    BY <1>0, <2>1, <2>2, <2>3, StaysTyped DEF TablesTyped, TypeInv, history
  <2> QED
    BY <2>1, <2>2, <2>4 DEF Does, Rests, history
<1> QED
  BY <1>2, <1>3, <1>4

LEMMA FaultsRest ==
  ASSUME TypeInv, NEW r \in Runs, Fails(r) \/ Kill(r)
  PROVE  Does(r)
<1>0. TablesTyped /\ lock \in [run : Runs \cup {NoRun}, until : Nat, beat : Nat]
  BY TablesAreTyped
<1>1. Moves(r) /\ ~Placing(task'[r])
  BY IdleIsTyped, Moving, Failing DEF Fails, Kill, TypeInv, Placing
<1>2. UNCHANGED <<now, collected, caption, analysed, cluster, member, citation, verdict, candidate, lock,
                  history>>
  BY DEF Fails, Kill, world, history, tables
<1>3. TypeInv'
  BY <1>0, <1>1, <1>2, StaysTyped DEF TablesTyped, TypeInv, history
<1> QED
  BY <1>1, <1>2, <1>3 DEF Does, Rests, history

LEMMA ListingRests ==
  ASSUME TypeInv, NEW r \in Runs, ListRecentPosts(r)
  PROVE  Does(r)
<1>0. /\ TablesTyped /\ lock \in [run : Runs \cup {NoRun}, until : Nat, beat : Nat]
      /\ task[r] \in Task /\ analysed \subseteq Posts /\ collected \subseteq Posts
  BY TablesAreTyped, TasksAreTyped DEF TypeInv, TypeOK
<1> DEFINE recent == {p \in collected : PublishedAt[p] + SignalSpan >= task[r].at /\ PublishedAt[p] =< task[r].at}
           read == [p \in Posts |-> IF p \in recent THEN caption[p] ELSE NoWords]
<1>1. PICK deep \in SUBSET Posts :
        Proceed(r, [task[r] EXCEPT !.pc = "contexts", !.deep = deep, !.todo = recent, !.read = read])
  BY <1>0 DEF ListRecentPosts
<1>6. recent \in SUBSET Posts /\ read \in [Posts -> Words]
  BY <1>0 DEF TypeInv, NoWords, Words
<1> HIDE DEF recent, read
<1> DEFINE t == [task[r] EXCEPT !.pc = "contexts", !.deep = deep, !.todo = recent, !.read = read]
<1>2. t \in Task /\ Targeted(t) /\ ~Placing(t)
  BY <1>0, <1>6 DEF Task, Steps, Targeted, Placing
<1>3. Moves(r) /\ ~Placing(task'[r])
  <2> HIDE DEF t
  <2>1. Proceed(r, t)
    BY <1>1 DEF t
  <2> QED
    BY <1>2, <2>1, Proceeding DEF Placing
<1>4. UNCHANGED <<now, collected, caption, analysed, cluster, member, citation, verdict, candidate, lock,
                  history>>
  BY DEF ListRecentPosts, world, history, tables
<1>5. TypeInv'
  BY <1>0, <1>3, <1>4, StaysTyped DEF TablesTyped, TypeInv, history
<1> QED
  BY <1>3, <1>4, <1>5 DEF Does, Rests, history

LEMMA ReadingReads ==
  ASSUME TypeInv, NEW r \in Runs, ListClusterContexts(r)
  PROVE  Does(r)
<1>0. /\ TablesTyped /\ lock \in [run : Runs \cup {NoRun}, until : Nat, beat : Nat]
      /\ task[r] \in Task
  BY TablesAreTyped, TasksAreTyped
<1> DEFINE D == {c \in Clusters : cluster[c].status # "ABSENT"}
           known == [c \in D |-> Context(cluster[c], MembersOf(c))]
           todo == {p \in task[r].todo : member[p].cluster = NoCluster}
           t == [task[r] EXCEPT !.pc = "post", !.known = known, !.todo = todo]
<1>1. known \in [D -> Known] /\ DOMAIN known = D /\ \A c \in D : known[c].sig = cluster[c].sig
  <2>1. ASSUME NEW c \in D
        PROVE  Context(cluster[c], MembersOf(c)) \in Known
    BY <1>0 DEF TablesTyped, Row, Known, Context, MembersOf
  <2> QED
    BY <2>1 DEF Context
<1>2. known \in Contexts /\ todo \in SUBSET Posts
  <2>1. D \in SUBSET Clusters
    OBVIOUS
  <2>2. todo \in SUBSET Posts
    BY TasksAreTyped
  <2> HIDE DEF D, known
  <2> QED
    BY <1>1, <2>1, <2>2 DEF Contexts
<1>3. t \in Task /\ Targeted(t) /\ t.pc = "post" /\ t.known = known /\ t.todo = todo
  <2> HIDE DEF known, todo
  <2> QED
    BY <1>0, <1>2 DEF Task, Steps, Targeted
<1>4. Moves(r) /\ (task'[r] = t \/ task'[r].pc = "failed")
  <2>1. Proceed(r, t)
    BY DEF ListClusterContexts
  <2> HIDE DEF t
  <2> QED
    BY <1>3, <2>1, Proceeding
<1>5. UNCHANGED <<now, collected, caption, analysed, cluster, member, citation, verdict, candidate, lock,
                  history>>
  BY DEF ListClusterContexts, world, history, tables
<1>6. TypeInv'
  BY <1>0, <1>4, <1>5, StaysTyped DEF TablesTyped, TypeInv, history
<1>7. Reads(r)
  <2>1. /\ \A p \in todo : member[p].cluster = NoCluster
        /\ \A c \in D : c \in Clusters /\ cluster[c].status # "ABSENT"
    OBVIOUS
  <2> HIDE DEF D, known, todo, t
  <2> QED
    BY <1>1, <1>3, <1>4, <1>5, <2>1 DEF Reads, Placing, history
<1> QED
  BY <1>4, <1>6, <1>7 DEF Does

\* A post is passed over, or put to the model.
LEMMA AskingRests ==
  ASSUME TypeInv, NEW r \in Runs, SkipPost(r) \/ AskClassifier(r)
  PROVE  Does(r)
<1>0. /\ TablesTyped /\ lock \in [run : Runs \cup {NoRun}, until : Nat, beat : Nat]
      /\ task[r] \in Task /\ task[r].pc = "post" /\ task[r].todo # {}
  BY TablesAreTyped, TasksAreTyped DEF SkipPost, AskClassifier, AtPost
<1>1. NextPost(r) \in Posts
  BY <1>0, NextPostIsListed
<1>2. ASSUME NEW p \in Posts, task' = [task EXCEPT ![r].todo = @ \ {p}], faults' \in Nat
      PROVE  Moves(r) /\ Follows(task[r], task'[r])
  <2> DEFINE t == [task[r] EXCEPT !.todo = @ \ {p}]
  <2>1. t \in Task /\ Targeted(t) /\ Follows(task[r], t)
    BY <1>0 DEF Task, Targeted, Follows
  <2>2. task' = [task EXCEPT ![r] = t]
    BY <1>2
  <2> HIDE DEF t
  <2> QED
    BY <1>2, <2>1, <2>2, Moving
<1>3. CASE SkipPost(r)
  <2>1. Moves(r) /\ Follows(task[r], task'[r])
    BY <1>1, <1>2, <1>3 DEF SkipPost, TypeInv
  <2>2. UNCHANGED <<now, collected, caption, analysed, cluster, member, citation, verdict, candidate, lock,
                    history>>
    BY <1>3 DEF SkipPost, world, history, tables
  <2>3. TypeInv'
    BY <1>0, <2>1, <2>2, StaysTyped DEF TablesTyped, TypeInv, history
  <2> QED
    BY <1>0, <2>1, <2>2, <2>3 DEF Does, Rests, history, Follows, Placing
<1>4. CASE AskClassifier(r)
  <2> DEFINE p == NextPost(r)
             c == BestRival(r, p)
             input == <<FeaturesOf(r, p), task[r].known[c].sig>>
  <2>1. c \in DOMAIN task[r].known /\ c \in Clusters
    BY <1>1, <1>4, BestRivalIsKnown DEF AskClassifier
  <2>2. PICK answer \in Answers, saved \in {"yes", "lost", "no"} :
          LET v == Persisted(answer, saved)
          IN  /\ verdict' = Recorded(p, c, input, IF saved = "no" THEN v ELSE Verdict(answer))
              /\ faults' = faults + (IF saved = "yes" THEN 0 ELSE 1)
              /\ task' = [task EXCEPT ![r] =
                    CASE v = "SAME_STORY" ->
                           [@ EXCEPT !.pc = "member", !.target = c, !.method = "AI"]
                      [] v = "DIFFERENT_STORY" -> [@ EXCEPT !.pc = "split"]
                      [] OTHER -> [@ EXCEPT !.todo = task[r].todo \ {p}]]
    BY <1>4 DEF AskClassifier
  <2> HIDE DEF p, c, input
  <2>3. faults' \in Nat
    BY <2>2 DEF TypeInv
  <2>4. Verdict(answer) \in Verdicts /\ Persisted(answer, saved) \in Verdicts
    BY DEF Verdict, Verdicts, Persisted
  <2>5. \A x \in verdict' : x.decision \in Verdicts
    BY <1>0, <2>2, <2>4 DEF Recorded, TablesTyped
  <2>6. Moves(r) /\ Follows(task[r], task'[r])
    <3>1. CASE Persisted(answer, saved) = "SAME_STORY"
      <4> DEFINE t == [task[r] EXCEPT !.pc = "member", !.target = c, !.method = "AI"]
      <4>1. t \in Task /\ Targeted(t) /\ Follows(task[r], t)
        BY <1>0, <2>1 DEF Task, Steps, Methods, Targeted, Follows
      <4>2. task' = [task EXCEPT ![r] = t]
        BY <2>2, <3>1
      <4> HIDE DEF t
      <4> QED
        BY <2>3, <4>1, <4>2, Moving
    <3>2. CASE Persisted(answer, saved) = "DIFFERENT_STORY"
      <4> DEFINE t == [task[r] EXCEPT !.pc = "split"]
      <4>1. t \in Task /\ Targeted(t) /\ Follows(task[r], t)
        BY <1>0 DEF Task, Steps, Targeted, Follows
      <4>2. task' = [task EXCEPT ![r] = t]
        BY <2>2, <3>2
      <4> HIDE DEF t
      <4> QED
        BY <2>3, <4>1, <4>2, Moving
    <3>3. CASE ~(Persisted(answer, saved) \in {"SAME_STORY", "DIFFERENT_STORY"})
      <4> DEFINE t == [task[r] EXCEPT !.todo = @ \ {p}]
      <4>0. task' = [task EXCEPT ![r] = t]
        <5>1. /\ Persisted(answer, saved) # "SAME_STORY"
              /\ Persisted(answer, saved) # "DIFFERENT_STORY"
          BY <3>3
        <5> QED
          BY <2>2, <5>1
      <4>1. task' = [task EXCEPT ![r].todo = @ \ {p}]
        BY <4>0
      <4> QED
        BY <1>1, <1>2, <2>3, <4>1 DEF p
    <3> QED
      BY <3>1, <3>2, <3>3
  <2>7. UNCHANGED <<now, collected, caption, analysed, cluster, member, citation, candidate, lock, history>>
    BY <1>4 DEF AskClassifier, world, history
  <2>8. TypeInv'
    BY <1>0, <2>5, <2>6, <2>7, StaysTyped DEF TablesTyped, TypeInv, history
  <2> QED
    BY <1>0, <2>6, <2>7, <2>8 DEF Does, Rests, history, Follows, Placing
<1> QED
  BY <1>3, <1>4

LEMMA CreatingOpens ==
  ASSUME TypeInv, NEW r \in Runs, OpenStory(r) \/ SplitStory(r)
  PROVE  Does(r)
<1>0. /\ TablesTyped /\ lock \in [run : Runs \cup {NoRun}, until : Nat, beat : Nat]
      /\ task[r] \in Task /\ task[r].pc \in {"post", "split"} /\ task[r].todo # {}
  BY TablesAreTyped, TasksAreTyped DEF OpenStory, SplitStory, AtPost, TypeInv, Targeted
<1> DEFINE p == NextPost(r)
           f == FeaturesOf(r, p)
           new == [status |-> "OPEN", first |-> f.at, last |-> f.at, sig |-> SeedSignature(f)]
<1>1. f \in Features /\ SeedSignature(f) \in Signature
  BY <1>0, NextPostIsListed, FeaturesCoverCaption, SignaturesCover
<1>2. new \in Row /\ new.status = "OPEN"
  BY <1>1 DEF Row, Features
<1>3. CreateClusterFor(r, task[r])
  BY DEF OpenStory, SplitStory
<1>4. PICK c \in Clusters : /\ cluster[c].status = "ABSENT" /\ cluster' = [cluster EXCEPT ![c] = new]
                            /\ Proceed(r, [task[r] EXCEPT !.pc = "member", !.target = c, !.method = "SEED"])
  BY <1>3 DEF CreateClusterFor
<1> DEFINE t == [task[r] EXCEPT !.pc = "member", !.target = c, !.method = "SEED"]
<1>5. /\ t \in Task /\ Targeted(t) /\ t.todo = task[r].todo /\ t.known = task[r].known
      /\ t.pc = "member" /\ t.target = c /\ t.method = "SEED"
  BY <1>0 DEF Task, Steps, Methods, Targeted
<1>6. Moves(r) /\ (task'[r] = t \/ task'[r].pc = "failed")
  <2>1. Proceed(r, t)
    BY <1>4
  <2> HIDE DEF t
  <2> QED
    BY <1>5, <2>1, Proceeding
<1>7. UNCHANGED <<now, collected, caption, analysed, member, citation, verdict, candidate, lock, history>>
  BY DEF OpenStory, SplitStory, world, history
<1> HIDE DEF new, t
<1>8. /\ cluster' \in [Clusters -> Row] /\ cluster'[c].status = "OPEN"
      /\ \A o \in Clusters \ {c} : cluster'[o] = cluster[o]
  BY <1>0, <1>2, <1>4 DEF TablesTyped
<1>9. TypeInv'
  BY <1>0, <1>6, <1>7, <1>8, StaysTyped DEF TablesTyped, TypeInv, history
<1>10. Opens(r, c)
  BY <1>0, <1>4, <1>5, <1>6, <1>7, <1>8 DEF Opens, Placing, history
<1> QED
  BY <1>6, <1>9, <1>10 DEF Does

\* Citations that move with a post are citations.
LEMMA MovedAreCitations ==
  ASSUME NEW p \in Posts, NEW old, NEW c \in Clusters, citation \subseteq Citations
  PROVE  MoveCitations(p, old, c) \subseteq Citations
<1> DEFINE mine == {x \in citation : x.cluster = old /\ x.post = p}
           twin(x) == {y \in citation : y.cluster = c /\ y.source = x.source}
           moved(x) == IF twin(x) = {} THEN [x EXCEPT !.cluster = c]
                       ELSE LET y == CHOOSE y \in twin(x) : TRUE
                            IN  [y EXCEPT !.count = @ + x.count]
<1>1. ASSUME NEW x \in mine
      PROVE  moved(x) \in Citations
  <2>0. x \in Citations
    OBVIOUS
  <2>1. CASE twin(x) = {}
    BY <2>0, <2>1 DEF Citations
  <2>2. CASE twin(x) # {}
    <3>1. PICK y \in Citations : moved(x) = [y EXCEPT !.count = @ + x.count]
      BY <2>2
    <3>2. y.count \in Nat \ {0} /\ x.count \in Nat \ {0}
      BY <2>0 DEF Citations
    <3>3. y.count + x.count \in Nat \ {0}
      BY <3>2
    <3> QED
      BY <3>1, <3>3 DEF Citations
  <2> QED
    BY <2>1, <2>2
<1>2. MoveCitations(p, old, c) = (citation \ (mine \cup UNION {twin(x) : x \in mine}))
                                 \cup {moved(x) : x \in mine}
  BY DEF MoveCitations
<1> HIDE DEF mine, twin, moved
<1> QED
  BY <1>1, <1>2

\* What a run learns by placing a post.
LEMMA LearnedIsTyped ==
  ASSUME TypeInv, NEW r \in Runs, NEW p \in Posts, NEW c \in Clusters, NEW sig \in Signature
  PROVE  /\ Learned(r, p, c, sig) \in Task /\ Targeted(Learned(r, p, c, sig))
         /\ Learned(r, p, c, sig).pc = "post"
         /\ Learned(r, p, c, sig).todo = task[r].todo \ {p}
         /\ DOMAIN Learned(r, p, c, sig).known = DOMAIN task[r].known \cup {c}
         /\ Learned(r, p, c, sig).known[c].sig = sig
         /\ \A o \in DOMAIN task[r].known \ {c} :
              Learned(r, p, c, sig).known[o] = task[r].known[o]
<1>0. task[r] \in Task
  BY TasksAreTyped
<1>1. PICK D \in SUBSET Clusters : task[r].known \in [D -> Known]
  BY TasksAreTyped
<1> DEFINE t == task[r]
           f == FeaturesOf(r, p)
           was == IF c \in DOMAIN t.known THEN t.known[c]
                  ELSE [status |-> "OPEN", first |-> f.at, last |-> f.at,
                        sig |-> sig, members |-> {}]
           is == [status |-> was.status, first |-> Min({was.first, f.at}),
                  last |-> Max({was.last, f.at}), sig |-> sig, members |-> was.members \cup {p}]
           cited(s) == {x \in t.cites : x.cluster = c /\ x.source = s}
           more == {IF cited(s) = {} THEN [cluster |-> c, source |-> s, post |-> p, count |-> 1]
                    ELSE [(CHOOSE x \in cited(s) : TRUE) EXCEPT !.count = @ + 1] :
                    s \in Cited(f)}
           known == [o \in DOMAIN t.known \cup {c} |-> IF o = c THEN is ELSE t.known[o]]
           cites == (t.cites \ UNION {cited(s) : s \in Cited(f)}) \cup more
<1>2. f \in Features /\ f.at \in Nat
  BY FeaturesCoverCaption DEF Features
<1>3. was \in Known
  BY <1>1, <1>2 DEF Known
<1>4. is \in Known /\ is.sig = sig
  <2> HIDE DEF was, f
  <2>1. Min({was.first, f.at}) \in Nat /\ Max({was.last, f.at}) \in Nat
    BY <1>2, <1>3, LeastAndGreatestOfTwo DEF Known
  <2> QED
    BY <1>3, <2>1 DEF Known
<1>5. known \in Contexts /\ DOMAIN known = D \cup {c} /\ known[c].sig = sig
      /\ \A o \in D \ {c} : known[o] = t.known[o]
  <2>0. DOMAIN t.known = D
    BY <1>1
  <2> HIDE DEF is
  <2>1. known \in [D \cup {c} -> Known]
    BY <1>1, <1>4, <2>0
  <2>2. D \cup {c} \in SUBSET Clusters
    OBVIOUS
  <2>3. DOMAIN known = D \cup {c} /\ known[c].sig = sig /\ \A o \in D \ {c} : known[o] = t.known[o]
    BY <1>4, <2>0
  <2> HIDE DEF known
  <2> QED
    BY <2>1, <2>2, <2>3 DEF Contexts
<1>6. more \subseteq Citations
  <2>1. Cited(f) \subseteq Terms
    BY IntelligenceAssumption DEF Cited
  <2>2. t.cites \subseteq Citations
    BY <1>0 DEF Task
  <2> HIDE DEF f, t
  <2>3. ASSUME NEW s \in Cited(f)
        PROVE  (IF cited(s) = {} THEN [cluster |-> c, source |-> s, post |-> p, count |-> 1]
                ELSE [(CHOOSE x \in cited(s) : TRUE) EXCEPT !.count = @ + 1]) \in Citations
    <3>1. CASE cited(s) = {}
      BY <2>1, <3>1 DEF Citations
    <3>2. CASE cited(s) # {}
      <4>1. PICK x \in Citations : x = CHOOSE y \in cited(s) : TRUE
        BY <2>2, <3>2
      <4>2. x.count + 1 \in Nat \ {0}
        BY DEF Citations
      <4>3. [x EXCEPT !.count = @ + 1] \in Citations
        BY <4>2 DEF Citations
      <4> QED
        BY <3>2, <4>1, <4>3
    <3> QED
      BY <3>1, <3>2
  <2> QED
    BY <2>3
<1>7. cites \in SUBSET Citations
  <2>1. t.cites \subseteq Citations
    BY <1>0 DEF Task
  <2> HIDE DEF more, cited
  <2> QED
    BY <1>6, <2>1
<1>8. Learned(r, p, c, sig) = [task[r] EXCEPT !.pc = "post", !.todo = @ \ {p}, !.seen = @ \cup {c},
                                 !.known = known, !.cites = cites, !.target = NoCluster,
                                 !.method = "NONE"]
  BY DEF Learned
<1>9. DOMAIN task[r].known = D
  BY <1>1
<1> HIDE DEF known, cites
<1> DEFINE new == [task[r] EXCEPT !.pc = "post", !.todo = @ \ {p}, !.seen = @ \cup {c},
                     !.known = known, !.cites = cites, !.target = NoCluster, !.method = "NONE"]
<1>10. /\ new \in Task /\ Targeted(new) /\ new.pc = "post" /\ new.todo = task[r].todo \ {p}
       /\ new.known = known
  BY <1>0, <1>5, <1>7 DEF Task, Steps, Methods, Targeted
<1> HIDE DEF new
<1>11. Learned(r, p, c, sig) = new
  BY <1>8 DEF new
<1> QED
  BY <1>5, <1>9, <1>10, <1>11

\* A membership is written, wherever the post goes.
LEMMA MembershipPlaces ==
  ASSUME TypeInv, NEW r \in Runs, NEW p \in Posts, NEW c \in Clusters, NEW method \in Methods,
         NEW sig \in Signature, MembershipOf(r, p, c, method, sig),
         Placing(task[r]), p \in task[r].todo, Covers(sig, task[r].read[p]),
         \/ task[r].pc = "member" /\ task[r].target = c /\ task[r].method = "SEED" /\ method = "SEED"
         \/ /\ c \in DOMAIN task[r].known /\ Covers(sig, task[r].known[c].sig)
            /\ method \in {"DETERMINISTIC", "AI"}
  PROVE  Does(r)
<1>0. /\ TablesTyped /\ lock \in [run : Runs \cup {NoRun}, until : Nat, beat : Nat]
  BY TablesAreTyped
<1>1. /\ UpsertMembership(r, p, c, method, sig) /\ Proceed(r, Learned(r, p, c, sig))
      /\ placed' = [placed EXCEPT ![p] = task[r].read[p]]
      /\ overwritten' = (IF Outdated(r, c, method) THEN overwritten \cup {c} ELSE overwritten)
  BY DEF MembershipOf
<1>2. UNCHANGED <<now, collected, caption, analysed, verdict, candidate, lock, exclusive>>
  BY DEF MembershipOf, world
<1> DEFINE t == Learned(r, p, c, sig)
<1>3. Moves(r) /\ (task'[r] = t \/ task'[r].pc = "failed")
  <2>1. t \in Task /\ Targeted(t)
    BY LearnedIsTyped
  <2> HIDE DEF t
  <2>2. Proceed(r, t)
    BY <1>1 DEF t
  <2> QED
    BY <2>1, <2>2, Proceeding
<1>4. member' \in [Posts -> [cluster : Clusters \cup {NoCluster}, method : Methods]]
  BY <1>0, <1>1 DEF UpsertMembership, TablesTyped, Methods
<1>5. cluster' \in [Clusters -> Row]
  <2> DEFINE row == [cluster[c] EXCEPT !.sig = sig, !.first = Min({cluster[c].first, PublishedAt[p]}),
                       !.last = Max({cluster[c].last, PublishedAt[p]})]
  <2>1. cluster' = [cluster EXCEPT ![c] = row]
    BY <1>1 DEF UpsertMembership
  <2>2. cluster[c] \in Row /\ PublishedAt[p] \in Nat
    BY <1>0, IntelligenceAssumption DEF TablesTyped
  <2>3. Min({cluster[c].first, PublishedAt[p]}) \in Nat /\ Max({cluster[c].last, PublishedAt[p]}) \in Nat
    BY <2>2, LeastAndGreatestOfTwo DEF Row
  <2>4. row \in Row
    BY <2>2, <2>3 DEF Row
  <2> HIDE DEF row
  <2> QED
    BY <1>0, <2>1, <2>4 DEF TablesTyped
<1>6. citation' \subseteq Citations
  BY <1>0, <1>1, MovedAreCitations DEF UpsertMembership, TablesTyped
<1>9. placed' \in [Posts -> Words]
  BY <1>1 DEF TypeInv, Task
<1>7. TypeInv'
  BY <1>0, <1>2, <1>3, <1>4, <1>5, <1>6, <1>9, StaysTyped DEF TablesTyped, TypeInv
<1>8. Places(r, p, c, method, sig)
  <2>1. Placing(task'[r]) =>
         /\ task'[r].pc = "post" /\ task'[r].todo = task[r].todo \ {p}
         /\ DOMAIN task'[r].known = DOMAIN task[r].known \cup {c}
         /\ task'[r].known[c].sig = sig
         /\ \A o \in DOMAIN task[r].known \ {c} : task'[r].known[o] = task[r].known[o]
    BY <1>3, LearnedIsTyped DEF Placing
  <2> QED
    BY <1>1, <2>1 DEF Places
<1> QED
  BY <1>3, <1>7, <1>8 DEF Does

LEMMA JoiningPlaces ==
  ASSUME TypeInv, NEW r \in Runs, JoinStory(r)
  PROVE  Does(r)
<1> DEFINE p == NextPost(r)
           c == BestRival(r, p)
           f == FeaturesOf(r, p)
           sig == MergeSignature(task[r].known[c].sig, f)
<1>1. /\ task[r].pc = "post" /\ task[r].todo # {} /\ DecisionFor(r, p) = "AUTO_MERGE"
      /\ MembershipOf(r, p, c, "DETERMINISTIC", sig)
  BY DEF JoinStory, AtPost
<1>2. p \in Posts /\ p \in task[r].todo
  BY <1>1, NextPostIsListed
<1>3. c \in DOMAIN task[r].known /\ c \in Clusters /\ task[r].known[c].sig \in Signature
  BY <1>1, <1>2, BestRivalIsKnown DEF Known
<1>4. /\ sig \in Signature /\ Covers(sig, task[r].known[c].sig) /\ Covers(sig, task[r].read[p])
  <2>1. f \in Features /\ \A k \in KindsOfWord : task[r].read[p][k] \subseteq f.words[k]
    BY <1>2, FeaturesCoverCaption
  <2> HIDE DEF f, c, p
  <2> QED
    BY <1>3, <2>1, SignaturesCover DEF Covers
<1>5. "DETERMINISTIC" \in Methods /\ Placing(task[r])
  BY <1>1 DEF Methods, Placing
<1> HIDE DEF p, c, sig
<1> QED
  BY <1>1, <1>2, <1>3, <1>4, <1>5, MembershipPlaces

LEMMA SettlingPlaces ==
  ASSUME TypeInv, NEW r \in Runs, SettleStory(r)
  PROVE  Does(r)
<1> DEFINE p == NextPost(r)
           c == task[r].target
           f == FeaturesOf(r, p)
           sig == IF task[r].method = "AI" THEN MergeSignature(task[r].known[c].sig, f)
                  ELSE SeedSignature(f)
<1>1. /\ task[r].pc = "member" /\ task[r].todo # {} /\ c \in Clusters
      /\ task[r].method \in {"SEED", "AI"}
      /\ task[r].method = "AI" => c \in DOMAIN task[r].known
      /\ MembershipOf(r, p, c, task[r].method, sig)
  BY DEF SettleStory, TypeInv, Targeted
<1>2. p \in Posts /\ p \in task[r].todo
  BY <1>1, NextPostIsListed
<1>3. f \in Features /\ \A k \in KindsOfWord : task[r].read[p][k] \subseteq f.words[k]
  BY <1>2, FeaturesCoverCaption
<1>4. /\ sig \in Signature /\ Covers(sig, task[r].read[p])
      /\ task[r].method = "AI" => Covers(sig, task[r].known[c].sig)
  <2>1. task[r].method = "AI" => task[r].known[c].sig \in Signature
    BY <1>1, TasksAreTyped DEF Known
  <2> HIDE DEF f, p
  <2> QED
    BY <1>1, <1>3, <2>1, SignaturesCover DEF Covers
<1>5. task[r].method \in Methods /\ Placing(task[r])
  BY <1>1 DEF Methods, Placing
<1> HIDE DEF p, c, sig
<1> QED
  BY <1>1, <1>2, <1>4, <1>5, MembershipPlaces DEF c

LEMMA CitingCites ==
  ASSUME TypeInv, NEW r \in Runs, CiteSource(r)
  PROVE  Does(r)
<1>0. /\ TablesTyped /\ lock \in [run : Runs \cup {NoRun}, until : Nat, beat : Nat]
      /\ task[r] \in Task /\ task[r].pc = "post"
  BY TablesAreTyped, TasksAreTyped DEF CiteSource
<1>1. PICK x \in task[r].cites :
        LET t == [task[r] EXCEPT !.cites = @ \ {x}]
        IN  IF Citable(x.cluster, x.post)
            THEN /\ citation' = {y \in citation : y.cluster # x.cluster \/ y.source # x.source}
                                \cup {x}
                 /\ Proceed(r, t)
            ELSE /\ task' = [task EXCEPT ![r].pc = "failed"]
                 /\ UNCHANGED <<citation, faults>>
  BY DEF CiteSource
<1>2. x \in Citations
  BY <1>0 DEF Task
<1>3. UNCHANGED <<now, collected, caption, analysed, cluster, member, verdict, candidate, lock, history>>
  BY DEF CiteSource, world, history
<1>4. CASE Citable(x.cluster, x.post)
  <2> DEFINE t == [task[r] EXCEPT !.cites = @ \ {x}]
  <2>1. /\ t \in Task /\ Targeted(t) /\ t.pc = "post" /\ t.todo = task[r].todo
        /\ t.known = task[r].known
    BY <1>0 DEF Task, Targeted
  <2>2. Proceed(r, t) /\ citation' = {y \in citation : y.cluster # x.cluster \/ y.source # x.source}
                                     \cup {x}
    BY <1>1, <1>4
  <2>3. Moves(r) /\ (task'[r] = t \/ task'[r].pc = "failed")
    <3> HIDE DEF t
    <3> QED
      BY <2>1, <2>2, Proceeding
  <2>4. citation' \subseteq Citations
    BY <1>0, <1>2, <2>2 DEF TablesTyped
  <2>5. TypeInv'
    BY <1>0, <1>3, <2>3, <2>4, StaysTyped DEF TablesTyped, TypeInv, history
  <2>6. Cites(r)
    <3> HIDE DEF t
    <3> QED
      BY <1>0, <1>2, <1>3, <1>4, <2>1, <2>2, <2>3 DEF Cites, Placing, history
  <2> QED
    BY <2>3, <2>5, <2>6 DEF Does
<1>5. CASE ~Citable(x.cluster, x.post)
  <2>1. task' = [task EXCEPT ![r].pc = "failed"] /\ citation' = citation /\ faults' = faults
    BY <1>1, <1>5
  <2>2. Moves(r) /\ ~Placing(task'[r])
    BY <2>1, Failing DEF TypeInv, Placing
  <2>3. TypeInv'
    BY <1>0, <1>3, <2>1, <2>2, StaysTyped DEF TablesTyped, TypeInv, history
  <2> QED
    BY <1>3, <2>1, <2>2, <2>3 DEF Does, Rests, history
<1> QED
  BY <1>4, <1>5

LEMMA CalculatingAges ==
  ASSUME TypeInv, NEW r \in Runs, CalculateCandidates(r)
  PROVE  Does(r)
<1>0. /\ TablesTyped /\ lock \in [run : Runs \cup {NoRun}, until : Nat, beat : Nat]
      /\ task[r] \in Task
  BY TablesAreTyped, TasksAreTyped
<1> DEFINE at == task[r].at
           aged(c) == IF cluster[c].status = "ABSENT" THEN cluster[c]
                      ELSE [cluster[c] EXCEPT !.status =
                              Lifecycle(@, cluster[c].last, Cardinality(MembersOf(c)), at)]
           fresh == {c \in Clusters : /\ aged(c).status \notin {"ABSENT", "ARCHIVED"}
                                      /\ cluster[c].first + SignalSpan >= at
                                      /\ cluster[c].first =< at}
           t == [task[r] EXCEPT !.pc = "succeed", !.count = Cardinality(fresh)]
<1>1. /\ cluster' = [c \in Clusters |-> aged(c)]
      /\ candidate' = [candidate EXCEPT ![Day(at)] = @ \cup fresh]
      /\ Proceed(r, t)
  BY DEF CalculateCandidates
<1>2. UNCHANGED <<now, collected, caption, analysed, member, citation, verdict, lock, history>>
  BY DEF CalculateCandidates, world, history
<1>3. fresh \in SUBSET Clusters /\ Cardinality(fresh) \in Nat
  <2>1. fresh \in SUBSET Clusters
    OBVIOUS
  <2> HIDE DEF fresh
  <2> QED
    BY <2>1, IdsAreNumbers, FS_Subset, FS_CardinalityType
<1>4. Moves(r) /\ ~Placing(task'[r])
  <2> HIDE DEF fresh
  <2>1. t \in Task /\ Targeted(t) /\ t.pc = "succeed"
    BY <1>0, <1>3 DEF Task, Steps, Targeted
  <2>2. Proceed(r, t)
    BY <1>1
  <2> HIDE DEF t
  <2> QED
    BY <2>1, <2>2, Proceeding DEF Placing
<1>5. ASSUME NEW c \in Clusters
      PROVE  /\ aged(c) \in Row /\ aged(c).sig = cluster[c].sig
             /\ aged(c).status = "ABSENT" <=> cluster[c].status = "ABSENT"
  <2>1. cluster[c] \in Row
    BY <1>0 DEF TablesTyped
  <2>2. PICK s : s = Lifecycle(cluster[c].status, cluster[c].last, Cardinality(MembersOf(c)), at)
    OBVIOUS
  <2>3. s \in {"OPEN", "ACTIVE", "STALE", "ARCHIVED"}
    <3>1. /\ cluster[c].last \in Nat /\ at \in Nat /\ ArchiveSpan \in Nat /\ ActiveSpan \in Nat
      BY <1>0, <2>1, MatchingAssumption, IntelligenceAssumption DEF Row, Task
    <3>2. \/ cluster[c].last + ArchiveSpan < at \/ cluster[c].last + ArchiveSpan >= at
      BY <3>1
    <3> QED
      BY <2>2, <3>2 DEF Lifecycle
  <2>4. cluster[c].status # "ABSENT" => aged(c) = [cluster[c] EXCEPT !.status = s]
    BY <2>2
  <2> QED
    BY <2>1, <2>3, <2>4 DEF Row
<1>6. candidate' \in [Days -> SUBSET Clusters]
  <2> HIDE DEF fresh
  <2> QED
    BY <1>0, <1>1, <1>3 DEF TablesTyped
<1> HIDE DEF aged
<1>7. TypeInv'
  BY <1>0, <1>1, <1>2, <1>4, <1>5, <1>6, StaysTyped DEF TablesTyped, TypeInv, history
<1>8. Ages(r)
  BY <1>1, <1>2, <1>4, <1>5 DEF Ages, history
<1> QED
  BY <1>4, <1>7, <1>8 DEF Does

\* A request enters the lease.
Begins(r) ==
    /\ UNCHANGED <<cluster, member, citation, placed, overwritten>> /\ Moves(r) /\ TypeInv'
    /\ ~Placing(task'[r]) /\ ~Live(r)
    /\ exclusive' = (exclusive /\ \A s \in Runs : ~Live(s))

LEMMA StartingBegins ==
  ASSUME TypeInv, NEW r \in Runs, NEW at \in AsOfs, Start(r, at)
  PROVE  \/ Begins(r)
         \/ UNCHANGED <<cluster, member, citation, task, history>> /\ TypeInv'
<1>0. TablesTyped /\ lock \in [run : Runs \cup {NoRun}, until : Nat, beat : Nat]
  BY TablesAreTyped
<1>1. at \in 0..Horizon /\ at \in Nat /\ at + Lease \in Nat
  <2>1. now \in 0..Horizon /\ Horizon \in Nat /\ Lease \in Nat
    BY IntelligenceAssumption DEF TypeInv, TypeOK
  <2> QED
    BY <2>1 DEF AsOfs
<1>2. UNCHANGED <<now, collected, caption, analysed, cluster, member, citation, verdict, candidate, faults,
                  placed, overwritten>>
  BY DEF Start, tables
<1>3. CASE Acquirable(at)
  <2> DEFINE t == [Idle EXCEPT !.pc = "announce", !.at = at]
  <2>1. t \in Task /\ Targeted(t) /\ ~Placing(t)
    BY <1>1, IdleIsTyped DEF Task, Steps, Targeted, Placing
  <2>2. /\ task' = [task EXCEPT ![r] = t]
        /\ lock' = [run |-> r, until |-> at + Lease, beat |-> at]
        /\ exclusive' = (exclusive /\ \A s \in Runs : ~Live(s)) /\ ~Live(r)
    BY <1>3 DEF Start
  <2>3. Moves(r) /\ ~Placing(task'[r])
    <3> HIDE DEF t
    <3> QED
      BY <1>2, <2>1, <2>2, Moving DEF TypeInv
  <2>4. lock' \in [run : Runs \cup {NoRun}, until : Nat, beat : Nat]
    BY <1>1, <2>2
  <2>5. exclusive' \in BOOLEAN
    BY <2>2
  <2>6. TypeInv'
    BY <1>0, <1>2, <2>3, <2>4, <2>5, StaysTyped DEF TablesTyped, TypeInv
  <2> QED
    BY <1>2, <2>2, <2>3, <2>6 DEF Begins
<1>4. CASE ~Acquirable(at)
  <2>1. UNCHANGED <<lock, task, exclusive>>
    BY <1>4 DEF Start
  <2> QED
    BY <1>2, <2>1 DEF TypeInv, TypeOK, history
<1> QED
  BY <1>3, <1>4

LEMMA WorldStaysTyped ==
  ASSUME TypeInv,
         \/ UNCHANGED vars \/ Tick
         \/ \E p \in Posts : Collect(p) \/ Analyse(p)
         \/ \E r \in Runs : Renew(r)
  PROVE  UNCHANGED <<cluster, member, citation, task, history>> /\ TypeInv'
<1>1. UNCHANGED <<tables, task, faults, history>>
  BY DEF vars, Tick, Collect, Analyse, Renew
<1>2. UNCHANGED <<cluster, member, citation, verdict, candidate, task, faults, history>>
  BY <1>1 DEF tables
<1>3. now \in 0..Horizon /\ Horizon \in Nat /\ Lease \in Nat
  BY IntelligenceAssumption DEF TypeInv, TypeOK
<1>4. lock' \in [run : Runs \cup {NoRun}, until : Nat, beat : Nat]
  <2>1. CASE UNCHANGED lock
    BY <2>1 DEF TypeInv
  <2>2. ASSUME NEW r \in Runs, Renew(r)
        PROVE  lock' \in [run : Runs \cup {NoRun}, until : Nat, beat : Nat]
    <3>1. task[r].at + Lease \in Nat /\ now \in Nat
      <4>1. task[r].at \in 0..Horizon
        BY TasksAreTyped
      <4> QED
        BY <1>3, <4>1
    <3> QED
      BY <2>2, <3>1 DEF Renew, TypeInv
  <2> QED
    BY <2>1, <2>2 DEF vars, Tick, Collect, Analyse
<1>5. now' \in 0..Horizon /\ analysed' \subseteq collected' /\ collected' \subseteq Posts
  <2>1. now' \in 0..Horizon
    <3>1. now' = now \/ (now < Horizon /\ now' = now + 1)
      BY DEF vars, world, history, Tick, Collect, Analyse, Renew
    <3> QED
      BY <1>3, <3>1
  <2>2. analysed \subseteq collected /\ collected \subseteq Posts
    BY DEF TypeInv, TypeOK
  <2>3. analysed' \subseteq collected' /\ collected' \subseteq Posts
    BY <2>2 DEF vars, world, history, Tick, Collect, Analyse, Renew
  <2> QED
    BY <2>1, <2>3
<1>6. TypeOK'
  BY <1>2, <1>4, <1>5 DEF TypeInv, TypeOK
<1>7. \A r \in Runs : Targeted(task'[r])
  BY <1>2 DEF TypeInv
<1>8. caption' \in [Posts -> Words]
  <2>1. CASE \E p \in Posts : Collect(p)
    BY <2>1, IntelligenceAssumption DEF Collect, TypeInv
  <2>2. CASE UNCHANGED caption
    BY <2>2 DEF TypeInv
  <2> QED
    BY <2>1, <2>2 DEF vars, world, Tick, Analyse, Renew
<1> QED
  BY <1>2, <1>4, <1>6, <1>7, <1>8 DEF TypeInv, history

LEMMA StepsAreKinds ==
  ASSUME TypeInv, [Next]_vars
  PROVE  /\ TypeInv'
         /\ \/ UNCHANGED <<cluster, member, citation, task, history>>
            \/ \E r \in Runs : Begins(r)
            \/ \E r \in Runs : Does(r) /\ Live(r) /\ exclusive' = exclusive
<1>1. ASSUME NEW r \in Runs, RunStep(r) \/ Fails(r) \/ Kill(r)
      PROVE  Does(r) /\ Live(r) /\ exclusive' = exclusive
  <2>1. Does(r)
    BY <1>1, BookkeepingRests, FaultsRest, ListingRests, ReadingReads, AskingRests, CreatingOpens,
       JoiningPlaces, SettlingPlaces, CitingCites, CalculatingAges DEF RunStep
  <2>2. Live(r)
    BY <1>1 DEF RunStep, Fails, Kill, Live, Announce, ListRecentPosts, ListClusterContexts, SkipPost,
                OpenStory, JoinStory, AskClassifier, SplitStory, SettleStory, CiteSource,
                CalculateCandidates, Succeed, ReportFailure, Release, AtPost
  <2>3. exclusive' = exclusive
    BY <1>1 DEF RunStep, Fails, Kill, Announce, ListRecentPosts, ListClusterContexts, SkipPost,
                OpenStory, JoinStory, AskClassifier, SplitStory, SettleStory, MembershipOf, CiteSource,
                CalculateCandidates, Succeed, ReportFailure, Release, history
  <2> QED
    BY <2>1, <2>2, <2>3
<1>2. ASSUME NEW r \in Runs, NEW at \in AsOfs, Start(r, at)
      PROVE  /\ TypeInv'
             /\ \/ UNCHANGED <<cluster, member, citation, task, history>>
                \/ Begins(r)
  BY <1>2, StartingBegins DEF Begins
<1> QED
  BY <1>1, <1>2, WorldStaysTyped DEF Next, Does

LEMMA TypesHold == Spec => []TypeInv
<1>1. Init => TypeInv
  <2> SUFFICES ASSUME Init PROVE TypeInv
    OBVIOUS
  <2>1. Absent \in Row /\ NotMember \in [cluster : Clusters \cup {NoCluster}, method : Methods]
    BY DEF Absent, Row, EmptySignature, Signature, NotMember, Methods
  <2>2. 0 \in 0..Horizon
    BY IntelligenceAssumption
  <2>3. TablesTyped
    BY <2>1 DEF Init, TablesTyped
  <2>4. /\ task \in [Runs -> Task] /\ \A r \in Runs : Targeted(task[r])
        /\ lock \in [run : Runs \cup {NoRun}, until : Nat, beat : Nat]
        /\ faults \in Nat /\ exclusive \in BOOLEAN
        /\ caption \in [Posts -> Words] /\ placed \in [Posts -> Words]
    BY IdleIsTyped DEF Init, Free, Unread, NoWords, Words
  <2>5. TypeOK
    BY <2>2, <2>3, <2>4 DEF Init, TypeOK, TablesTyped, Row, Task
  <2> QED
    BY <2>3, <2>4, <2>5 DEF TypeInv, TablesTyped
<1>2. TypeInv /\ [Next]_vars => TypeInv'
  BY StepsAreKinds
<1> QED
  BY <1>1, <1>2, PTL DEF Spec

-----------------------------------------------------------------------------
(* Citations.                                                              *)

\* When a post moves, its citations move with it, and join those its new story has of
\* the same source.
LEMMA MovedBelong ==
  ASSUME TypeInv, CitationsBelong, NEW p \in Posts, NEW c \in Clusters, member[p].cluster # c,
         NEW x \in MoveCitations(p, member[p].cluster, c)
  PROVE  x.cluster = IF x.post = p THEN c ELSE member[x.post].cluster
<1> DEFINE old == member[p].cluster
           mine == {y \in citation : y.cluster = old /\ y.post = p}
           twin(y) == {z \in citation : z.cluster = c /\ z.source = y.source}
           moved(y) == IF twin(y) = {} THEN [y EXCEPT !.cluster = c]
                       ELSE LET z == CHOOSE z \in twin(y) : TRUE
                            IN  [z EXCEPT !.count = @ + y.count]
<1>0. citation \subseteq Citations
  BY DEF TypeInv, TypeOK
<1>1. x \in (citation \ (mine \cup UNION {twin(y) : y \in mine})) \cup {moved(y) : y \in mine}
  BY DEF MoveCitations
<1>2. ASSUME x \in citation, x \notin mine
      PROVE  x.cluster = IF x.post = p THEN c ELSE member[x.post].cluster
  BY <1>2 DEF CitationsBelong
<1>3. ASSUME NEW y \in mine, x = moved(y)
      PROVE  x.cluster = IF x.post = p THEN c ELSE member[x.post].cluster
  <2>1. y \in Citations /\ y.post = p
    BY <1>0
  <2>2. CASE twin(y) = {}
    <3>1. x = [y EXCEPT !.cluster = c]
      BY <1>3, <2>2
    <3> QED
      BY <2>1, <3>1 DEF Citations
  <2>3. CASE twin(y) # {}
    <3>1. PICK z \in citation : z.cluster = c /\ x = [z EXCEPT !.count = @ + y.count]
      BY <1>3, <2>3
    <3>2. x.cluster = c /\ x.post = z.post
      BY <1>0, <3>1 DEF Citations
    <3>3. member[z.post].cluster = c
      BY <3>1 DEF CitationsBelong
    <3> QED
      BY <3>2, <3>3
  <2> QED
    BY <2>2, <2>3
<1> HIDE DEF mine, twin, moved
<1> QED
  BY <1>1, <1>2, <1>3

LEMMA CitationsStep ==
  ASSUME TypeInv, CitationsBelong, [Next]_vars
  PROVE  CitationsBelong'
<1>0. citation \subseteq Citations /\ citation' \subseteq Citations
      /\ member \in [Posts -> [cluster : Clusters \cup {NoCluster}, method : Methods]]
  BY StepsAreKinds DEF TypeInv, TypeOK
<1>1. CASE UNCHANGED <<member, citation>>
  BY <1>1 DEF CitationsBelong
<1>2. ASSUME NEW r \in Runs, Cites(r)
      PROVE  CitationsBelong'
  BY <1>2 DEF Cites, Citable, CitationsBelong
<1>3. ASSUME NEW r \in Runs, NEW p \in Posts, NEW c \in Clusters, NEW method \in Methods,
             NEW sig \in Signature, Places(r, p, c, method, sig)
      PROVE  CitationsBelong'
  <2>1. UpsertMembership(r, p, c, method, sig)
    BY <1>3 DEF Places
  <2>2. /\ member'[p].cluster = c
        /\ \A q \in Posts \ {p} : member'[q] = member[q]
    BY <1>0, <2>1 DEF UpsertMembership
  <2>3. ASSUME NEW x \in citation'
        PROVE  member'[x.post].cluster = x.cluster
    <3>0. x.post \in Posts /\ x.cluster \in Clusters
      BY <1>0 DEF Citations
    <3>1. CASE member[p].cluster \in {NoCluster, c}
      <4>1. x \in citation
        BY <2>1, <3>1 DEF UpsertMembership
      <4>2. member[x.post].cluster = x.cluster
        BY <4>1 DEF CitationsBelong
      <4>3. NoCluster \notin Clusters
        BY IdsAreNumbers
      <4> QED
        BY <2>2, <3>0, <3>1, <4>2, <4>3
    <3>2. CASE member[p].cluster \notin {NoCluster, c}
      <4>1. x \in MoveCitations(p, member[p].cluster, c)
        BY <2>1, <3>2 DEF UpsertMembership
      <4> QED
        BY <2>2, <3>0, <3>2, <4>1, MovedBelong
    <3> QED
      BY <3>1, <3>2
  <2> QED
    BY <2>3 DEF CitationsBelong
<1> QED
  BY <1>1, <1>2, <1>3, StepsAreKinds DEF Begins, Does, Rests, history, Reads, Opens, Ages

\* A citation rests on a post of the story that cites, for ever: whichever run moves the
\* post takes the citation along, and no late write brings back what was moved.
THEOREM CitationsAlwaysBelong == Spec => []CitationsBelong
<1>1. Init => CitationsBelong
  BY DEF Init, CitationsBelong
<1>2. TypeInv /\ CitationsBelong /\ [Next]_vars => CitationsBelong'
  BY CitationsStep
<1> QED
  BY <1>1, <1>2, TypesHold, PTL DEF Spec

-----------------------------------------------------------------------------
(* While the lease excludes.                                               *)

Settled(r) ==
    /\ Alone /\ MembersExist /\ overwritten = {}
    /\ \A c \in Clusters : Seeded(c)
    /\ Current(r)

\* A story no post has joined or left is seeded as it was.
LEMMA SeedsStay ==
  ASSUME NEW c \in Clusters, Seeded(c), MembersOf(c)' = MembersOf(c),
         \A p \in MembersOf(c) : member'[p] = member[p]
  PROVE  Seeded(c)'
<1>1. SeedsOf(c)' = SeedsOf(c)
  BY DEF SeedsOf
<1> QED
  BY <1>1 DEF Seeded

LEMMA MembersUntouched ==
  ASSUME NEW r \in Runs, Settled(r), UNCHANGED <<member, overwritten>>,
         \A c \in Clusters : /\ cluster[c].status # "ABSENT" => cluster'[c].sig = cluster[c].sig
                             /\ cluster[c].status # "ABSENT" => cluster'[c].status # "ABSENT",
         member \in [Posts -> [cluster : Clusters \cup {NoCluster}, method : Methods]]
  PROVE  /\ MembersExist' /\ overwritten' = {} /\ \A c \in Clusters : Seeded(c)'
<1>1. MembersExist' /\ overwritten' = {}
  BY DEF Settled, MembersExist
<1>2. \A c \in Clusters : Seeded(c)'
  BY SeedsStay DEF Settled, MembersOf
<1> QED
  BY <1>1, <1>2

LEMMA RestingKeeps ==
  ASSUME TypeInv, NEW r \in Runs, Settled(r), Does(r), Rests(r) \/ Reads(r) \/ Cites(r) \/ Ages(r)
  PROVE  /\ MembersExist' /\ overwritten' = {} /\ \A c \in Clusters : Seeded(c)'
         /\ Current(r)'
<1>1. /\ UNCHANGED <<member, overwritten>>
      /\ member \in [Posts -> [cluster : Clusters \cup {NoCluster}, method : Methods]]
      /\ \A c \in Clusters : /\ cluster'[c].sig = cluster[c].sig
                             /\ cluster'[c].status = "ABSENT" <=> cluster[c].status = "ABSENT"
  BY DEF Rests, Reads, Cites, Ages, TypeInv, TypeOK
<1>2. PICK D \in SUBSET Clusters : task[r].known \in [D -> Known]
  BY TasksAreTyped
<1>3. Current(r)'
  <2>1. CASE Ages(r) \/ ~Placing(task'[r])
    BY <2>1 DEF Ages, Current, Placing
  <2>2. CASE Reads(r) /\ Placing(task'[r])
    BY <2>2 DEF Reads, Current, Placing
  <2>3. CASE (Rests(r) \/ Cites(r)) /\ Placing(task'[r])
    <3>1. /\ task'[r].todo \subseteq task[r].todo /\ task'[r].known = task[r].known
          /\ task'[r].pc = "member" => task'[r].method = "AI"
          /\ \A p \in task[r].todo : member[p].cluster = NoCluster
          /\ \A c \in D : cluster[c].status # "ABSENT" /\ task[r].known[c].sig = cluster[c].sig
      BY <1>2, <2>3 DEF Rests, Follows, Cites, Settled, Current
    <3>2. task'[r].pc = "member" => task'[r].target \in D
      BY <1>2, <3>1 DEF Does, Moves, Targeted
    <3> QED
      BY <1>1, <1>2, <3>1, <3>2 DEF Current
  <2> QED
    BY <2>1, <2>2, <2>3
<1> QED
  BY <1>1, <1>3, MembersUntouched

LEMMA OpeningKeeps ==
  ASSUME TypeInv, NEW r \in Runs, NEW c \in Clusters, Settled(r), Does(r), Opens(r, c)
  PROVE  /\ MembersExist' /\ overwritten' = {} /\ \A o \in Clusters : Seeded(o)'
         /\ Current(r)'
<1>1. /\ UNCHANGED <<member, overwritten>>
      /\ member \in [Posts -> [cluster : Clusters \cup {NoCluster}, method : Methods]]
      /\ \A o \in Clusters : cluster[o].status # "ABSENT" => cluster'[o] = cluster[o]
      /\ cluster'[c].status # "ABSENT"
  BY DEF Opens, TypeInv, TypeOK
<1>2. PICK D \in SUBSET Clusters : task[r].known \in [D -> Known]
  BY TasksAreTyped
<1>3. MembersOf(c) = {}
  BY IdsAreNumbers DEF Opens, Settled, MembersExist, MembersOf
<1>4. ASSUME Placing(task'[r])
      PROVE  Current(r)'
  <2>1. /\ task'[r].todo = task[r].todo /\ task'[r].known = task[r].known
        /\ task'[r].pc = "member" /\ task'[r].target = c /\ task'[r].method = "SEED"
        /\ \A p \in task[r].todo : member[p].cluster = NoCluster
        /\ \A o \in D : cluster[o].status # "ABSENT" /\ task[r].known[o].sig = cluster[o].sig
    BY <1>2, <1>4 DEF Opens, Settled, Current
  <2>2. c \notin D
    BY <2>1 DEF Opens
  <2>3. MembersOf(c)' = {}
    BY <1>1, <1>3 DEF MembersOf
  <2> QED
    BY <1>1, <1>2, <2>1, <2>2, <2>3 DEF Current
<1>5. Current(r)'
  BY <1>4 DEF Current
<1> QED
  BY <1>1, <1>5, MembersUntouched

LEMMA PlacingKeeps ==
  ASSUME TypeInv, NEW r \in Runs, NEW p \in Posts, NEW c \in Clusters, NEW method \in Methods,
         NEW sig \in Signature, Settled(r), Does(r), Places(r, p, c, method, sig)
  PROVE  /\ MembersExist' /\ overwritten' = {} /\ \A o \in Clusters : Seeded(o)'
         /\ Current(r)' /\ member[p].cluster = NoCluster
<1>0. /\ member \in [Posts -> [cluster : Clusters \cup {NoCluster}, method : Methods]]
      /\ cluster \in [Clusters -> Row] /\ NoCluster \notin Clusters
  BY IdsAreNumbers DEF TypeInv, TypeOK
<1>1. PICK D \in SUBSET Clusters : task[r].known \in [D -> Known]
  BY TasksAreTyped
<1>2. /\ \A q \in task[r].todo : member[q].cluster = NoCluster
      /\ \A o \in D : cluster[o].status # "ABSENT" /\ task[r].known[o].sig = cluster[o].sig
      /\ p \in task[r].todo
  BY <1>1 DEF Places, Settled, Current
\* Its own new story is still empty; of any other it knows the signature.
<1>3. /\ cluster[c].status # "ABSENT"
      /\ \/ MembersOf(c) = {}
         \/ c \in D /\ Covers(sig, cluster[c].sig) /\ method # "SEED"
  BY <1>1, <1>2 DEF Places, Settled, Current
<1>4. /\ member'[p] = [cluster |-> c, method |-> IF MembersOf(c) = {} THEN "SEED" ELSE method]
      /\ \A q \in Posts \ {p} : member'[q] = member[q]
      /\ cluster'[c].sig = sig /\ cluster'[c].status = cluster[c].status
      /\ \A o \in Clusters \ {c} : cluster'[o] = cluster[o]
  <2>1. UpsertMembership(r, p, c, method, sig)
    BY DEF Places
  <2> QED
    BY <1>0, <2>1 DEF UpsertMembership, Row
<1>5. /\ MembersOf(c)' = MembersOf(c) \cup {p} /\ p \notin MembersOf(c)
      /\ \A o \in Clusters \ {c} : MembersOf(o)' = MembersOf(o) /\ p \notin MembersOf(o)
  BY <1>0, <1>2, <1>4 DEF MembersOf
<1>6. MembersExist'
  BY <1>0, <1>3, <1>4 DEF MembersExist, Settled
<1>7. overwritten' = {}
  <2>1. ~Outdated(r, c, method)
    BY <1>1, <1>2 DEF Places, Outdated, Settled, Current
  <2> QED
    BY <2>1 DEF Places, Settled
<1>8. \A o \in Clusters : Seeded(o)'
  <2>1. ASSUME NEW o \in Clusters \ {c}
        PROVE  Seeded(o)'
    BY <1>4, <1>5, SeedsStay DEF Settled, MembersOf
  <2>2. CASE MembersOf(c) = {}
    <3>1. SeedsOf(c)' = {p}
      BY <1>4, <1>5, <2>2 DEF SeedsOf
    <3> QED
      BY <2>1, <3>1 DEF Seeded
  <2>3. CASE MembersOf(c) # {}
    <3>1. SeedsOf(c)' = SeedsOf(c)
      BY <1>3, <1>4, <1>5, <2>3 DEF SeedsOf, MembersOf
    <3>2. \E q \in Posts : SeedsOf(c) = {q}
      BY <2>3 DEF Settled, Seeded
    <3>3. Seeded(c)'
      BY <3>1, <3>2 DEF Seeded
    <3> QED
      BY <2>1, <3>3
  <2> QED
    BY <2>2, <2>3
<1>9. Current(r)'
  <2>1. ASSUME Placing(task'[r])
        PROVE  Current(r)'
    <3>1. /\ task'[r].pc = "post" /\ task'[r].todo = task[r].todo \ {p}
          /\ DOMAIN task'[r].known = D \cup {c}
          /\ task'[r].known[c].sig = sig
          /\ \A o \in D \ {c} : task'[r].known[o] = task[r].known[o]
      BY <1>1, <2>1 DEF Places
    <3>2. task[r].todo \subseteq Posts
      BY TasksAreTyped
    <3>3. \A q \in task'[r].todo : member'[q].cluster = NoCluster
      BY <1>2, <1>4, <3>1, <3>2
    <3>4. \A o \in D \cup {c} :
            cluster'[o].status # "ABSENT" /\ task'[r].known[o].sig = cluster'[o].sig
      BY <1>2, <1>3, <1>4, <3>1
    <3> QED
      BY <3>1, <3>3, <3>4 DEF Current
  <2> QED
    BY <2>1 DEF Current
<1> QED
  BY <1>2, <1>6, <1>7, <1>8, <1>9

LEMMA ExclusiveStep ==
  ASSUME TypeInv, ExclusiveInv, [Next]_vars, exclusive'
  PROVE  ExclusiveInv'
<1>0. /\ task \in [Runs -> Task] /\ task' \in [Runs -> Task]
      /\ member \in [Posts -> [cluster : Clusters \cup {NoCluster}, method : Methods]]
  BY StepsAreKinds DEF TypeInv, TypeOK
<1>1. CASE UNCHANGED <<cluster, member, citation, task, history>>
  <2>1. exclusive
    BY <1>1 DEF history
  <2>2. /\ Alone /\ MembersExist /\ overwritten = {}
        /\ \A c \in Clusters : Seeded(c)
        /\ \A r \in Runs : Current(r)
    BY <2>1 DEF ExclusiveInv
  <2>3. Alone' /\ MembersExist' /\ overwritten' = {}
    BY <1>1, <2>2 DEF Alone, Live, MembersExist, history
  <2>4. (\A c \in Clusters : Seeded(c))'
    BY <1>1, <2>2 DEF Seeded, SeedsOf, MembersOf
  <2>5. (\A r \in Runs : Current(r))'
    BY <1>1, <2>2 DEF Current, MembersOf
  <2> QED
    BY <2>3, <2>4, <2>5 DEF ExclusiveInv
<1>2. ASSUME NEW r \in Runs, Begins(r)
      PROVE  ExclusiveInv'
  <2>1. exclusive /\ \A s \in Runs : ~Live(s)
    BY <1>2 DEF Begins
  <2>2. /\ MembersExist /\ overwritten = {}
        /\ \A c \in Clusters : Seeded(c)
    BY <2>1 DEF ExclusiveInv
  <2>3. /\ UNCHANGED <<cluster, member>>
        /\ ~Placing(task'[r]) /\ \A s \in Runs \ {r} : task'[s] = task[s]
    BY <1>0, <1>2 DEF Begins, Moves
  <2>4. \A s \in Runs \ {r} : task'[s].pc = "idle"
    BY <2>1, <2>3 DEF Live
  <2>5. Alone'
    BY <2>4 DEF Alone, Live
  <2>6. MembersExist' /\ overwritten' = {} /\ (\A c \in Clusters : Seeded(c))'
    BY <1>2, <2>2, <2>3 DEF Begins, MembersExist, Seeded, SeedsOf, MembersOf
  <2>7. (\A s \in Runs : Current(s))'
    BY <2>3, <2>4 DEF Current, Placing
  <2> QED
    BY <2>5, <2>6, <2>7 DEF ExclusiveInv
<1>3. ASSUME NEW r \in Runs, Does(r), Live(r), exclusive' = exclusive
      PROVE  ExclusiveInv'
  <2>1. Settled(r)
    BY <1>3 DEF ExclusiveInv, Settled
  <2>2. \A s \in Runs \ {r} : task'[s] = task[s] /\ task[s].pc = "idle"
    BY <1>0, <1>3, <2>1 DEF Does, Moves, Settled, Alone, Live
  <2>3. Alone'
    BY <2>2 DEF Alone, Live
  <2>4. /\ MembersExist' /\ overwritten' = {} /\ \A c \in Clusters : Seeded(c)'
        /\ Current(r)'
    BY <1>3, <2>1, RestingKeeps, OpeningKeeps, PlacingKeeps DEF Does
  <2>5. (\A s \in Runs : Current(s))'
    BY <2>2, <2>4 DEF Current, Placing
  <2> QED
    BY <2>3, <2>4, <2>5 DEF ExclusiveInv
<1> QED
  BY <1>1, <1>2, <1>3, StepsAreKinds

LEMMA ExclusionHolds == Spec => [](TypeInv /\ ExclusiveInv)
<1>1. Init => ExclusiveInv
  <2> SUFFICES ASSUME Init PROVE ExclusiveInv
    OBVIOUS
  <2>1. /\ \A r \in Runs : task[r].pc = "idle"
        /\ \A p \in Posts : member[p].cluster = NoCluster
    BY DEF Init, Idle, NotMember
  <2>2. \A c \in Clusters : MembersOf(c) = {}
    BY <2>1, IdsAreNumbers DEF MembersOf
  <2> QED
    BY <2>1, <2>2 DEF Init, ExclusiveInv, Alone, Live, MembersExist, Seeded, Current, Placing
<1>2. TypeInv /\ ExclusiveInv /\ [Next]_vars => ExclusiveInv'
  BY ExclusiveStep DEF ExclusiveInv
<1> QED
  BY <1>1, <1>2, TypesHold, PTL DEF Spec

-----------------------------------------------------------------------------
(* Whatever the lease does.                                                *)

\* No story that was created is uncreated.
Created == \A c \in Clusters : cluster[c].status # "ABSENT" => cluster'[c].status # "ABSENT"

LEMMA KnowsOn ==
  ASSUME TypeInv, TypeInv', NEW r \in Runs, Knows(r), Created, task'[r] = task[r]
  PROVE  Knows(r)'
<1>1. PICK D \in SUBSET Clusters : task[r].known \in [D -> Known]
  BY TasksAreTyped
<1>2. task[r].pc = "member" => task[r].target \in Clusters
  BY DEF TypeInv, Targeted
<1> QED
  BY <1>1, <1>2 DEF Knows, Created

LEMMA StoriesRest ==
  ASSUME TypeInv, StoryInv, NEW r \in Runs, Does(r), Rests(r) \/ Reads(r) \/ Cites(r) \/ Ages(r)
  PROVE  MembersExist' /\ Covered' /\ Knows(r)' /\ Created
<1>1. /\ UNCHANGED <<member, placed, overwritten>>
      /\ member \in [Posts -> [cluster : Clusters \cup {NoCluster}, method : Methods]]
      /\ \A c \in Clusters : /\ cluster'[c].sig = cluster[c].sig
                             /\ cluster'[c].status = "ABSENT" <=> cluster[c].status = "ABSENT"
  BY DEF Rests, Reads, Cites, Ages, TypeInv, TypeOK
<1>2. PICK D \in SUBSET Clusters : task[r].known \in [D -> Known]
  BY TasksAreTyped
<1>3. MembersExist' /\ Covered'
  BY <1>1 DEF StoryInv, MembersExist, Covered, Covers
<1>4. Knows(r)'
  <2>1. CASE Ages(r) \/ ~Placing(task'[r])
    BY <2>1 DEF Ages, Knows, Placing
  <2>2. CASE Reads(r) /\ Placing(task'[r])
    BY <2>2 DEF Reads, Knows, Placing
  <2>3. CASE (Rests(r) \/ Cites(r)) /\ Placing(task'[r])
    <3>1. /\ task'[r].known = task[r].known
          /\ task'[r].pc = "member" => task'[r].method = "AI"
          /\ \A c \in D : cluster[c].status # "ABSENT"
      BY <1>2, <2>3 DEF Rests, Follows, Cites, StoryInv, Knows
    <3>2. task'[r].pc = "member" => task'[r].target \in D
      BY <1>2, <3>1 DEF Does, Moves, Targeted
    <3> QED
      BY <1>1, <1>2, <3>1, <3>2 DEF Knows
  <2> QED
    BY <2>1, <2>2, <2>3
<1> QED
  BY <1>1, <1>3, <1>4 DEF Created

LEMMA StoriesOpen ==
  ASSUME TypeInv, StoryInv, NEW r \in Runs, NEW c \in Clusters, Does(r), Opens(r, c)
  PROVE  MembersExist' /\ Covered' /\ Knows(r)' /\ Created
<1>1. /\ UNCHANGED <<member, placed, overwritten>>
      /\ member \in [Posts -> [cluster : Clusters \cup {NoCluster}, method : Methods]]
      /\ cluster[c].status = "ABSENT" /\ cluster'[c].status # "ABSENT"
      /\ \A o \in Clusters \ {c} : cluster'[o] = cluster[o]
  BY DEF Opens, TypeInv, TypeOK
<1>2. PICK D \in SUBSET Clusters : task[r].known \in [D -> Known]
  BY TasksAreTyped
<1>3. \A p \in Posts : member[p].cluster # c
  BY <1>1, IdsAreNumbers DEF StoryInv, MembersExist
<1>4. MembersExist' /\ Covered'
  BY <1>1, <1>3 DEF StoryInv, MembersExist, Covered, Covers
<1>5. Created
  BY <1>1 DEF Created
<1>6. Knows(r)'
  BY <1>1, <1>2, <1>5 DEF Opens, StoryInv, Knows, Created
<1> QED
  BY <1>4, <1>5, <1>6

LEMMA StoriesGrow ==
  ASSUME TypeInv, StoryInv, NEW r \in Runs, NEW p \in Posts, NEW c \in Clusters, NEW method \in Methods,
         NEW sig \in Signature, Does(r), Places(r, p, c, method, sig)
  PROVE  MembersExist' /\ Covered' /\ Knows(r)' /\ Created
<1>0. /\ member \in [Posts -> [cluster : Clusters \cup {NoCluster}, method : Methods]]
      /\ cluster \in [Clusters -> Row] /\ NoCluster \notin Clusters /\ placed \in [Posts -> Words]
  BY IdsAreNumbers DEF TypeInv, TypeOK
<1>1. PICK D \in SUBSET Clusters : task[r].known \in [D -> Known]
  BY TasksAreTyped
<1>2. /\ member'[p].cluster = c /\ \A q \in Posts \ {p} : member'[q] = member[q]
      /\ cluster'[c].sig = sig /\ cluster'[c].status = cluster[c].status
      /\ \A o \in Clusters \ {c} : cluster'[o] = cluster[o]
      /\ placed'[p] = task[r].read[p] /\ \A q \in Posts \ {p} : placed'[q] = placed[q]
      /\ overwritten \subseteq overwritten'
  BY <1>0 DEF Places, UpsertMembership, Row
<1>3. cluster[c].status # "ABSENT" /\ \A o \in D : cluster[o].status # "ABSENT"
  BY <1>1 DEF StoryInv, Knows, Places
<1>4. Created
  BY <1>2 DEF Created
<1>5. MembersExist'
  BY <1>0, <1>2, <1>3 DEF StoryInv, MembersExist
\* What the run writes covers what the row says, unless the row is not as it knew it.
<1>6. c \in overwritten' \/ MembersOf(c) = {} \/ Covers(sig, cluster[c].sig)
  BY DEF Places, Outdated
<1>7. Covered'
  <2> SUFFICES ASSUME NEW q \in Posts, member'[q].cluster # NoCluster, member'[q].cluster \notin overwritten'
               PROVE  Covers(cluster'[member'[q].cluster].sig, placed'[q])
    BY DEF Covered, Covers
  <2>1. CASE q = p
    BY <1>2, <2>1 DEF Places
  <2>2. CASE q # p /\ member[q].cluster = c
    <3>1. MembersOf(c) # {} /\ Covers(cluster[c].sig, placed[q])
      BY <1>0, <1>2, <2>2 DEF MembersOf, StoryInv, Covered
    <3>2. Covers(sig, placed[q])
      BY <1>2, <1>6, <2>2, <3>1 DEF Covers
    <3> QED
      BY <1>2, <2>2, <3>2
  <2>3. CASE q # p /\ member[q].cluster # c
    BY <1>0, <1>2, <2>3 DEF StoryInv, Covered
  <2> QED
    BY <2>1, <2>2, <2>3
<1>8. Knows(r)'
  BY <1>1, <1>2, <1>3 DEF Places, Knows
<1> QED
  BY <1>4, <1>5, <1>7, <1>8

LEMMA StoryStep ==
  ASSUME TypeInv, StoryInv, [Next]_vars
  PROVE  StoryInv'
<1>0. TypeInv'
  BY StepsAreKinds
<1>1. CASE UNCHANGED <<cluster, member, citation, task, history>>
  BY <1>1 DEF StoryInv, MembersExist, Covered, Covers, Knows, history
<1>2. ASSUME NEW r \in Runs, Begins(r)
      PROVE  StoryInv'
  <2>1. Created /\ MembersExist' /\ Covered'
    BY <1>2 DEF Begins, StoryInv, MembersExist, Covered, Covers, Created
  <2>2. ASSUME NEW s \in Runs PROVE Knows(s)'
    <3>1. CASE s = r
      BY <1>2, <3>1 DEF Begins, Knows
    <3>2. CASE s # r
      BY <1>0, <1>2, <2>1, <3>2, KnowsOn DEF Begins, Moves, StoryInv
    <3> QED
      BY <3>1, <3>2
  <2> QED
    BY <2>1, <2>2 DEF StoryInv
<1>3. ASSUME NEW r \in Runs, Does(r)
      PROVE  StoryInv'
  <2>1. MembersExist' /\ Covered' /\ Knows(r)' /\ Created
    BY <1>3, StoriesRest, StoriesOpen, StoriesGrow DEF Does
  <2>2. \A s \in Runs \ {r} : Knows(s)'
    BY <1>0, <1>3, <2>1, KnowsOn DEF Does, Moves, StoryInv
  <2> QED
    BY <2>1, <2>2 DEF StoryInv
<1> QED
  BY <1>1, <1>2, <1>3, StepsAreKinds

LEMMA StoriesHold == Spec => []StoryInv
<1>1. Init => StoryInv
  BY DEF Init, Idle, NotMember, StoryInv, MembersExist, Covered, Knows, Placing
<1>2. TypeInv /\ StoryInv /\ [Next]_vars => StoryInv'
  BY StoryStep
<1> QED
  BY <1>1, <1>2, TypesHold, PTL DEF Spec

\* A story's signature covers the captions its posts were placed for, whichever runs
\* overlap, but for a story some run wrote that was not any more as the run knew it; and
\* while the lease excludes there is none: what a run merges into is what the table says.
THEOREM SignaturesAlwaysCoverMembers == Spec => []SignaturesCoverMembers
<1>1. StoryInv /\ ExclusiveInv => SignaturesCoverMembers
  BY DEF StoryInv, ExclusiveInv, SignaturesCoverMembers, Covered, Covers, KindsOfWord
<1> QED
  BY <1>1, ExclusionHolds, StoriesHold, PTL

\* While the lease excludes, a story with posts has one seed: a run killed between the
\* story and its first post leaves an empty one, and no later run fills it.
THEOREM StoriesAreSeededOnce == Spec => []SeededOnce
<1>1. TypeInv /\ ExclusiveInv => SeededOnce
  <2> SUFFICES ASSUME TypeInv, ExclusiveInv, exclusive, NEW c \in Clusters, MembersOf(c) # {}
               PROVE  Cardinality({p \in MembersOf(c) : member[p].method = "SEED"}) = 1
    BY DEF SeededOnce
  <2>1. PICK p \in Posts : SeedsOf(c) = {p}
    BY DEF ExclusiveInv, Seeded
  <2>2. Cardinality({p}) = 1
    BY FS_Singleton
  <2> QED
    BY <2>1, <2>2 DEF SeedsOf
<1> QED
  BY <1>1, ExclusionHolds, PTL

\* While the lease excludes, a post stays in the story it was put into, as what it was
\* put there: a run only places posts that no run before it has placed.
THEOREM MembersAlwaysStay == Spec => MembersStay
<1>1. ASSUME TypeInv, ExclusiveInv, [Next]_vars, exclusive',
             NEW p \in Posts, member[p].cluster # NoCluster
      PROVE  member'[p] = member[p]
  <2>1. CASE UNCHANGED member
    BY <2>1
  <2>2. ASSUME NEW r \in Runs, Does(r), Live(r), exclusive' = exclusive,
               NEW q \in Posts, NEW c \in Clusters, NEW method \in Methods,
               NEW sig \in Signature, Places(r, q, c, method, sig)
        PROVE  member'[p] = member[p]
    <3>1. Settled(r)
      BY <1>1, <2>2 DEF ExclusiveInv, Settled
    <3>2. member[q].cluster = NoCluster
      BY <1>1, <2>2, <3>1, PlacingKeeps
    <3>3. UpsertMembership(r, q, c, method, sig)
      BY <2>2 DEF Places
    <3> QED
      BY <1>1, <3>2, <3>3 DEF UpsertMembership, TypeInv, TypeOK
  <2> QED
    BY <1>1, <2>1, <2>2, StepsAreKinds DEF Begins, Does, Rests, history, Reads, Opens, Cites, Ages
<1>2. TypeInv /\ ExclusiveInv /\ [Next]_vars =>
        [exclusive' => \A p \in Posts : member[p].cluster # NoCluster => member'[p] = member[p]]_vars
  BY <1>1
<1> QED
  BY <1>2, ExclusionHolds, PTL DEF Spec, MembersStay

================================================================================
