------------------------------- MODULE MCData -------------------------------
(***************************************************************************)
(* Small instances, for TLC, of what reads, caches and evaluates data:     *)
(* CacheVersioned, CacheBody, ConditionalCache, Production, MassProduction *)
(* and IndustryJobs.                                                       *)
(*                                                                         *)
(* They share no state, so a run takes one of them at a time, which focus  *)
(* names; the others rest where they begin.  s1 to s9 are the variables of *)
(* Production or MassProduction, and 0 unless it is one of them.           *)
(***************************************************************************)
EXTENDS CacheVersioned, CacheBody, ConditionalCache, IndustryJobs, TLC

CONSTANTS c1, c2, NoRecipe, NoPrice, NoInvention, NoChance, NoCap, Unknown

VARIABLES focus, s1, s2, s3, s4, s5, s6, s7, s8, s9

slots == <<s1, s2, s3, s4, s5, s6, s7, s8, s9>>
caches == <<verVars, bodyVars, condVars>>
all == <<caches, jobVars, focus, slots>>

ASSUME NoneIsNoValue /\ CacheAssumption /\ NoneIsNoEntry /\ IndustryAssumption

Blank5 == s5 = 0 /\ s6 = 0 /\ s7 = 0 /\ s8 = 0 /\ s9 = 0
Blank == s1 = 0 /\ s2 = 0 /\ s3 = 0 /\ s4 = 0 /\ Blank5

-----------------------------------------------------------------------------
(* Production                                                              *)

Blueprints == {"p", "q"}
Types == {"A", "B", "C", "D", "P", "Q"}

Line(t, q) == [type |-> t, qty |-> q]
Recipe(o, m) == [out |-> o, mats |-> m]
Job(p, o, m, i) == [product |-> p, out |-> o, mats |-> m, invention |-> i]
Invention(c, r) == [cores |-> <<Line("C", 2)>>, copied |-> <<Line("B", 1)>>, chance |-> c, runs |-> r]

PlainRecipes == [t \in Types |-> CASE t = "A" -> Recipe(2, <<Line("B", 2), Line("C", 1)>>)
                                   [] t = "B" -> Recipe(1, <<Line("C", 3)>>)
                                   [] OTHER -> NoRecipe]

(* A and B are made of each other.                                         *)
LoopRecipes == [t \in Types |-> CASE t = "A" -> Recipe(1, <<Line("B", 1), Line("D", 1)>>)
                                  [] t = "B" -> Recipe(2, <<Line("A", 1), Line("P", 1)>>)
                                  [] t = "D" -> Recipe(1, <<Line("C", 1)>>)
                                  [] t = "P" -> Recipe(1, <<Line("A", 1)>>)
                                  [] OTHER -> NoRecipe]

JobsAt(chance) ==
    [b \in Blueprints |-> IF b = "p" THEN Job("P", 1, <<Line("A", 3), Line("C", 2)>>, NoInvention)
                          ELSE Job("Q", 2, <<Line("B", 5), Line("A", 1)>>, Invention(chance, 2))]

Books == {[recipe |-> PlainRecipes, job |-> JobsAt(50)], [recipe |-> LoopRecipes, job |-> JobsAt(50)],
          [recipe |-> PlainRecipes, job |-> JobsAt(NoChance)]}

Markets ==
    {[buy |-> [t \in Types |-> CASE t = "A" -> a [] t = "B" -> b [] t = "C" -> c [] t = "D" -> 320
                                 [] OTHER -> 3200],
      adjusted |-> [t \in Types |-> IF t = "C" THEN 80 ELSE IF t = "A" THEN NoPrice ELSE 160],
      sell |-> [t \in Types |-> IF t = "P" THEN p ELSE 1600],
      hub |-> [t \in Types |-> IF t = "P" THEN 2000 ELSE 1200]]
     : a \in {NoPrice, 320, 960}, b \in {NoPrice, 160, 320}, c \in {NoPrice, 80}, p \in {NoPrice, 2400}}

Requests ==
    {[runs |-> 3, me |-> 10, build |-> sub, hub |-> hub,
      owned |-> IF hub THEN [x \in {"p"} |-> 5] ELSE [x \in {} |-> 0],
      stock |-> [t \in Types |-> IF t = "A" THEN s ELSE IF t = "C" THEN 1 ELSE 0],
      decryptor |-> IF d THEN [type |-> "D", me |-> 1, runs |-> 1, factor |-> 2] ELSE NoRecipe]
     : sub \in BOOLEAN, hub \in BOOLEAN, s \in {0, 2, 9}, d \in BOOLEAN}

Making ==
    INSTANCE Production WITH
        TreeDepth <- 3, BuildDepth <- 4, FeeNum <- 1, FeeDen <- 10, KeepNum <- 9, KeepDen <- 10,
        BasicMe <- 2, MaxEdits <- 1,
        book <- s1, market <- s2, request <- s3, blacklist <- s4, favorites <- s5, filter <- s6,
        prodPhase <- s7, rows <- s8, edits <- s9

Names == {"a", "b"}
Stack(r, m, q) == [runs |-> r, me |-> m, qty |-> q]
Named(n, r) == [name |-> n, runs |-> r]
Stacks == {Stack(-1, 10, -1), Stack(3, 10, -2), Stack(2, 4, 2), Stack(5, 0, 1), Stack(1, 10, 3)}
Pastes == {<<Named("a", r), Named(n, q)>> : r \in {NoCap, 0, 1, 4, 7}, n \in {"b", Unknown, "a"}, q \in {NoCap, 2}}
Libraries == {[n \in Names |-> IF n = "a" THEN s ELSE <<Stack(2, 2, 2), Stack(3, 4, -2)>>]
              : s \in {<<>>} \cup [1..3 -> Stacks]}
Materials == [n \in Names |-> IF n = "a" THEN <<7, 1>> ELSE <<5>>]
Tier == [n \in Names |-> IF n = "a" THEN "t2" ELSE "special"]
RunLimit == [n \in Names |-> IF n = "a" THEN 4 ELSE NoCap]

Massive ==
    INSTANCE MassProduction WITH
        T1Runs <- 1, T1Me <- 10, T2Me <- 2, paste <- s1, library <- s2, mode <- s3, plan <- s4

-----------------------------------------------------------------------------
(* Two characters of one corporation, each with a job, one of them the     *)
(* corporation's.                                                          *)

TwoCharacters == <<"c1", "c2">>
JobOfEach == [j \in Jobs |-> IF j = "j1" THEN "c1" ELSE "c2"]

-----------------------------------------------------------------------------

(* What begins in several ways rests in one.                               *)
DataInit ==
    /\ VerInit /\ BodyInit /\ CondInit /\ JobsInit
    /\ \/ focus \in {"versioned", "body", "conditional", "industry"} /\ Blank
       \/ focus = "making" /\ Making!ProdInit
       \/ focus = "massive" /\ Massive!MassInit /\ Blank5
    /\ focus # "body" => remote = 1

DataNext ==
    /\ UNCHANGED focus
    /\ \/ focus = "versioned" /\ VerNext /\ UNCHANGED <<bodyVars, condVars, jobVars, slots>>
       \/ focus = "body" /\ BodyNext /\ UNCHANGED <<verVars, condVars, jobVars, slots>>
       \/ focus = "conditional" /\ CondNext /\ UNCHANGED <<verVars, bodyVars, jobVars, slots>>
       \/ focus = "industry" /\ JobsNext /\ UNCHANGED <<caches, slots>>
       \/ focus = "making" /\ Making!ProdNext /\ UNCHANGED <<caches, jobVars>>
       \/ focus = "massive" /\ Massive!MassNext /\ UNCHANGED <<caches, jobVars, s5, s6, s7, s8, s9>>

DataSpec == DataInit /\ [][DataNext]_all

(* The threads are alike, whatever they run.                               *)
ThreadSymmetry == Permutations({c1, c2})

-----------------------------------------------------------------------------
(* The properties of Production and MassProduction say nothing while       *)
(* another component runs. CheapestSourced and RankedSound: materials are   *)
(* bought or built, whichever is cheaper, and rows are ranked by their true *)
(* profit. CapsExactly and BuysPerCopy: blueprint copies are used up to the *)
(* asked runs, and materials are rounded per copy.                          *)
PlansSound ==
  /\ focus = "making" => Making!CheapestSourced /\ Making!RankedSound
  /\ focus = "massive" => Massive!CapsExactly /\ Massive!BuysPerCopy

=============================================================================
