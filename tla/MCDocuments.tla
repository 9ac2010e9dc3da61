---------------------------- MODULE MCDocuments ----------------------------
(***************************************************************************)
(* Small instances, for TLC, of what keeps documents that several commands *)
(* load, change and save: AuthTokens, ShoppingLists, WormholeMap,          *)
(* FactionWarfare and FeedbackQueue.                                       *)
(*                                                                         *)
(* They share no state, so a run takes one of them at a time, which focus  *)
(* names; the others rest where they begin.                                *)
(***************************************************************************)
EXTENDS AuthTokens, ShoppingLists, WormholeMap, FactionWarfare, FeedbackQueue

CONSTANTS t1, pilot, shared, fetch1, fetch2

VARIABLE focus

all == <<vars, shopVars, hVars, wVars, fVars, focus>>

ASSUME WarAssumption /\ QueueAssumption /\ WormholeAssumption /\ ShopAssumption

-----------------------------------------------------------------------------
(* Every caller asks for the same pilot: the first is an ESI command, the  *)
(* others run inside plugins and share a second AuthState.                 *)

OnePilotFor == [t \in Callers |-> pilot]
TwoStatesVia == [t \in Callers |-> IF t = t1 THEN Main ELSE shared]

-----------------------------------------------------------------------------
(* The panel fills the chat list from two logs of one channel, as two      *)
(* clients write them.                                                     *)
TheChatList == {<<"chat", 1>>}
TwoLogs == <<"corp_1", "corp_2">>
CorpLogs == [l \in {"corp_1", "corp_2"} |-> "corp"]

-----------------------------------------------------------------------------
(* The user has charted the hole ab without signatures and as pq, and a    *)
(* stargate; the feeds know the one or the other, half of it, or another.  *)

Bare == <<"none", "none">>
Half == <<"none", "q">>

Known(pair, label, eol, left) == [pair |-> pair, label |-> label, eol |-> eol, left |-> left]
ScoutFeeds ==
    {<<>>, <<Known("ab", Half, FALSE, 2)>>,
     <<Known("ab", <<"p", "q">>, TRUE, 1), Known("ab", <<"r", "q">>, FALSE, 2)>>,
     <<Known("ac", Bare, FALSE, 99)>>}
UserLabels == {Bare, <<"q", "p">>}

Charted(pair, label, scope) == [pair |-> pair, label |-> label, scope |-> scope]
UserHoles ==
    {Charted("ab", Bare, "wormhole"), Charted("ab", <<"p", "q">>, "wormhole"), Charted("ac", Bare, "stargate")}

-----------------------------------------------------------------------------
(* A lane of four systems; factions 1 and 4 are at war in the first three, *)
(* one of which stays with 1, and the last is another faction's.           *)
Lane == {"a", "b", "c", "d"}
LaneGates == {{"a", "b"}, {"b", "c"}, {"c", "d"}}
WarzoneOf(f) == IF f \in {1, 4} THEN "cg" ELSE "am"
OwnerOf(s) == IF s = "d" THEN 2 ELSE IF s = "a" THEN 1 ELSE 4
OccupiersOf(s) == IF s = "d" THEN {2} ELSE IF s = "a" THEN {1} ELSE {1, 4}

Fetching == {fetch1, fetch2}

-----------------------------------------------------------------------------
(* Tokens are alike: they are issued in their order.                       *)
InOrder(tokens) == \A k \in tokens : 1..k \subseteq tokens

-----------------------------------------------------------------------------

(* A component that begins in several ways rests in one of them: nobody is *)
(* logged in, and the owners occupy their systems.  Sessions are taken once*)
(* without logouts and once without logins.                                *)
DocumentsInit ==
    /\ focus \in {"logins", "logouts", "shopping", "wormholes", "war", "feedback"}
    /\ Init /\ ShopInit /\ WhInit /\ WarInit /\ FeedbackInit
    /\ InOrder(issued)
    /\ focus \notin {"logins", "logouts"} => roster = {}
    /\ focus # "war" => \A s \in Systems : occupier[s] = Owner(s)

DocumentsNext ==
    /\ UNCHANGED focus
    /\ \/ focus = "logins" /\ Next /\ InOrder(issued') /\ logout' = logout
          /\ UNCHANGED <<shopVars, hVars, wVars, fVars>>
       \/ focus = "logouts" /\ Next /\ InOrder(issued') /\ login' = login
          /\ UNCHANGED <<shopVars, hVars, wVars, fVars>>
       \/ focus = "shopping" /\ ShopNext /\ UNCHANGED <<vars, hVars, wVars, fVars>>
       \/ focus = "wormholes" /\ WhNext /\ UNCHANGED <<vars, shopVars, wVars, fVars>>
       \/ focus = "war" /\ WarNext /\ UNCHANGED <<vars, shopVars, hVars, fVars>>
       \/ focus = "feedback" /\ FeedbackNext /\ UNCHANGED <<vars, shopVars, hVars, wVars>>

DocumentsSpec == DocumentsInit /\ [][DocumentsNext]_all

(* For what is asked of one of them alone.                                 *)
WormholesAlone == (DocumentsInit /\ focus = "wormholes") /\ [][DocumentsNext]_all

(* Nothing is dropped, a file that is being written is written first, and a*)
(* retry that has nothing to deliver goes through at once.                 *)
InTurn ==
    /\ \A c \in Commands : Saving(c) => ~Saving(c)'
    /\ call["retry"].step = "open" /\ call["retry"].ids = {} => Saving("retry")'
    /\ Resting("forget")'

FeedbackAlone == (DocumentsInit /\ focus = "feedback") /\ [][DocumentsNext /\ InTurn]_all

=============================================================================
