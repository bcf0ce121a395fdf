---------------------------- MODULE TokenRegistry ----------------------------
(***************************************************************************)
(* The registry of tokens, and the calls of the contract API that edit it. *)
(* A call reads the registry first, asserts what it can, and only then     *)
(* sends a transaction: other edits may be mined before it, and the        *)
(* contract decides.  What a call reads, it is taken to read at once.  A   *)
(* name and a symbol are checked alike; a symbol stands for both.  The     *)
(* contract itself is not part of the repository: it is modelled from how  *)
(* the API calls it.                                                       *)
(***************************************************************************)
EXTENDS Naturals, Sequences, FiniteSets, SequencesExt

CONSTANTS
    Tokens,     \* addresses of tokens
    Symbols,    \* symbols a token can be registered with
    Edits,      \* calls of the API
    EditOf,     \* EditOf[e]: what e does, to which token, and who signs it
    FirstSymbol, \* FirstSymbol[t]: symbol t is registered with at first, or None
    None

EditKinds == {"add", "remove", "rename", "annotate"}

ASSUME RegistryAssumption ==
    /\ EditOf \in [Edits -> [op : EditKinds, token : Tokens, symbol : Symbols,
                             owner : BOOLEAN]]
    /\ FirstSymbol \in [Tokens -> Symbols \cup {None}]
    /\ \A t, u \in Tokens : FirstSymbol[t] = FirstSymbol[u] /\ FirstSymbol[t] # None => t = u
    /\ None \notin Symbols \cup Tokens
    /\ IsFiniteSet(Tokens)

VARIABLES
    registry,   \* registry[t]: symbol that t is registered with, or None
    listed,     \* the registered tokens in the order of getTokenAddresses
    edit        \* edit[e]: progress of e, and what it has read

registryVars == <<registry, listed, edit>>

\* index is a position in `listed`, 0 if findIndex found none; overtaken tells
\* that another edit was mined since e was sent.
EditStates ==
    [pc : {"idle", "sent", "mined", "refused", "reverted"}, index : Nat,
     overtaken : BOOLEAN]

NewEdit == [pc |-> "idle", index |-> 0, overtaken |-> FALSE]

RegistryTypeOK ==
    /\ registry \in [Tokens -> Symbols \cup {None}]
    /\ listed \in Seq(Tokens)
    /\ edit \in [Edits -> EditStates]

RegistryInit ==
    /\ registry = FirstSymbol
    /\ listed = SetToSeq({t \in Tokens : FirstSymbol[t] # None})
    /\ edit = [e \in Edits |-> NewEdit]

SymbolFree(s) == \A t \in Tokens : registry[t] # s

Position(t) ==
    IF \E i \in DOMAIN listed : listed[i] = t
      THEN CHOOSE i \in DOMAIN listed : listed[i] = t
      ELSE 0

\* getTokenMetaData
Known(e) == registry[EditOf[e].token] # None

\* Broken assertions: a token need not exist to be renamed.
AssertionsHoldUnknown(e) ==
    \/ EditOf[e].op = "add" /\ ~Known(e) /\ SymbolFree(EditOf[e].symbol) /\ EditOf[e].owner
    \/ EditOf[e].op = "remove" /\ EditOf[e].owner
    \/ EditOf[e].op = "rename" /\ SymbolFree(EditOf[e].symbol)
    \/ EditOf[e].op = "annotate" /\ Known(e)

\* The assertions.  That of removeToken on the position of the token passes
\* when there is none: assert.exists(false) does not throw.
AssertionsHold(e) ==
    \/ EditOf[e].op = "add" /\ ~Known(e) /\ SymbolFree(EditOf[e].symbol) /\ EditOf[e].owner
    \/ EditOf[e].op = "remove" /\ EditOf[e].owner
    \/ EditOf[e].op = "rename" /\ Known(e) /\ SymbolFree(EditOf[e].symbol)
    \/ EditOf[e].op = "annotate" /\ Known(e)

\* The call reads the registry, asserts, and sends the transaction.
SendEdit(e) ==
    /\ edit[e].pc = "idle"
    /\ edit' = [edit EXCEPT ![e] =
                  [pc |-> IF AssertionsHold(e) THEN "sent" ELSE "refused",
                   index |-> IF EditOf[e].op = "remove" THEN Position(EditOf[e].token) ELSE 0,
                   overtaken |-> FALSE]]
    /\ UNCHANGED <<registry, listed>>

\* What the contract requires.
Accepted(e) ==
    LET t == EditOf[e].token
    IN  /\ EditOf[e].owner
        /\ (registry[t] = None) <=> (EditOf[e].op = "add")
        /\ EditOf[e].op \in {"add", "rename"} => SymbolFree(EditOf[e].symbol)
        /\ EditOf[e].op = "remove" => edit[e].index = Position(t)

\* The contract puts the last token in the place of one that is removed.
Without(t) ==
    SubSeq([listed EXCEPT ![Position(t)] = listed[Len(listed)]], 1, Len(listed) - 1)

\* The transaction is mined: the contract applies it, or reverts it.
MineEdit(e) ==
    LET t == EditOf[e].token
    IN  /\ edit[e].pc = "sent"
        /\ IF Accepted(e)
             THEN /\ registry' = [registry EXCEPT ![t] =
                        CASE EditOf[e].op \in {"add", "rename"} -> EditOf[e].symbol
                          [] EditOf[e].op = "remove" -> None
                          [] EditOf[e].op = "annotate" -> @]
                  /\ listed' = CASE EditOf[e].op = "add" -> Append(listed, t)
                                 [] EditOf[e].op = "remove" -> Without(t)
                                 [] OTHER -> listed
                  /\ edit' = [f \in Edits |->
                                CASE f = e -> [edit[e] EXCEPT !.pc = "mined"]
                                  [] f # e /\ edit[f].pc = "sent" ->
                                       [edit[f] EXCEPT !.overtaken = TRUE]
                                  [] OTHER -> edit[f]]
             ELSE /\ edit' = [edit EXCEPT ![e].pc = "reverted"]
                  /\ UNCHANGED <<registry, listed>>

Editing(e) == SendEdit(e) \/ MineEdit(e)

-----------------------------------------------------------------------------
\* The assertions foresee what the contract requires: an edit that passes them
\* is reverted only if another edit was mined after it was sent, if it
\* changes a token on behalf of somebody who is not the owner, which only
\* addToken and removeToken assert, or if it removes a token that is not
\* registered, which the assertion of removeToken lets through.
RevertedWasOvertaken ==
    \A e \in Edits :
        edit[e].pc = "reverted" =>
            \/ edit[e].overtaken
            \/ EditOf[e].op \in {"rename", "annotate"} /\ ~EditOf[e].owner
            \/ EditOf[e].op = "remove" /\ edit[e].index = 0
=============================================================================
