------------------------------ MODULE Holdings ------------------------------
(***************************************************************************)
(* What the fund promises of its tokens: each is minted once, leaves the   *)
(* fund once, and is paid once if at all.  Between leaving and being paid  *)
(* a crash loses it: nobody is paid and it does not come back.             *)
(***************************************************************************)
CONSTANT Token

VARIABLES
  minted,   \* the tokens ever minted
  held,     \* those the fund has
  leaving,  \* those it gave up and has not paid yet
  paid      \* those it has paid and says so

holdingVars == <<minted, held, leaving, paid>>

Init == minted = {} /\ held = {} /\ leaving = {} /\ paid = {}

Mint(t) ==
  /\ t \notin minted
  /\ minted' = minted \cup {t} /\ held' = held \cup {t}
  /\ UNCHANGED <<leaving, paid>>

Leave(t) ==
  /\ t \in held
  /\ held' = held \ {t} /\ leaving' = leaving \cup {t}
  /\ UNCHANGED <<minted, paid>>

PayOut(t) ==
  /\ t \in leaving
  /\ leaving' = leaving \ {t} /\ paid' = paid \cup {t}
  /\ UNCHANGED <<minted, held>>

Crash ==
  /\ leaving' = {}
  /\ UNCHANGED <<minted, held, paid>>

Next == (\E t \in Token : Mint(t) \/ Leave(t) \/ PayOut(t)) \/ Crash

Spec == Init /\ [][Next]_holdingVars

-----------------------------------------------------------------------------
\* A token is in one place.
OnePlace ==
  /\ held \cup leaving \cup paid \subseteq minted
  /\ held \cap leaving = {} /\ held \cap paid = {} /\ leaving \cap paid = {}
=============================================================================
