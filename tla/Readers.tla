------------------------------- MODULE Readers -------------------------------
(***************************************************************************)
(* The read side: sessions, accounts and leaderboards, paged lists, cached *)
(* pages, prices and their chart, JSON-RPC walks, decoded answers, model   *)
(* pages, the verdict on health, bids and builder stakes as pages show     *)
(* them, the landing page, the MOR holders.  Each handler keeps its state  *)
(* in rows and KV keys of its own, so a behaviour is a behaviour of one of *)
(* them, its scene, and the others rest.                                   *)
(***************************************************************************)
EXTENDS SessionBook, ResponseCache, Prices, EndpointWalk, AbiDecode, ModelPages, HealthVerdict,
        BidBook, BuilderPages, FrontPage, HolderSweep

VARIABLE scene

Scenes == {"book", "list", "cache", "price", "rpc", "abi", "models", "health", "bids",
           "stakes", "front", "holders"}

readerVars ==
  <<scene, bookVars, pagesVars, cacheVars, priceVars, walkVars, abiVars, modelVars,
    healthVars, bidVars, builderPageVars, frontVars, holderVars>>

\* A part that rests rests where one of its beginnings is.
AtRest ==
  /\ scene # "list" => listed = {}
  /\ scene # "rpc" => up = {}
  /\ scene # "health" => builderRow = 0
  /\ scene # "holders" => ledger = <<CHOOSE held \in Distributions : TRUE>>
  /\ scene # "abi" => struct = [kind |-> "provider", stake |-> 0, createdAt |-> 0,
                                isDeleted |-> TRUE, endpoint |-> EmptyText]

ReadersInit ==
  /\ scene \in Scenes /\ AtRest
  /\ BookInit /\ PagesInit /\ CacheInit /\ PricesInit /\ WalkInit /\ AbiInit /\ ModelsInit
  /\ HealthInit /\ BidsInit /\ BuilderPagesInit /\ FrontInit /\ HoldersInit

Plays(name, next, vars) == IF scene = name THEN next ELSE UNCHANGED vars

ReadersNext ==
  /\ UNCHANGED scene
  /\ Plays("book", BookNext, bookVars)
  /\ Plays("list", PagesNext, pagesVars)
  /\ Plays("cache", CacheNext, cacheVars)
  /\ Plays("price", PricesNext, priceVars)
  /\ Plays("rpc", WalkNext, walkVars)
  /\ Plays("abi", AbiNext, abiVars)
  /\ Plays("models", ModelsNext, modelVars)
  /\ Plays("health", HealthNext, healthVars)
  /\ Plays("bids", BidsNext, bidVars)
  /\ Plays("stakes", BuilderPagesNext, builderPageVars)
  /\ Plays("front", FrontNext, frontVars)
  /\ Plays("holders", HoldersNext, holderVars)

ReadersSpec == ReadersInit /\ [][ReadersNext]_readerVars
-----------------------------------------------------------------------------
(***************************************************************************)
(* A part at rest stays where one of its beginnings is, and a behaviour of *)
(* its own scene has been there: what is dear to ask is asked only there.  *)
(***************************************************************************)
\* Decoders read what was encoded, and of a cut answer nothing false.
DecodersHold == scene = "abi" => DecodersAreTrue

\* What readers are told of bids fits together and is true of the chain.
BidBookHolds == scene = "bids" => BidBookIsTrue

\* What a subnet and a wallet page say of stakes is true once it is indexed.
StakePagesHold == scene = "stakes" => StakePagesAreTrue

\* Balances on display were true, and the queries over them add up.
HolderPagesHold == scene = "holders" => HoldersAreTrue
=============================================================================
