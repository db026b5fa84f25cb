-------------------------------- MODULE MCShop --------------------------------
(***************************************************************************)
(* Instances, for TLC, of the two sides of the shop: what customers see    *)
(* and buy (Storefront), and the products that administrators keep         *)
(* (ProductCatalog).  Each behaviour is about one side; the other stands   *)
(* still.                                                                  *)
(***************************************************************************)
EXTENDS MCStorefront

CONSTANTS ann, ben, o1, o2, NULL, Admins, Orders, Ids, Tasks

VARIABLES
    side, product, variant, rule, order, page, req, draft, sheet, undercut, left, task

catalogVars == <<product, variant, rule, order, page, req, draft, sheet, undercut, left, task>>
allVars == <<side, vars, catalogVars>>

Instances == INSTANCE MCProductCatalog WITH Variants <- Ids, Scopes <- {}, scope <- task
MCTasks == Instances!MCScopes
Catalog == INSTANCE ProductCatalog WITH Variants <- Ids, Scopes <- Tasks, scope <- task

ASSUME CatalogAssumption == Catalog!ScopesAssumption

ShopInit ==
    /\ side \in {"storefront", "catalog"}
    /\ Init /\ Catalog!Init
    /\ side = "storefront" => task = CHOOSE s \in Tasks : TRUE
    /\ side = "catalog" => scope = CHOOSE s \in Scopes : TRUE

ShopNext ==
    /\ UNCHANGED side
    /\ \/ side = "storefront" /\ Next /\ UNCHANGED catalogVars
       \/ side = "catalog" /\ Catalog!Next /\ UNCHANGED vars

ShopSpec == ShopInit /\ [][ShopNext]_allVars

\* No write leaves less stock than is held, unless it was made on an older view.
HeldStockRemains == Catalog!HeldStockRemains

\* A product for the agency portal only has the access settings it needs.
PortalAccessIsComplete == Catalog!PortalAccessIsComplete

=============================================================================
