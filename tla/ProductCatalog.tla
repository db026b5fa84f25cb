---------------------------- MODULE ProductCatalog ----------------------------
(***************************************************************************)
(* The administration of one product while it is sold: the edit page and   *)
(* its requests, the routes they reach, the creation page, the imports of  *)
(* products and of orders paid elsewhere, and the orders that hold stock.  *)
(*                                                                         *)
(* A page fills its form from one GET and sends what it then shows; a      *)
(* route reads and validates before the transaction that writes.  Two      *)
(* pages, a buyer and an import therefore interleave between the read and  *)
(* the write.  One page has one request under way.  The id of a variant    *)
(* stands for its SKU, an order has one item of one unit, and names,       *)
(* texts and images are left out.                                          *)
(***************************************************************************)
EXTENDS Integers, FiniteSets, Sequences

CONSTANTS
    Admins,     \* administrators, each with an edit page
    Variants,   \* ids a variant of the product can have
    Orders,     \* orders that can be made
    Scopes,     \* who takes part in a behaviour, see Init and ScopesAssumption
    NULL

(* The columns the properties tell apart; an overlay is set or not.        *)
Items == {"nft", "physical"}
Statuses == {"draft", "published", "archived"}
Modes == {"none", "agent_portal"}
Overlays == {NULL, "gold"}
Products == [item : Items, status : Statuses, base : Nat, mode : Modes, role : BOOLEAN, overlay : Overlays]
Rows == [price : Nat, stock : Int, reserved : Nat]

AgentPortalComplete(p) == p.mode = "agent_portal" => p.role

(* What a page can choose, and what a row of a file can say.               *)
Choices == ({"item"} \X Items) \union ({"status"} \X Statuses) \union ({"mode"} \X Modes)
           \union ({"role"} \X BOOLEAN) \union ({"overlay"} \X Overlays)
FileRows == [kind : {"product"}, variant : Variants, price : Nat, stock : Nat, item : Items, status : Statuses]
            \union [kind : {"order"}, variant : Variants] \union [kind : {"bad"}]

(* NULL is no id and no row; an initial product is one the routes accept,  *)
(* with variants nobody holds yet.                                         *)
ScopesAssumption ==
    /\ IsFiniteSet(Orders) /\ NULL \notin Variants \union Products \union Rows
    /\ \A s \in Scopes :
         /\ s.product # NULL => s.product \in Products /\ AgentPortalComplete(s.product)
         /\ s.variant \in [Variants -> Rows \union {NULL}]
         /\ \A v \in Variants : s.variant[v] # NULL =>
              s.product # NULL /\ s.variant[v].reserved = 0 /\ s.variant[v].stock >= 0
         /\ s.prices \subseteq Nat /\ s.stocks \subseteq Nat /\ s.choices \subseteq Choices
         /\ s.files \subseteq Seq(FileRows) \ {<<>>}

VARIABLES
    product,    \* the row of products, or NULL
    variant,    \* the rows of product_variants
    rule,       \* the rows of product_integration_rules
    order,      \* orders with their single item
    page,       \* AdminProductEditPage of each administrator
    req,        \* the request each administrator has under way
    draft,      \* AdminProductCreatePage
    sheet,      \* the page that imports a CSV file
    undercut,   \* history: variants whose stock was last written below what is held
    left,       \* edits the administrators may still make
    scope       \* the scope of this behaviour

vars == <<product, variant, rule, order, page, req, draft, sheet, undercut, left, scope>>
tables == <<product, variant, rule, order>>
clients == <<page, draft, sheet>>

-----------------------------------------------------------------------------
(* A row in which some of the columns are written.                         *)
Over(fields, row) ==
    [f \in DOMAIN fields \union DOMAIN row |-> IF f \in DOMAIN fields THEN fields[f] ELSE row[f]]
Only(field, value) == [f \in {field} |-> value]

(* Prices are whole yen, tax included.                                     *)

Included(amount, pm) == IF pm = "excluded" THEN (amount * 11) \div 10 ELSE amount
ExcludedEstimate(amount) == (20 * amount + 11) \div 22

(* The integration rules a product can have, by target and type.           *)
Collectible == <<"ove-wallet", "digital_collectible">>
RuleKeys == {Collectible, <<"sengoku-passport", "digital_collectible">>, <<"ove-wallet", "ove_reward">>}

Live == {v \in Variants : variant[v] # NULL}
ItemsOf(v) == {o \in Orders : order[o].st # "none" /\ order[o].variant = v}
HeldBy(v) == {o \in ItemsOf(v) : order[o].st = "pending"}
Available(v) == variant[v].stock - variant[v].reserved

(* An absolute stock is written whatever the orders hold.                  *)
Undercut(v, stock) ==
    IF variant[v] # NULL /\ stock < variant[v].reserved
    THEN undercut \union {v} ELSE undercut \ {v}

-----------------------------------------------------------------------------
(* The edit page.  Reading the product again replaces everything typed.    *)

Form(p) == Over([pm |-> "included"], p)

Blank == [pc |-> "closed", seen |-> NULL, form |-> NULL]
Idle == [pc |-> "idle"]

Open(a) ==
    /\ a \in scope.admins
    /\ page[a].pc = "closed"
    /\ left > 0
    /\ page' = [page EXCEPT ![a].pc = "loading"]
    /\ UNCHANGED <<tables, req, draft, sheet, undercut, left, scope>>

Load(a) ==
    /\ page[a].pc = "loading"
    /\ page' = [page EXCEPT ![a] =
         IF product = NULL THEN Blank
         ELSE [pc |-> "ready", form |-> Form(product),
               seen |-> [base |-> product.base, overlay |-> product.overlay, variant |-> variant, rule |-> rule]]]
    /\ UNCHANGED <<tables, req, draft, sheet, undercut, left, scope>>

Edit(a, form) ==
    /\ page[a].pc = "ready"
    /\ left > 0
    /\ page' = [page EXCEPT ![a].form = form]
    /\ UNCHANGED <<tables, req, draft, sheet, undercut, left, scope>>

TypePrice(a, p) ==
    /\ p \in scope.prices
    /\ Edit(a, [page[a].form EXCEPT !.base = p])

(* The radio buttons: the number shown is made again from the price last read. *)
PriceModeChange(a, pm) ==
    /\ scope.prices # {}
    /\ Edit(a, [page[a].form EXCEPT
         !.pm = pm,
         !.base = IF pm = "excluded" THEN ExcludedEstimate(page[a].seen.base) ELSE page[a].seen.base])

Choose(a, field, value) ==
    /\ <<field, value>> \in scope.choices
    /\ Edit(a, [page[a].form EXCEPT ![field] = value])

(* A request of the page; the answer decides whether it loads again.       *)
Ask(a, r) ==
    /\ page[a].pc = "ready"
    /\ left > 0
    /\ left' = left - 1
    /\ page' = [page EXCEPT ![a].pc = "waiting"]
    /\ req' = [req EXCEPT ![a] = Over([pc |-> "sent"], r)]
    /\ UNCHANGED <<tables, draft, sheet, undercut, scope>>

Put(fields, entry) == [kind |-> "put", fields |-> fields, entry |-> entry]

Save(a) ==
    LET f == page[a].form IN
    /\ "save" \in scope.ops
    /\ Ask(a, Put([item |-> f.item, status |-> f.status, base |-> Included(f.base, f.pm),
                   mode |-> f.mode, role |-> f.role],
                  NULL))

(* The serial overlay of the images has a button of its own.               *)
SaveOverlay(a) ==
    /\ "save" \in scope.ops
    /\ page[a].pc = "ready"
    /\ page[a].form.overlay # page[a].seen.overlay
    /\ Ask(a, Put([overlay |-> page[a].form.overlay], NULL))

(* A body with one field, which the route takes as a partial update.       *)
SaveField(a, field, value) ==
    /\ "partial" \in scope.ops
    /\ <<field, value>> \in scope.choices
    /\ Ask(a, Put(Only(field, value), NULL))

UpdateStock(a, v, n) ==
    /\ n \in scope.stocks
    /\ page[a].pc = "ready"
    /\ page[a].seen.variant[v] # NULL
    /\ n # page[a].seen.variant[v].stock
    /\ Ask(a, Put(<<>>, [id |-> v, set |-> [stock |-> n]]))

Shown(a) == {v \in Variants : page[a].seen.variant[v] # NULL}

UpdateVariantPrice(a, v, p) ==
    /\ p \in scope.prices
    /\ page[a].pc = "ready"
    /\ v \in Shown(a)
    /\ Cardinality(Shown(a)) > 1
    /\ p # page[a].seen.variant[v].price
    /\ Ask(a, Put(<<>>, [id |-> v, set |-> [price |-> p]]))

(* The entry of a new variant has no id; its row gets one when it is made. *)
AddVariant(a, p, n) ==
    /\ p \in scope.prices
    /\ n \in scope.stocks
    /\ Ask(a, Put(<<>>, [id |-> NULL, set |-> [price |-> p, stock |-> n]]))

DeleteVariant(a, v) ==
    /\ "delete" \in scope.ops
    /\ page[a].pc = "ready"
    /\ v \in Shown(a)
    /\ Ask(a, [kind |-> "deleteVariant", variant |-> v])

DeleteProduct(a) ==
    /\ "delete" \in scope.ops
    /\ Ask(a, [kind |-> "deleteProduct"])

NoRule == [asset |-> FALSE, rarity |-> FALSE, req |-> FALSE, enabled |-> TRUE]

AddRule(a, k, fields) ==
    /\ <<k, fields>> \in scope.newRules
    /\ Ask(a, [kind |-> "addRule", key |-> k, patch |-> fields])

(* One field of a rule at a time, the opposite of what the page shows.     *)
UpdateRule(a, k, field) ==
    /\ "rules" \in scope.ops
    /\ page[a].pc = "ready"
    /\ page[a].seen.rule[k] # NULL
    /\ Ask(a, [kind |-> "patchRule", key |-> k, patch |-> Only(field, ~page[a].seen.rule[k][field])])

-----------------------------------------------------------------------------
(* The routes: the reads and validations, then the write.                  *)

(* validateDigitalCollectibleConstraints with the collectible combination. *)
RuleAllowed(k, r, item) ==
    /\ k[2] = "digital_collectible" => k = Collectible
    /\ k = Collectible => item = "nft" /\ (r.enabled => r.asset /\ r.rarity /\ r.req)

(* The mode that is left out of a body is the stored one.                  *)
PutAllowed(r) ==
    /\ product # NULL
    /\ AgentPortalComplete(Over(r.fields, product))
    /\ r.entry = NULL \/ r.entry.id = NULL \/ variant[r.entry.id] # NULL

VariantDeletable(r) == variant[r.variant] # NULL /\ ItemsOf(r.variant) = {}
ProductDeletable(r) == product # NULL /\ \A o \in Orders : order[o].st = "none"
RuleAddable(r) == product # NULL /\ RuleAllowed(r.key, Over(r.patch, NoRule), product.item)

RulePatchable(r) ==
    /\ product # NULL
    /\ rule[r.key] # NULL
    /\ RuleAllowed(r.key, Over(r.patch, rule[r.key]), product.item)

Checked(r) ==
    CASE r.kind = "put" -> PutAllowed(r)
      [] r.kind = "deleteVariant" -> VariantDeletable(r)
      [] r.kind = "deleteProduct" -> ProductDeletable(r)
      [] r.kind = "addRule" -> RuleAddable(r)
      [] r.kind = "patchRule" -> RulePatchable(r)

Check(a) ==
    /\ req[a].pc = "sent"
    /\ req' = [req EXCEPT ![a] = IF Checked(req[a]) THEN [@ EXCEPT !.pc = "checked"]
                                 ELSE [pc |-> "failed"]]
    /\ UNCHANGED <<tables, clients, undercut, left, scope>>

Refuse(a) ==
    /\ req' = [req EXCEPT ![a] = [pc |-> "failed"]]
    /\ UNCHANGED <<tables, clients, undercut, left, scope>>

Done(a) ==
    /\ req' = [req EXCEPT ![a] = [pc |-> "done"]]
    /\ UNCHANGED <<clients, left, scope>>

(* products_agency_access_mode_check is the last to see the row.       *)
Unconstrained(p) == TRUE
Constraint(p) == AgentPortalComplete(p)

(* Price of the only variant: it follows the price of the form, unless the *)
(* request carries variants of its own.                                    *)
Cascades(a, v) == req[a].entry = NULL /\ "base" \in DOMAIN req[a].fields /\ Live = {v}

(* The row an entry is written to: the one of its id, or a new one, of      *)
(* which Variants bounds the number.                                        *)
Target(a) ==
    LET e == req[a].entry IN
    {v \in Variants : e # NULL /\ (IF e.id = NULL THEN variant[v] = NULL ELSE v = e.id)}
Started(v) == IF variant[v] = NULL THEN [price |-> 0, stock |-> 0, reserved |-> 0] ELSE variant[v]

Cascaded(a) ==
    [v \in Variants |-> IF Cascades(a, v) THEN [variant[v] EXCEPT !.price = req[a].fields.base] ELSE variant[v]]

Writable(a) ==
    LET e == req[a].entry IN
    /\ product # NULL
    /\ Constraint(Over(req[a].fields, product))
    /\ e # NULL /\ e.id # NULL => variant[e.id] # NULL

WriteEntry(a, v) ==
    LET set == req[a].entry.set IN
    /\ variant' = [variant EXCEPT ![v] = Over(set, Started(v))]
    /\ undercut' = IF "stock" \in DOMAIN set THEN Undercut(v, set.stock) ELSE undercut

CommitPut(a) ==
    /\ req[a].pc = "checked"
    /\ req[a].kind = "put"
    /\ \/ /\ Writable(a)
          /\ product' = Over(req[a].fields, product)
          /\ \/ \E v \in Target(a) : WriteEntry(a, v)
             \/ req[a].entry = NULL /\ variant' = Cascaded(a) /\ UNCHANGED undercut
          /\ Done(a)
          /\ UNCHANGED <<rule, order>>
       \/ ~Writable(a) /\ Refuse(a)

(* order_items.variant_id is set to NULL when its variant is deleted.      *)
CommitDeleteVariant(a) ==
    /\ req[a].pc = "checked"
    /\ req[a].kind = "deleteVariant"
    /\ LET v == req[a].variant IN
       \/ /\ variant[v] # NULL
          /\ variant' = [variant EXCEPT ![v] = NULL]
          /\ order' = [o \in Orders |-> IF o \in ItemsOf(v) THEN [order[o] EXCEPT !.variant = NULL] ELSE order[o]]
          /\ undercut' = undercut \ {v}
          /\ Done(a)
          /\ UNCHANGED <<product, rule>>
       \/ variant[v] = NULL /\ Refuse(a)

(* The foreign keys of order_items and of the rules refuse the product.    *)
Unreferenced == (\A o \in Orders : order[o].st = "none") /\ (\A k \in RuleKeys : rule[k] = NULL)

CommitDeleteProduct(a) ==
    /\ req[a].pc = "checked"
    /\ req[a].kind = "deleteProduct"
    /\ \/ /\ product # NULL /\ Unreferenced
          /\ product' = NULL
          /\ variant' = [v \in Variants |-> NULL]
          /\ undercut' = {}
          /\ Done(a)
          /\ UNCHANGED <<rule, order>>
       \/ ~(product # NULL /\ Unreferenced) /\ Refuse(a)

(* The unique key refuses a second rule of the same target and type; a     *)
(* patch is written by id.                                                 *)
CommitRule(a) ==
    /\ req[a].pc = "checked"
    /\ req[a].kind \in {"addRule", "patchRule"}
    /\ LET k == req[a].key
           insertable == product # NULL /\ rule[k] = NULL IN
       \/ /\ req[a].kind = "patchRule" \/ insertable
          /\ rule' = [rule EXCEPT ![k] = Over(req[a].patch, IF rule[k] = NULL THEN NoRule ELSE rule[k])]
          /\ Done(a)
          /\ UNCHANGED <<product, variant, order, undercut>>
       \/ req[a].kind = "addRule" /\ ~insertable /\ Refuse(a)

(* A success loads the page again, after the deletion it is left; an error *)
(* keeps the form.  The answer of a request that was carried out can be    *)
(* lost, which the page takes for an error.                                *)
Answer(a, lost) ==
    /\ req[a].pc \in {"done", "failed"}
    /\ page' = [page EXCEPT ![a].pc = IF req[a].pc = "done" /\ ~lost THEN "loading" ELSE "ready"]
    /\ req' = [req EXCEPT ![a] = Idle]
    /\ UNCHANGED <<tables, draft, sheet, undercut, left, scope>>

-----------------------------------------------------------------------------
(* The creation page: rows whose price was not typed follow the price.     *)

DraftRow(p) == [price |-> p, stock |-> 0]

EditDraft(d) ==
    /\ draft.pc = "edit"
    /\ left > 0
    /\ left' = left - 1
    /\ draft' = d
    /\ UNCHANGED <<tables, page, req, sheet, undercut, scope>>

DraftPrice(p) ==
    /\ p \in scope.prices
    /\ EditDraft([draft EXCEPT !.base = p,
         !.rows = [i \in DOMAIN @ |-> IF @[i].price = draft.base THEN [@[i] EXCEPT !.price = p] ELSE @[i]]])

DraftMode(pm) == EditDraft([draft EXCEPT !.pm = pm])
AddRow == Len(draft.rows) < Cardinality(Variants) /\ EditDraft([draft EXCEPT !.rows = Append(@, DraftRow(draft.base))])
RemoveRow == Len(draft.rows) > 1 /\ EditDraft([draft EXCEPT !.rows = Tail(@)])

SetRow(i, p, n) ==
    /\ i \in DOMAIN draft.rows
    /\ p \in scope.prices
    /\ n \in scope.stocks
    /\ p # draft.rows[i].price => Len(draft.rows) > 1
    /\ EditDraft([draft EXCEPT !.rows[i] = [price |-> p, stock |-> n]])

Create(mode, role) ==
    /\ draft.pc = "edit"
    /\ mode = "agent_portal" => role
    /\ draft' = [draft EXCEPT !.pc = "sent", !.mode = mode, !.role = role]
    /\ UNCHANGED <<tables, page, req, sheet, undercut, left, scope>>

CheckCreate ==
    /\ draft.pc = "sent"
    /\ draft' = [draft EXCEPT !.pc = IF product = NULL THEN "checked" ELSE "edit"]
    /\ UNCHANGED <<tables, page, req, sheet, undercut, left, scope>>

(* With one row the price of the form is sent for it.                      *)
Asked(i) ==
    IF Len(draft.rows) = 1 THEN Included(draft.base, draft.pm) ELSE Included(draft.rows[i].price, draft.pm)

(* The unique slug refuses a product created in between.                   *)
CommitCreate ==
    /\ draft.pc = "checked"
    /\ \/ /\ product = NULL
          /\ product' = [item |-> "nft", status |-> "draft", base |-> Included(draft.base, draft.pm),
                         mode |-> draft.mode, role |-> draft.role, overlay |-> NULL]
          /\ variant' = [v \in Variants |->
               IF v \in DOMAIN draft.rows
               THEN [price |-> Asked(v), stock |-> draft.rows[v].stock, reserved |-> 0] ELSE NULL]
          /\ draft' = [draft EXCEPT !.pc = "gone"]
          /\ UNCHANGED <<rule, order, page, req, sheet, undercut, left, scope>>
       \/ /\ product # NULL
          /\ draft' = [draft EXCEPT !.pc = "edit"]
          /\ UNCHANGED <<tables, page, req, sheet, undercut, left, scope>>

-----------------------------------------------------------------------------
(* The import pages.  Choosing a file forgets that one was previewed; the  *)
(* answer of a preview remembers it, whatever file is chosen by then.      *)

ChooseFile(f) ==
    /\ f \in scope.files
    /\ left > 0
    /\ left' = left - 1
    /\ sheet' = [sheet EXCEPT !.file = f, !.previewed = FALSE]
    /\ UNCHANGED <<tables, page, req, draft, undercut, scope>>

Preview ==
    /\ sheet.file # NULL
    /\ sheet.pc = "idle"
    /\ ~sheet.previewed
    /\ sheet' = [sheet EXCEPT !.pc = "previewing"]
    /\ UNCHANGED <<tables, page, req, draft, undercut, left, scope>>

Previewed ==
    /\ sheet.pc = "previewing"
    /\ sheet' = [sheet EXCEPT !.pc = "idle", !.previewed = TRUE]
    /\ UNCHANGED <<tables, page, req, draft, undercut, left, scope>>

Import ==
    /\ sheet.pc = "idle"
    /\ sheet.previewed
    /\ left > 0
    /\ left' = left - 1
    /\ sheet' = [sheet EXCEPT !.pc = "importing", !.rows = sheet.file]
    /\ UNCHANGED <<tables, page, req, draft, undercut, scope>>

(* The next row, in its own transaction; the last one, or a function that  *)
(* runs out of time, ends the import.                                      *)
NextRow == sheet' = [sheet EXCEPT !.rows = Tail(@), !.pc = IF Len(sheet.rows) = 1 THEN "idle" ELSE @]

ImportStops ==
    /\ sheet.pc = "importing"
    /\ sheet' = [sheet EXCEPT !.rows = <<>>, !.pc = "idle"]
    /\ UNCHANGED <<tables, page, req, draft, undercut, left, scope>>

ImportProductRow ==
    /\ sheet.pc = "importing"
    /\ LET r == Head(sheet.rows) IN
       /\ r.kind = "product"
       /\ product' = IF product = NULL
                     THEN [item |-> r.item, status |-> r.status, base |-> r.price, mode |-> "none", role |-> FALSE,
                           overlay |-> NULL]
                     ELSE [product EXCEPT !.item = r.item, !.status = r.status]
       /\ variant' = [variant EXCEPT ![r.variant] =
            [price |-> r.price, stock |-> r.stock, reserved |-> IF @ = NULL THEN 0 ELSE @.reserved]]
       /\ undercut' = Undercut(r.variant, r.stock)
    /\ NextRow
    /\ UNCHANGED <<rule, order, page, req, draft, left, scope>>

(* importOne: an order that was paid elsewhere, on a locked variant.       *)
ImportableUncounted(v) == variant[v] # NULL /\ product.item = "nft" /\ variant[v].stock >= 1
Importable(v) == variant[v] # NULL /\ product.item = "nft" /\ Available(v) >= 1

ImportOne(o, v) ==
    \/ /\ Importable(v)
       /\ order' = [order EXCEPT ![o] = [st |-> "paid", variant |-> v]]
       /\ variant' = [variant EXCEPT ![v].stock = @ - 1]
    \/ ~Importable(v) /\ UNCHANGED <<order, variant>>

ImportOrderRow(o) ==
    /\ sheet.pc = "importing"
    /\ Head(sheet.rows).kind = "order"
    /\ order[o].st = "none"
    /\ ImportOne(o, Head(sheet.rows).variant)
    /\ NextRow
    /\ UNCHANGED <<product, rule, page, req, draft, undercut, left, scope>>

(* A row that does not parse is reported and passed over.                  *)
ImportBadRow ==
    /\ sheet.pc = "importing"
    /\ Head(sheet.rows).kind = "bad"
    /\ NextRow
    /\ UNCHANGED <<tables, page, req, draft, undercut, left, scope>>

(* The form for one order; sent twice, it makes two orders.                *)
ExternalOrder(o, v) ==
    /\ "external" \in scope.ops
    /\ left > 0
    /\ left' = left - 1
    /\ order[o].st = "none"
    /\ ImportOne(o, v)
    /\ UNCHANGED <<product, rule, clients, req, undercut, scope>>

-----------------------------------------------------------------------------
(* The orders that hold the stock, see OrderPayments.                      *)

Sell(o, v) ==
    /\ o \in scope.orders
    /\ order[o].st = "none"
    /\ variant[v] # NULL
    /\ product.status = "published"
    /\ Available(v) >= 1
    /\ order' = [order EXCEPT ![o] = [st |-> "pending", variant |-> v]]
    /\ variant' = [variant EXCEPT ![v].reserved = @ + 1]
    /\ UNCHANGED <<product, rule, clients, req, undercut, left, scope>>

(* The stock of an item without a variant is left alone.                   *)
Settle(o, st, sold) ==
    /\ order[o].st = "pending"
    /\ order' = [order EXCEPT ![o].st = st]
    /\ variant' = IF order[o].variant = NULL THEN variant
                  ELSE [variant EXCEPT ![order[o].variant].stock = @ - sold,
                                       ![order[o].variant].reserved = @ - 1]
    /\ UNCHANGED <<product, rule, clients, req, undercut, left, scope>>

Pay(o) == Settle(o, "paid", 1)
Expire(o) == Settle(o, "closed", 0)

-----------------------------------------------------------------------------

Init ==
    /\ scope \in Scopes
    /\ product = scope.product
    /\ variant = scope.variant
    /\ rule = scope.rule
    /\ order = [o \in Orders |-> [st |-> "none", variant |-> NULL]]
    /\ page = [a \in Admins |-> Blank]
    /\ req = [a \in Admins |-> Idle]
    /\ draft = [pc |-> IF "create" \in scope.ops THEN "edit" ELSE "gone", base |-> 0, pm |-> "included",
                rows |-> <<DraftRow(0)>>, mode |-> "none", role |-> FALSE]
    /\ sheet = [pc |-> "idle", file |-> NULL, previewed |-> FALSE, rows |-> <<>>]
    /\ undercut = {}
    /\ left = scope.edits

Type(a) ==
    \/ \E p \in scope.prices : TypePrice(a, p)
    \/ \E pm \in {"included", "excluded"} : PriceModeChange(a, pm)
    \/ \E c \in scope.choices : Choose(a, c[1], c[2])

Press(a) ==
    \/ Save(a) \/ SaveOverlay(a)
    \/ \E c \in scope.choices : SaveField(a, c[1], c[2])
    \/ \E v \in Variants, n \in scope.stocks : UpdateStock(a, v, n)
    \/ \E v \in Variants, p \in scope.prices : UpdateVariantPrice(a, v, p)
    \/ \E p \in scope.prices, n \in scope.stocks : AddVariant(a, p, n)
    \/ \E v \in Variants : DeleteVariant(a, v)
    \/ DeleteProduct(a)
    \/ \E r \in scope.newRules : AddRule(a, r[1], r[2])
    \/ \E k \in RuleKeys, f \in DOMAIN NoRule : UpdateRule(a, k, f)

Serve(a) ==
    \/ Check(a)
    \/ CommitPut(a)
    \/ CommitDeleteVariant(a)
    \/ CommitDeleteProduct(a)
    \/ CommitRule(a)
    \/ \E lost \in BOOLEAN : Answer(a, lost)

Creation ==
    \/ \E p \in scope.prices : DraftPrice(p)
    \/ \E pm \in {"included", "excluded"} : DraftMode(pm)
    \/ AddRow \/ RemoveRow
    \/ \E i \in Variants, p \in scope.prices, n \in scope.stocks : SetRow(i, p, n)
    \/ \E mode \in {"none", "agent_portal"}, role \in BOOLEAN : Create(mode, role)
    \/ CheckCreate \/ CommitCreate

Imports ==
    \/ \E f \in scope.files : ChooseFile(f)
    \/ Preview \/ Previewed \/ Import \/ ImportStops
    \/ ImportProductRow
    \/ ImportBadRow
    \/ \E o \in Orders : ImportOrderRow(o)
    \/ \E o \in Orders, v \in Variants : ExternalOrder(o, v)

Sales ==
    \/ \E o \in Orders, v \in Variants : Sell(o, v)
    \/ \E o \in Orders : Pay(o) \/ Expire(o)

Next ==
    \/ \E a \in Admins : Open(a) \/ Load(a) \/ Type(a) \/ Press(a) \/ Serve(a)
    \/ Creation
    \/ Imports
    \/ Sales

Spec == Init /\ [][Next]_vars

-----------------------------------------------------------------------------
(* Safety.                                                                 *)

TypeOK ==
    /\ product = NULL \/ product \in Products
    /\ variant \in [Variants -> Rows \union {NULL}]
    /\ \A o \in Orders : order[o] \in [st : {"none", "pending", "paid", "closed"}, variant : Variants \union {NULL}]
    /\ undercut \subseteq Live
    /\ \A a \in Admins : page[a].pc \in {"closed", "loading", "ready", "waiting"}

(* Whatever the pages, the imports and the buyers do at the same time, a   *)
(* variant's reserved_stock is the number of its pending orders and its    *)
(* stock still covers them, until an administrator or a file writes a      *)
(* stock below what is held.                                               *)
HeldStockRemains ==
    \A v \in Live : /\ variant[v].reserved = Cardinality(HeldBy(v))
                    /\ v \notin undercut => variant[v].stock >= variant[v].reserved

(* A product that grants access to the agent portal always has the role    *)
(* and the code the provisioning sends, although the route validates       *)
(* against a product read before its transaction.                          *)
PortalAccessIsComplete == product # NULL => AgentPortalComplete(product)

(* The price of the only variant is the price of the product: the comment  *)
(* of the route calls them always equal.  It does not hold (README,        *)
(* section 6).                                                             *)
SinglePriceIsBase == \A v \in Variants : Live = {v} => variant[v].price = product.base
=============================================================================
