------------------------------- MODULE Grocery -------------------------------
(* The grocery domain (plugins/grocery) as one session uses it: the store it *)
(* shops at, the browser it has a chain's site open in, the cart it keeps of *)
(* its own, and the products and prices it harvests from the pages it sees.  *)
(* The model and the web user interface call its tools at the same time.     *)
(*                                                                           *)
(* Each chain sells one product.  What a page looks like, how names, sizes   *)
(* and prices are read from it, popups and hosts are left out; the site puts *)
(* things in its own cart some time after a click, or not at all.            *)
(***************************************************************************)
EXTENDS Integers, FiniteSets, TLC

CONSTANTS
    Shoppers,       \* who calls tools, each one at a time
    StoreIds,       \* numbers of the stores of each chain, from 1
    MaxBrowsers,    \* bound: browsers started
    MaxBought,      \* bound: clicks, and things in a cart
    MaxDays,        \* bound: days
    GroceryWays     \* what happens in a behaviour: sets of "cart" (the session's own
                    \* cart is edited), "clicks" (things are bought), "harvest" (pages
                    \* are read), "days" (they go by), "switch" (stores are set while a browser runs, or not
                    \* as default, and products found at one chain are visited while
                    \* shopping at the other), "fail" (browsers and sites do),
                    \* "overlap" (tools run at the same time)

VARIABLES
    groceryWay,     \* which of GroceryWays this behaviour is
    shop,           \* GroceryState of the session
    defaults,       \* the plugin's config: the default store of each chain, or 0
    browsers,       \* the browsers that were started
    errands,        \* what each shopper is doing
    harvest,        \* the products and prices stored
    today,
    bought          \* ghost: what add_product tracked, what the site put in its carts

groceryVars == <<groceryWay, shop, defaults, browsers, errands, harvest, today, bought>>

ASSUME GroceryAssumption ==
    /\ StoreIds \subseteq Nat \ {0} /\ MaxBrowsers \in Nat /\ MaxBought \in Nat
    /\ MaxDays \in Nat \ {0}

-----------------------------------------------------------------------------

Chains == {"pcexpress", "saveon"}
Product(chain) == <<chain, 0>>
Unknown(n) == <<"unknown", n>>
Put(f, x, v) == [y \in DOMAIN f \cup {x} |-> IF y = x THEN v ELSE f[y]]
Unless(f, x) == [y \in DOMAIN f \ {x} |-> f[y]]

CartItem(n, chain, of) == [quantity |-> n, chain |-> chain, of |-> of]
PriceRecord(chain, store, of) == [chain |-> chain, store |-> store, date |-> today, of |-> of]

(* _get_state: a session begins at the default store of PC Express.          *)
NewShop(stores) ==
    [store |-> stores["pcexpress"], chain |-> "pcexpress", cart |-> <<>>, results |-> {}, browser |-> 0]
NoErrand == [at |-> "free", op |-> "", browser |-> 0, chain |-> "pcexpress", store |-> 0, before |-> 0,
             known |-> TRUE]

GroceryInit ==
    /\ groceryWay \in GroceryWays
    /\ defaults = [chain \in Chains |-> 0]
    /\ shop = NewShop(defaults)
    /\ browsers = <<>>
    /\ errands = [c \in Shoppers |-> NoErrand]
    /\ harvest = [products |-> {}, nutrition |-> {}, prices |-> {}]
    /\ today = 1
    /\ bought = [tracked |-> 0, added |-> 0]

Does(what) == what \in groceryWay
Live == {b \in DOMAIN browsers : browsers[b].live}
PageOf(c) == browsers[errands[c].browser]

(* A shopper may begin something; and once it has, it waits.                 *)
MayCall(c) ==
    /\ errands[c].at = "free"
    /\ Does("overlap") \/ \A d \in Shoppers : errands[d].at = "free"

Begins(c, at, op) ==
    errands' = [errands EXCEPT ![c] = [at |-> at, op |-> op, browser |-> shop.browser, chain |-> shop.chain,
                                       store |-> shop.store, before |-> 0, known |-> TRUE]]
Ends(c) == errands' = [errands EXCEPT ![c] = NoErrand]

-----------------------------------------------------------------------------
(* Stores, searching by the chains' interfaces, the session's own cart       *)

(* grocery_set_store, grocery_store_select; each chain has a default.        *)
SetStore(c, chain, store, save) ==
    /\ MayCall(c)
    /\ Does("switch") \/ (Live = {} /\ save)
    /\ shop' = [shop EXCEPT !.store = store, !.chain = chain]
    /\ defaults' = IF save THEN [defaults EXCEPT ![chain] = store] ELSE defaults
    /\ UNCHANGED <<groceryWay, browsers, errands, harvest, today, bought>>

(* grocery_search asks the interface of the chain.                           *)
SearchChain(c) ==
    /\ MayCall(c) /\ Does("cart") /\ shop.store # 0
    /\ Begins(c, "search", "api")
    /\ UNCHANGED <<groceryWay, shop, defaults, browsers, harvest, today, bought>>

SearchAnswered(c) ==
    /\ errands[c].at = "search"
    /\ shop' = [shop EXCEPT !.results = {Product(errands[c].chain)}]
    /\ Ends(c)
    /\ UNCHANGED <<groceryWay, defaults, browsers, harvest, today, bought>>

More(cart, code, n, item) ==
    IF code \in DOMAIN cart THEN [cart EXCEPT ![code].quantity = @ + n] ELSE Put(cart, code, item)

(* grocery_cart_add, grocery_cart_update and grocery_cart_remove,            *)
(* grocery_cart_clear and its namesakes.                                     *)
EditCart(c) ==
    /\ MayCall(c) /\ Does("cart")
    /\ \/ \E code \in shop.results, n \in 1..MaxBought :
              shop' = [shop EXCEPT !.cart = More(@, code, n, CartItem(n, code[1], code[1]))]
       \/ \E code \in DOMAIN shop.cart, n \in 0..MaxBought :
              shop' = [shop EXCEPT !.cart = IF n = 0 THEN Unless(@, code) ELSE [@ EXCEPT ![code].quantity = n]]
       \/ shop' = [shop EXCEPT !.cart = <<>>]
    /\ \A code \in DOMAIN shop'.cart : shop'.cart[code].quantity <= MaxBought
    /\ UNCHANGED <<groceryWay, defaults, browsers, errands, harvest, today, bought>>

(* grocery_cart_export: what goes to the site of which chain.                *)
Exported(chain) ==
    {code \in DOMAIN shop.cart : IF shop.cart[code].chain = "saveon" THEN chain = "saveon"
                                 ELSE chain = "pcexpress"}

-----------------------------------------------------------------------------
(* The browser                                                               *)

(* grocery_browser_start, until it has the site of the chain on its page.    *)
StartBrowser(c) ==
    /\ MayCall(c) /\ shop.browser = 0
    /\ Cardinality(DOMAIN browsers) < MaxBrowsers
    /\ Begins(c, "connect", "start")
    /\ UNCHANGED <<groceryWay, shop, defaults, browsers, harvest, today, bought>>

(* A browser shows a store: SaveOn's is part of the address, that of PC      *)
(* Express has to be chosen on the site.                                     *)
Connected(c) ==
    LET b == Cardinality(DOMAIN browsers) + 1
        page == [live |-> TRUE, chain |-> errands[c].chain, page |-> "home", cart |-> 0, clicks |-> 0,
                 store |-> IF errands[c].chain = "saveon" THEN errands[c].store ELSE 0]
    IN  /\ errands[c].at = "connect" /\ b <= MaxBrowsers
        /\ \/ /\ browsers' = Put(browsers, b, page)
              /\ shop' = [shop EXCEPT !.browser = b]
              /\ errands' = [errands EXCEPT ![c].at = "choose", ![c].browser = b]
           \/ /\ Does("fail")             \* connected, but the page does not open
              /\ browsers' = Put(browsers, b, page)
              /\ Ends(c) /\ UNCHANGED shop
    /\ UNCHANGED <<groceryWay, defaults, harvest, today, bought>>

(* The default store is chosen, when the page has the button for it.         *)
StoreChosen(c) ==
    /\ errands[c].at = "choose"
    /\ \E chosen \in {TRUE} \cup (IF Does("fail") THEN {FALSE} ELSE {}) :
          browsers' = IF chosen /\ shop.chain = "pcexpress" /\ errands[c].chain = "pcexpress" /\ PageOf(c).live
                      THEN [browsers EXCEPT ![errands[c].browser].store = defaults["pcexpress"]]
                      ELSE browsers
    /\ Ends(c)
    /\ UNCHANGED <<groceryWay, shop, defaults, harvest, today, bought>>

(* grocery_browser_stop                                                      *)
StopBrowser(c) ==
    /\ MayCall(c) /\ shop.browser # 0
    /\ Begins(c, "disconnect", "stop")
    /\ UNCHANGED <<groceryWay, shop, defaults, browsers, harvest, today, bought>>

Disconnected(c) ==
    /\ errands[c].at = "disconnect"
    /\ browsers' = [browsers EXCEPT ![errands[c].browser].live = FALSE]
    /\ shop' = [shop EXCEPT !.browser = 0]
    /\ Ends(c)
    /\ UNCHANGED <<groceryWay, defaults, harvest, today, bought>>

(* on_unload: the domain is unloaded, and may be loaded again.               *)
UnloadGrocery ==
    /\ shop.browser # 0 /\ \A c \in Shoppers : errands[c].at = "free"
    /\ browsers' = [browsers EXCEPT ![shop.browser].live = FALSE]
    /\ shop' = [shop EXCEPT !.browser = 0]
    /\ UNCHANGED <<groceryWay, defaults, errands, harvest, today, bought>>

(* grocery_browser_search, grocery_product_goto (for what a page listed),    *)
(* and other ways to move about; the tools that only look, fill in or click  *)
(* something else change nothing that is kept here.                          *)
Visit(c, page) ==
    /\ MayCall(c) /\ shop.browser # 0
    /\ page = "detail" => /\ Product("pcexpress") \in shop.results
                          /\ shop.chain = "pcexpress" \/ Does("switch")
    /\ Begins(c, "visit", page)
    /\ UNCHANGED <<groceryWay, shop, defaults, browsers, harvest, today, bought>>

Visited(c) ==
    LET e == errands[c]
        to == IF e.op = "detail" THEN "pcexpress" ELSE e.chain
    IN  /\ e.at = "visit"
        /\ browsers' = IF ~PageOf(c).live THEN browsers
                       ELSE [browsers EXCEPT ![e.browser].page = e.op, ![e.browser].chain = to,
                                ![e.browser].store = IF to = "saveon" THEN e.store
                                                     ELSE IF PageOf(c).chain = "saveon" THEN 0 ELSE @]
        /\ Ends(c)
        /\ UNCHANGED <<groceryWay, shop, defaults, harvest, today, bought>>

-----------------------------------------------------------------------------
(* Harvesting                                                                *)

(* _save_price: one for each product, store and day.                         *)
SavePrice(h, record) ==
    [h EXCEPT !.prices =
        {p \in @ : <<p.chain, p.store, p.date>> # <<record.chain, record.store, record.date>>} \cup {record}]

(* _harvest_product_price, which keeps the nutrition facts of a product.     *)
HarvestPrice(h, code, record) == SavePrice([h EXCEPT !.products = @ \cup {code}], record)

(* _harvest_nutrition: of products that are known.                           *)
HarvestNutrition(h, code) ==
    IF code \in h.products THEN [h EXCEPT !.nutrition = @ \cup {code}] ELSE h

(* grocery_browser_get_products and grocery_browser_get_product_detail read  *)
(* the page; what comes back is stored for the store that is set by then.    *)
ReadPage(c, op) ==
    /\ MayCall(c) /\ Does("harvest") /\ shop.browser # 0
    /\ Begins(c, "read", op)
    /\ UNCHANGED <<groceryWay, shop, defaults, browsers, harvest, today, bought>>

PageRead(c) ==
    LET e == errands[c]
        readable == PageOf(c).live /\ PageOf(c).page = e.op
                    /\ (IF e.op = "search" THEN e.chain = PageOf(c).chain ELSE PageOf(c).chain = "pcexpress")
        code == Product(PageOf(c).chain)
        known == IF e.op = "detail" THEN HarvestNutrition(harvest, code) ELSE harvest
        record == PriceRecord(shop.chain, shop.store, <<PageOf(c).chain, PageOf(c).store>>)
    IN  /\ e.at = "read"
        /\ shop' = IF readable /\ e.op = "search" THEN [shop EXCEPT !.results = {code}] ELSE shop
        /\ harvest' = IF ~readable THEN harvest
                      ELSE IF shop.store = 0 THEN known ELSE HarvestPrice(known, code, record)
        /\ Ends(c)
        /\ UNCHANGED <<groceryWay, defaults, browsers, today, bought>>

-----------------------------------------------------------------------------
(* Buying                                                                    *)

Buying(c) ==
    /\ MayCall(c) /\ Does("clicks") /\ shop.browser # 0
    /\ browsers[shop.browser].page # "home"

(* grocery_browser_add_product counts the site's cart before,                *)
AddProduct(c) ==
    /\ Buying(c)
    /\ \E known \in BOOLEAN :
          errands' = [errands EXCEPT ![c] =
              [at |-> "click", op |-> "add", browser |-> shop.browser, chain |-> shop.chain,
               store |-> shop.store, before |-> browsers[shop.browser].cart, known |-> known]]
    /\ UNCHANGED <<groceryWay, shop, defaults, browsers, harvest, today, bought>>

(* then clicks, when the browser is still there; the buttons of              *)
(* grocery_browser_increase_quantity and grocery_product_add_to_cart are     *)
(* clicked likewise,                                                         *)
Clicks(c, op) ==
    /\ IF op = "add" THEN errands[c].at = "click" ELSE Buying(c)
    /\ LET b == shop.browser
       IN  IF b = 0 THEN Ends(c) /\ UNCHANGED browsers
           ELSE /\ bought.added + browsers[b].clicks < MaxBought
                /\ browsers' = [browsers EXCEPT ![b].clicks = @ + 1]
                /\ errands' = IF op = "add" THEN [errands EXCEPT ![c].at = "count"] ELSE errands
    /\ UNCHANGED <<groceryWay, shop, defaults, harvest, today, bought>>

(* what the site does about a click,                                         *)
SiteCarts(b) ==
    /\ browsers[b].live /\ browsers[b].clicks > 0
    /\ \/ /\ browsers' = [browsers EXCEPT ![b].clicks = @ - 1, ![b].cart = @ + 1]
          /\ bought' = [bought EXCEPT !.added = @ + 1]
       \/ /\ browsers' = [browsers EXCEPT ![b].clicks = @ - 1]
          /\ UNCHANGED bought
    /\ UNCHANGED <<groceryWay, shop, defaults, errands, harvest, today>>

(* grocery_browser_decrease_quantity: the site takes one out; what the       *)
(* session tracks stays as it is.                                            *)
DecreaseQuantity(c) ==
    /\ Buying(c) /\ browsers[shop.browser].cart > 0
    /\ browsers' = [browsers EXCEPT ![shop.browser].cart = @ - 1]
    /\ UNCHANGED <<groceryWay, shop, defaults, errands, harvest, today, bought>>

(* Mutant of Counted: what was clicked is tracked, whatever is counted.      *)
Counted_Anyway(c) ==
    LET e == errands[c]
        b == shop.browser
        code == IF e.known /\ shop.results # {} THEN CHOOSE p \in shop.results : TRUE
                ELSE Unknown(Cardinality(DOMAIN shop.cart))
        of == IF b = 0 THEN "pcexpress" ELSE browsers[b].chain
    IN  /\ e.at = "count"
        /\ IF b # 0
           THEN /\ shop' = [shop EXCEPT !.cart = IF code[1] = "unknown" THEN Put(@, code, CartItem(1, "pcexpress", of))
                                                ELSE More(@, code, 1, CartItem(1, "pcexpress", of))]
                /\ bought' = [bought EXCEPT !.tracked = @ + 1]
           ELSE UNCHANGED <<shop, bought>>
        /\ Ends(c)
        /\ UNCHANGED <<groceryWay, defaults, browsers, harvest, today>>

(* and, after some time, counts again and tracks what it bought: under its   *)
(* code when the results have it, or by a number.                            *)
Counted(c) ==
    LET e == errands[c]
        b == shop.browser
        code == IF e.known /\ shop.results # {} THEN CHOOSE p \in shop.results : TRUE
                ELSE Unknown(Cardinality(DOMAIN shop.cart))
        of == IF b = 0 THEN "pcexpress" ELSE browsers[b].chain
    IN  /\ e.at = "count"
        /\ IF b # 0 /\ browsers[b].cart > e.before
           THEN /\ shop' = [shop EXCEPT !.cart = IF code[1] = "unknown" THEN Put(@, code, CartItem(1, "pcexpress", of))
                                                ELSE More(@, code, 1, CartItem(1, "pcexpress", of))]
                /\ bought' = [bought EXCEPT !.tracked = @ + 1]
           ELSE UNCHANGED <<shop, bought>>
        /\ Ends(c)
        /\ UNCHANGED <<groceryWay, defaults, browsers, harvest, today>>

(* grocery_browser_sync_cart: the products of PC Express that the page shows *)
(* as in the cart.                                                           *)
SyncCart(c) ==
    /\ Buying(c)
    /\ LET page == browsers[shop.browser]
           code == Product("pcexpress")
       IN  /\ page.chain = "pcexpress" /\ page.cart > 0
           /\ shop' = [shop EXCEPT !.cart =
                  Put(@, code, IF code \in DOMAIN @ THEN [@[code] EXCEPT !.quantity = page.cart]
                               ELSE CartItem(page.cart, "pcexpress", "pcexpress"))]
    /\ UNCHANGED <<groceryWay, defaults, browsers, errands, harvest, today, bought>>

-----------------------------------------------------------------------------

(* A day goes by.                                                            *)
NextDay ==
    /\ Does("days") /\ today < MaxDays
    /\ today' = today + 1
    /\ UNCHANGED <<groceryWay, shop, defaults, browsers, errands, harvest, bought>>

(* The server stops and starts: what a session had is gone, for save_state   *)
(* is not called; what was harvested and the defaults are read again.        *)
RestartGrocery ==
    /\ shop' = NewShop(defaults)
    /\ browsers' = [b \in DOMAIN browsers |-> [browsers[b] EXCEPT !.live = FALSE]]
    /\ errands' = [c \in Shoppers |-> NoErrand]
    /\ UNCHANGED <<groceryWay, defaults, harvest, today, bought>>

GroceryNext ==
    \/ \E c \in Shoppers :
          \/ \E chain \in Chains, store \in StoreIds, save \in BOOLEAN : SetStore(c, chain, store, save)
          \/ SearchChain(c) \/ SearchAnswered(c) \/ EditCart(c)
          \/ StartBrowser(c) \/ Connected(c) \/ StoreChosen(c) \/ StopBrowser(c) \/ Disconnected(c)
          \/ \E page \in {"search", "detail"} : Visit(c, page)
          \/ Visited(c)
          \/ \E op \in {"search", "detail"} : ReadPage(c, op)
          \/ PageRead(c)
          \/ AddProduct(c) \/ Clicks(c, "add") \/ Clicks(c, "other") \/ DecreaseQuantity(c)
          \/ Counted(c) \/ SyncCart(c)
    \/ \E b \in DOMAIN browsers : SiteCarts(b)
    \/ UnloadGrocery \/ NextDay \/ RestartGrocery

GrocerySpec == GroceryInit /\ [][GroceryNext]_groceryVars

-----------------------------------------------------------------------------
(* Properties                                                                *)

GroceryTypeOK ==
    /\ shop.chain \in Chains /\ shop.store \in StoreIds \cup {0}
    /\ shop.browser \in DOMAIN browsers \cup {0}
    /\ \A c \in Shoppers : errands[c].at \in {"visit", "read", "disconnect"} =>
           errands[c].browser \in DOMAIN browsers
    /\ \A p \in harvest.prices : p.chain \in Chains /\ p.store \in StoreIds /\ p.date \in 1..today

(* "Deduplicates: only one price per (code, store_id, banner, date)"         *)
(* (grocery/domain.py:649), and no price without its product.                *)
OnePriceADay ==
    \A p \in harvest.prices :
        /\ Product(p.of[1]) \in harvest.products
        /\ \A q \in harvest.prices : <<p.chain, p.store, p.date>> = <<q.chain, q.store, q.date>> => p = q

(* A price is stored for the store whose page it was read from ("A price     *)
(* observation for a product at a specific store and date", domain.py:385).  *)
(* Refuted: the store may be set while the page of another is shown.         *)
PricesAsShown == \A p \in harvest.prices : p.of = <<p.chain, p.store>>

(* So it is when stores are set while no browser runs, as defaults, and the  *)
(* site lets them be chosen.                                                 *)
PricesAsShownInTurn == groceryWay \cap {"switch", "fail", "overlap"} = {} => PricesAsShown

(* A browser that runs is the session's, or just being started, however      *)
(* often it is started, stopped and unloaded; else nobody stops it.          *)
OneBrowser == Cardinality(Live) <= 1 /\ Live \subseteq {shop.browser}
OneBrowserInTurn == groceryWay \cap {"fail", "overlap"} = {} => OneBrowser

(* What add_product tracks the site has put in a cart, however late, and     *)
(* whatever it dropped, was clicked besides or was stopped in between.       *)
TrackedWasAdded == bought.tracked <= bought.added
TrackedWasAddedInTurn == ~Does("overlap") => TrackedWasAdded

(* A product that is known and whose page is read has its nutrition facts    *)
(* from then on, whatever prices are stored for it ("Update basic fields but *)
(* preserve nutrition/ingredients", domain.py:719).                          *)
NutritionStays ==
    [][/\ harvest.nutrition \subseteq harvest'.nutrition
       /\ \A c \in Shoppers :
              LET b == errands[c].browser
              IN  /\ errands[c].at = "read" /\ errands[c].op = "detail" /\ errands'[c].at = "free"
                  /\ Product("pcexpress") \in harvest.products
                  /\ browsers[b].page = "detail" /\ browsers[b].live /\ browsers'[b].live
                  => Product("pcexpress") \in harvest'.nutrition]_groceryVars

(* "Visit the product detail page to harvest" (domain.py:3725): a product    *)
(* with a price read from its page has its facts (refuted: they are stored   *)
(* before the product is, and dropped).                                      *)
NutritionHarvested ==
    [][\A c \in Shoppers : errands[c].op = "detail" /\ errands[c].at = "read" /\ harvest' # harvest =>
           harvest'.nutrition # {}]_groceryVars

(* What is exported to a site was found on that site (refuted: what the      *)
(* browser bought is always taken to be of PC Express).                      *)
ExportedToItsSite == \A chain \in Chains : \A code \in Exported(chain) : shop.cart[code].of = chain

(* What is tracked stays in the cart unless it is taken out (refuted: numbers*)
(* are given again).                                                         *)
TrackedStays ==
    [][\A code \in DOMAIN shop.cart :
           bought'.tracked > bought.tracked => shop'.cart[code].quantity > shop.cart[code].quantity
               \/ Cardinality(DOMAIN shop'.cart) > Cardinality(DOMAIN shop.cart)]_groceryVars
=============================================================================
