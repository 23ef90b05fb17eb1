---------------------------- MODULE CheckoutForm ----------------------------
(***************************************************************************)
(* The delivery form a buyer reserves a place with: the city is looked up  *)
(* as it is typed, its warehouses are fetched when it is chosen, and the   *)
(* order is sent with the city and the warehouse the form holds.  Nova     *)
(* Poshta's directory is external; a warehouse is known by its city.       *)
(***************************************************************************)
EXTENDS Naturals

CONSTANTS
  Cities,      \* the cities of the directory
  Nothing,     \* nothing typed, no city, no warehouse
  MaxLookups,  \* bound on the requests to the directory
  CheckoutEnvs \* [patient, faults]: whether the buyer waits, whether calls fail

VARIABLES
  situation, \* the one of CheckoutEnvs this behaviour is in
  query,     \* cityQuery
  typing,    \* the debounce timer of the search is running
  cities,    \* the cities offered
  city, warehouse, warehouses,  \* what is chosen, and the branches offered
  lookups,   \* requests to the directory under way
  asked,     \* how many there have been
  sent       \* orders sent: [city, warehouse]

checkoutVars ==
  << situation, query, typing, cities, city, warehouse, warehouses, lookups, asked, sent >>

form == << query, typing, cities, city, warehouse, warehouses >>

\* The branches of the chosen city are there, or their lookup has failed.
Settled == \A l \in lookups : l.kind # "warehouses"

CheckoutInit ==
  /\ situation \in CheckoutEnvs
  /\ query = Nothing /\ typing = FALSE
  /\ cities = {}
  /\ city = Nothing /\ warehouse = Nothing /\ warehouses = {}
  /\ lookups = {} /\ asked = 0
  /\ sent = {}

Lookup(kind, of) ==
  /\ asked < MaxLookups
  /\ asked' = asked + 1
  /\ lookups' = lookups \cup {[n |-> asked, kind |-> kind, of |-> of]}

\* Mutant: the branch chosen in the previous city stays until others are known.
KeepBranches == UNCHANGED << warehouse, warehouses >>

ForgetBranches == warehouse' = Nothing /\ warehouses' = {}

\* The city field: a keystroke forgets the choice made so far, and the search
\* runs once the buyer stops typing.
Type ==
  /\ query' \in Cities
  /\ typing' = TRUE
  /\ cities' = {} /\ city' = Nothing
  /\ warehouse' = Nothing /\ warehouses' = {}
  /\ UNCHANGED << situation, lookups, asked, sent >>

\* The timer of the effect fires; a later keystroke would have cleared it.
SearchCities ==
  /\ typing
  /\ typing' = FALSE
  /\ Lookup("cities", query)
  /\ UNCHANGED << situation, query, cities, city, warehouse, warehouses, sent >>

\* setCities: the answer is shown for whatever has been typed since.
ReceiveCities ==
  /\ \E l \in lookups :
       /\ l.kind = "cities"
       /\ cities' = {l.of}
       /\ lookups' = lookups \ {l}
  /\ UNCHANGED << situation, query, typing, city, warehouse, warehouses, asked, sent >>

\* handleCitySelect; the query becomes the name of the city, which stops the search.
handleCitySelect ==
  /\ situation.patient => Settled
  /\ \E c \in cities :
       /\ city' = c
       /\ query' = c
       /\ Lookup("warehouses", c)
  /\ typing' = FALSE
  /\ cities' = {}
  /\ ForgetBranches
  /\ UNCHANGED << situation, sent >>

\* The first branch is taken; a city may have none.
ReceiveWarehouses ==
  /\ \E l \in lookups :
       /\ l.kind = "warehouses"
       /\ warehouses' \in {{}, {l.of}}
       /\ warehouse' = IF warehouses' = {} THEN Nothing ELSE l.of
       /\ lookups' = lookups \ {l}
  /\ UNCHANGED << situation, query, typing, cities, city, asked, sent >>

\* The list of branches, disabled without a city.
ChooseWarehouse ==
  /\ city # Nothing
  /\ warehouse' \in warehouses \cup {Nothing}
  /\ UNCHANGED << situation, query, typing, cities, city, warehouses, lookups, asked, sent >>

LookupFails ==
  /\ situation.faults
  /\ \E l \in lookups : lookups' = lookups \ {l}
  /\ UNCHANGED << situation, form, asked, sent >>

\* handleSubmit: an order needs a city and a warehouse.
handleSubmit ==
  /\ situation.patient => Settled
  /\ city # Nothing /\ warehouse # Nothing
  /\ sent' = sent \cup {[city |-> city, warehouse |-> warehouse]}
  /\ UNCHANGED << situation, form, lookups, asked >>

CheckoutNext ==
  \/ Type \/ SearchCities \/ ReceiveCities
  \/ handleCitySelect \/ ReceiveWarehouses \/ ChooseWarehouse
  \/ LookupFails \/ handleSubmit

CheckoutSpec == CheckoutInit /\ [][CheckoutNext]_checkoutVars

\* An order goes to a warehouse of its city when the buyer waits for the branches
\* of a city before going on, a failed lookup included; a buyer who chooses
\* another city meanwhile can be given the branch of the first one.
OrderGoesToItsCity ==
  situation.patient => \A o \in sent : o.warehouse = o.city
=============================================================================
