---------------------------- MODULE SecondChance ----------------------------
(***************************************************************************)
(* SecondChanceService: the listing of a returned or unsold unit.  Each    *)
(* request is one update of one document; what it makes of a listing is an *)
(* operator here, and AdminPages calls them from the panel.                *)
(***************************************************************************)

ListingStatuses ==
  {"draft", "wishlist_priority", "public_available", "reserved", "sold",
   "expired", "cancelled"}

\* createListing
NewListing == "draft"

\* Mutant: the sale is not filtered on the status.
SellAnything == ListingStatuses

\* The statuses the update of markSold filters on.
SellableStatuses == {"public_available", "reserved"}

\* setPriority, makePublic, expire and cancel write their status over any other.
Relistings == {"wishlist_priority", "public_available", "expired", "cancelled"}

\* transitionListing: the statuses that the request for status `next` leaves a
\* listing in, none when it is refused.
TransitionListing(status, next) ==
  { t \in Relistings \cup {"sold"} :
      t = next /\ (t = "sold" => status \in SellableStatuses) }
=============================================================================
