-------------------------- MODULE AvailabilityClaims --------------------------
(***************************************************************************)
(* What the cache's comments say of it and its interleavings do not keep.  *)
(***************************************************************************)
EXTENDS Availability

\* "A stale entry can make a free slot look busy for up to the TTL but can never make
\* a taken slot look free": at rest, with every change published, no cached grid
\* shows a taken seat as free.  A reader may read the holds before a confirm and the
\* bookings after, or the other way round, or store what it read before a change
\* after the change's invalidation.
TakenNeverLooksFree ==
  (\A c \in Clients : request[c] = Nil) =>
    \A d \in Dates :
      cache[d] # Nil => \A s \in cache[d] : ~ Taken(s)
================================================================================
