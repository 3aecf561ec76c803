\* A live window of one event and pages of two rows, so that two events behind is a gap and a
\* gap of three is two pages.  No symmetry: liveness is checked.
CONSTANTS
  s1 = s1
  s2 = s2
  Subscribers <- MCSubscribers
  BusCapacity = 1
  PageSize = 2
  MaxSequence = 4
SPECIFICATION Spec
INVARIANTS DeliveredExactly NothingLost
PROPERTIES DeliverySpec PublishedIsDelivered
