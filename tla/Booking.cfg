SPECIFICATION FairSpec
CONSTANTS
  u1 = u1  u2 = u2  t1 = t1  t2 = t2  s1 = s1  s2 = s2  k1 = k1  m1 = m1
  Nil = Nil
  Users = {u1, u2}
  Localities = {"Indiranagar"}
  Tables = {t1, t2}
  Slots = {s1}
  Cafes = {"cafe"}
  Requests = {r1, r2, r3}
  Keys = {k1}
  Mandates = {m1}
  TableCafe <- MCTableCafe
  SlotCafe <- MCSlotCafe
  SlotTime <- MCSlotTime
  SlotPrice <- MCSlotPrice
  CafeArea <- MCCafeArea
  InitialBalance <- MCBalance
  InitialMandates <- MCMandates
  Provider = "wallet"
  Window = 10
  MaxAttempts = 2
  Calls <- BookingCalls
  MaxFaults = 1
  MaxNow = 1
CONSTRAINT NumberedByCall
INVARIANTS
  TypeOK
  NoDoubleBooking
  LockedSeatStaysFree
  MandateSpentOnBookings
PROPERTIES
  WalletMovesWithBookings
  EveryRequestAnswered
