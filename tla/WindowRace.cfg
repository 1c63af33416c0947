SPECIFICATION Spec
CONSTANTS
  u1 = u1  u2 = u2  t1 = t1  t2 = t2  s1 = s1  s2 = s2  k1 = k1  m1 = m1
  Nil = Nil
  Users = {u1, u2}
  Localities = {"Indiranagar"}
  Tables = {t1}
  Slots = {s1, s2}
  Cafes = {"cafe"}
  Requests = {r1, r2}
  Keys = {k1}
  Mandates = {}
  TableCafe <- MCTableCafe
  SlotCafe <- MCSlotCafe
  SlotTime <- MCSlotTime
  SlotPrice <- MCSlotPrice
  CafeArea <- MCCafeArea
  InitialBalance <- MCBalance
  InitialMandates <- MCMandates
  Provider = "wallet"
  Window = 10
  MaxAttempts = 2
  Calls <- WindowCalls
  MaxFaults = 0
  MaxNow = 0
SYMMETRY RequestSymmetry
INVARIANT OneBookingPerWindow
