SPECIFICATION PaymentsSpec
CONSTANTS
  u1 = u1  u2 = u2  t1 = t1  t2 = t2  s1 = s1  s2 = s2  k1 = k1  m1 = m1
  Nil = Nil
  Users = {u1, u2}
  Localities = {"Indiranagar"}
  Tables = {t1}
  Slots = {s1}
  Cafes = {"cafe"}
  Requests = {r1, r2, r3, r4}
  Keys = {k1}
  Mandates = {m1}
  TableCafe <- MCTableCafe
  SlotCafe <- MCSlotCafe
  SlotTime <- MCSlotTime
  SlotPrice <- MCSlotPrice
  CafeArea <- MCCafeArea
  InitialBalance <- MCBalance
  InitialMandates <- MCMandates
  Provider = "razorpay"
  Window = 10
  MaxAttempts = 2
  Calls <- PaidCalls
  Orders = {o1}
  OrderKey <- MCOrderKey
  OrderCalls <- MCOrderCalls
  MaxFaults = 2
  MaxNow = 1
SYMMETRY RequestSymmetry
CONSTRAINT OneHold
INVARIANTS
  AcknowledgedCaptureIsSettled
  BothOnlyByOverlap
  PaymentLinkIsItsOwn
