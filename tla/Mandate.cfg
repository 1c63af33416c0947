SPECIFICATION AuthoritySpec
CONSTANTS
  u1 = u1  u2 = u2  t1 = t1  t2 = t2  s1 = s1  s2 = s2  k1 = k1  m1 = m1
  Nil = Nil
  Users = {u1, u2}
  Localities = {"Indiranagar"}
  Tables = {t1, t2}
  Slots = {s1}
  Cafes = {"cafe"}
  Requests = {r1, r2, r3, r4}
  Keys = {}
  Mandates = {m1}
  TableCafe <- MCTableCafe
  SlotCafe <- MCSlotCafe
  SlotTime <- MCSlotTime
  SlotPrice <- MCSlotPrice
  CafeArea <- MCCafeArea
  InitialBalance <- MCBalance
  InitialMandates <- MCMandates
  Provider = "wallet"
  Window = 10
  MaxAttempts = 2
  Calls <- AuthorityCalls
  Consoles = {c1, c2}
  Previews <- MCPreviews
  Candidates <- MCCandidates
  MaxAlternatives = 1
  MaxFaults = 0
  MaxNow = 0
SYMMETRY CallSymmetry
CONSTRAINT HoldsFirst
INVARIANTS
  DeniedStaysDenied
  ActiveMandateIsAccounted
  AuthorityIsBounded
  MandateCeilingsHold
  RefusedConfirmLeavesNothing
PROPERTIES
  RevocationIsFinal
