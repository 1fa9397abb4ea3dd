\* Two writers of one record, a follower that fails at any step and an input that goes,
\* or two generations and an output that goes, under each of the guarantees.
CONSTANTS
  None = None
  orders = orders
  stock = stock
  alerts = alerts
  report = report
  r1 = r1
  r2 = r2
  p1 = p1
  ProducerIds = {p1}
  Producer = p1
  Generations = {1, 2}
  Owned = {alerts}
  Inputs = {orders, stock}
  Outputs = {alerts, report}
  InputOrder <- InOrder
  OutputOrder <- OutOrder
  Routes <- BothRoutes
  Runners = {r1, r2}
  Guarantees = {"effectively-once", "exactly-once", "at-least-once"}
  PageLimit = 2
  Removable = {orders}
  MaxAborts = 2
SPECIFICATION MCSpec
INVARIANTS
  EffectivelyOnce
  WholeUnits
  EndsAtTheEnd
PROPERTIES
  ImplementsAtomicProjection
  AloneFinishes
