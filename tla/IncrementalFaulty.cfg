SPECIFICATION Spec
CONSTANTS
    s1 = s1  s2 = s2  a = a  b = b  p1 = p1  p2 = p2  m1 = m1  m2 = m2
    d1 = d1  d2 = d2  t1 = t1  t2 = t2  w1 = w1  w2 = w2
    None = None
    Authored = Authored
    Shots = {s1}
    Slots = {a, b}
    Params = {p1, p2}
    Models = {m1}
    Schedulers = {d1, d2}
    Prompts = {t1, t2}
    Workers = {w1}
    Requests <- FaultyRequests
    Faults = {"job", "restore", "extract", "scan"}
INVARIANTS
    ReuseIsExact
