SPECIFICATION Spec
CONSTANTS
    s1 = s1  s2 = s2  a = a  b = b  p1 = p1  p2 = p2  m1 = m1  m2 = m2
    d1 = d1  d2 = d2  t1 = t1  t2 = t2  w1 = w1  w2 = w2
    None = None
    Authored = Authored
    Shots = {s1, s2}
    Slots = {a}
    Params = {p1}
    Models = {m1, m2}
    Schedulers = {d1}
    Prompts = {t1}
    Workers = {w1}
    Requests <- PreviewRequests
    Faults = {}
INVARIANT HashVouchesForImage
