SPECIFICATION Spec
CONSTANTS
    u1 = u1
    u2 = u2
    t1 = t1
    t2 = t2
    t3 = t3
    m1 = m1
    m2 = m2
    r1 = r1
    r2 = r2
    pod1 = pod1
    pod2 = pod2
    req1 = req1
    req2 = req2
    Nobody = Nobody
    Urls = {u1, u2}
    Trackings = {t1, t2, t3}
    Merchants = {m1, m2}
    Products = {r1, r2}
    UrlOf <- SharedUrl
    OwnerOf <- SharedOwner
    ProductOf <- SharedProduct
    Pods = {pod1, pod2}
    Requests = {req1, req2}
    Known = {u2}
    MerchantLimit = 1
    ProductLimit = 1
    BatchLimit = 1
    MaxAdds = 3
    MaxDeletes = 2
    MaxCrashes = 1
SYMMETRY Symmetry
INVARIANTS TypeOK DispatchedOnce LimitsHold
CHECK_DEADLOCK FALSE
