SPECIFICATION NetSpec
CONSTANTS
    Buf = {b1, b2, b3}
    Block = {m1, m2, m3}
    Part = {data, header}
    RefMax = 1
    Sender = {t1, t2}
    Ip = {ip1, ip2}
    Entry = {e1, e2}
    MaxArpAge = 1
    MaxArpRequests = 2
    RetriesMax = 9
    IdSpace = 4
    Host = {h1, h2}
    LossMax = 2
PROPERTIES
    LinkConnects
CHECK_DEADLOCK FALSE
