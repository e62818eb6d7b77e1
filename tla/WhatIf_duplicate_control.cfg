CONSTANTS
    tcp = tcp  udp = udp  a1 = a1  a2 = a2  telnet = telnet  https = https
    corp = corp  public = public  private = private
    h1 = h1  mgmt = mgmt
    Community = {corp, public, private}
    Default = {public, private}
    PolicyId = {1, 2}
    Host = {h1}
    Acl = {mgmt}
    Protocol = {tcp, udp}
    Address = {a1, a2}
    Port = {telnet, https}
    Uploaded <- MCUploaded
    Supplied <- MCSupplied
    Nothing = Nothing
SPECIFICATION Spec
INVARIANTS
    OneFindingPerControl
