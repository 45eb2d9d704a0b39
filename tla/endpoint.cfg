SPECIFICATION EndpointSpec
CONSTANTS
    Servers = {d1, d2, d3}
    Nobody = Nobody
INVARIANT ServersReachable
CHECK_DEADLOCK FALSE
