SPECIFICATION Spec
CONSTANTS
    gen = gen
    dem = dem
    bat = bat
    sw = sw
    Scale = 2
    NaN = NaN
    Infinity = Infinity
    MinusInfinity = MinusInfinity
    Appliance = {gen, dem, bat}
    Switch = {sw}
    Role <- MCRole
    Interfaces <- MCInterfaces
    PowerLines <- MCLines
    LocalPis <- MCLocalPis
    Flags = {1, 35}
    Values <- MCValues
    Parts = {1}
    Energies = {0, 2}
    Capacity = 1
    MaxDrift = 1
    MaxCs = 2
INVARIANTS ComponentsArePartition CsInStep SupplyMeetsDemand EnergyInRange
PROPERTY StorageStops
CHECK_DEADLOCK FALSE
