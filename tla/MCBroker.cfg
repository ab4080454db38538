CONSTANTS
  c1 = c1
  c2 = c2
  g1 = g1
  g2 = g2
  Clients <- MCClients
  GameServers <- MCGameServers
  MaxConnections <- MCMaxConnections
  MaxChunks <- MCMaxChunks

SPECIFICATION Spec

INVARIANT TypeOK
INVARIANT TokenPartition
INVARIANT NoLostWakeup

PROPERTY DropOnlyWhenFull
PROPERTY ClientCloseReleases
